---------------------------- MODULE SecureProofs ----------------------------
(***************************************************************************)
(* A secure update from end to end, for every value of the constants.  The *)
(* number of a secure packet has four bits and its text may decrypt to     *)
(* garbage, so the device cannot know which chunk it stores.  What makes   *)
(* the image right is told by the two ends together: as long as the        *)
(* device's counter and the packets on their way add up to the GUI's chunk *)
(* number, each chunk is in its place; once they do not, they never will   *)
(* again, and the image cannot be completed.                               *)
(***************************************************************************)
EXTENDS PeripheralProofs, SecureUpdate, FiniteSetTheorems

USE DEF InBootloader, Receiving, Complete

Window         == SECURE_NUM_CUMULATIVE_ACK
WindowStart(c) == c - (c % Window)

-----------------------------------------------------------------------------
(***************************************************************************)
(* What the flash and the buffer hold, byte by byte.                       *)
(***************************************************************************)
\* The double words n bytes take, and the bytes in the one after i others.
Words(n)      == (n + DW - 1) \div DW
WordLen(i, n) == IF (i + 1) * DW < n THEN DW ELSE n - i * DW

\* Bytes of the image from one number on, each of them in its place or garbage.
Fits(word, from, len) ==
    /\ word \in Seq(Byte) /\ Len(word) = len
    /\ \A j \in 1 .. len : word[j] \in {from + j - 1, Garbage}

\* The first n bytes of the image are in the application's pages.
Placed(app, n) ==
    \A i \in 0 .. Words(n) - 1 :
        /\ Base(app) + i \in Address
        /\ Fits(flash[Base(app) + i], i * DW, WordLen(i, n))

\* The double words of n bytes cover them, each with its share.
LEMMA WordsCover ==
    ASSUME NEW n \in Nat
    PROVE  /\ Words(n) \in Nat
           /\ \A i \in 0 .. Words(n) - 1 :
                 /\ WordLen(i, n) \in 1 .. DW /\ i * DW \in Nat
                 /\ i * DW + WordLen(i, n) <= n
                 /\ (i + 1) * DW <= n => WordLen(i, n) = DW
<1> DEFINE k == Words(n)
<1>1. DW \in Nat \ {0}
  BY FlashAssumption
<1>2. k \in Nat /\ k * DW <= n + DW - 1 /\ n + DW - 1 < k * DW + DW
  BY <1>1, SMT DEF Words
<1> HIDE DEF k
<1>3. ASSUME NEW i \in 0 .. k - 1
      PROVE  /\ WordLen(i, n) \in 1 .. DW /\ i * DW \in Nat
             /\ i * DW + WordLen(i, n) <= n
             /\ (i + 1) * DW <= n => WordLen(i, n) = DW
  <2>1. i * DW \in Nat /\ (i + 1) * DW = i * DW + DW
    BY <1>1
  <2>2. (i + 1) * DW <= k * DW
    <3>1. PICK e \in Nat : k = i + 1 + e
      <4>1. k - (i + 1) \in Nat /\ k = i + 1 + (k - (i + 1))
        BY <1>2
      <4>2. QED
        BY <4>1
    <3>2. k * DW = (i + 1) * DW + e * DW /\ e * DW \in Nat
      BY <1>1, <3>1
    <3>3. QED
      BY <1>1, <2>1, <3>2
  <2>3. k * DW \in Nat
    BY <1>1, <1>2
  <2>4. n - i * DW >= 1
    BY <1>1, <1>2, <2>1, <2>2, <2>3
  <2>5. CASE (i + 1) * DW < n
    BY <1>1, <2>1, <2>5 DEF WordLen
  <2>6. CASE ~((i + 1) * DW < n)
    BY <1>1, <2>1, <2>4, <2>6 DEF WordLen
  <2>7. QED
    BY <2>5, <2>6
<1>4. QED
  BY <1>2, <1>3 DEF k

\* A part of a sequence of bytes, by its length.
LEMMA PartOf ==
    ASSUME NEW bytes \in Seq(Byte), NEW a \in Nat, NEW m \in Nat \ {0},
           a + m <= Len(bytes), NEW part, part = SubSeq(bytes, a + 1, a + m)
    PROVE  /\ part \in Seq(Byte) /\ Len(part) = m
           /\ \A j \in 1 .. m : a + j \in 1 .. Len(bytes) /\ part[j] = bytes[a + j]
<1>1. a + 1 \in Int /\ a + m \in Int /\ \A j \in a + 1 .. a + m : bytes[j] \in Byte
  OBVIOUS
<1>2. /\ part \in Seq(Byte)
      /\ Len(part) = IF a + 1 <= a + m THEN a + m - (a + 1) + 1 ELSE 0
      /\ \A j \in 1 .. a + m - (a + 1) + 1 : part[j] = bytes[a + 1 + j - 1]
  BY <1>1, SubSeqProperties
<1>3. a + m - (a + 1) + 1 = m /\ a + 1 <= a + m
      /\ \A j \in 1 .. m : a + 1 + j - 1 = a + j /\ a + j \in 1 .. Len(bytes)
  OBVIOUS
<1>4. QED
  BY <1>2, <1>3

\* The double words of a sequence of bytes hold its bytes.
LEMMA WordsOf ==
    ASSUME NEW bytes \in Seq(Byte), NEW n, n = Len(bytes)
    PROVE  /\ Len(Dwords(bytes)) = Words(n)
           /\ \A i \in 0 .. Words(n) - 1 :
                 /\ Dwords(bytes)[i + 1] \in Seq(Byte)
                 /\ Len(Dwords(bytes)[i + 1]) = WordLen(i, n)
                 /\ \A j \in 1 .. WordLen(i, n) :
                       /\ i * DW + j \in 1 .. n
                       /\ Dwords(bytes)[i + 1][j] = bytes[i * DW + j]
<1> DEFINE dwords  == Dwords(bytes)
           word(k) == SubSeq(bytes, (k - 1) * DW + 1,
                             IF k * DW < Len(bytes) THEN k * DW ELSE Len(bytes))
<1>1. DW \in Nat \ {0} /\ n \in Nat /\ Words(n) \in Nat
  BY FlashAssumption, WordsCover
<1>2. dwords = [k \in 1 .. Words(n) |-> word(k)]
  BY DEF Dwords, Words
<1> HIDE DEF dwords, word
<1>3. ASSUME NEW i \in 0 .. Words(n) - 1
      PROVE  /\ dwords[i + 1] \in Seq(Byte)
             /\ Len(dwords[i + 1]) = WordLen(i, n)
             /\ \A j \in 1 .. WordLen(i, n) :
                   i * DW + j \in 1 .. n /\ dwords[i + 1][j] = bytes[i * DW + j]
  <2>1. PICK a \in Nat : a = i * DW
    BY <1>1
  <2>2. PICK m \in 1 .. DW : m = WordLen(i, n) /\ a + m <= n
    BY <1>1, <2>1, WordsCover
  <2>3. PICK k \in 1 .. Words(n) : k = i + 1 /\ (k - 1) * DW = a /\ k * DW = a + DW
    <3>1. \A d \in Nat : (i + 1 - 1) * d = i * d /\ (i + 1) * d = i * d + d
      OBVIOUS
    <3>2. i + 1 \in 1 .. Words(n)
      BY <1>1
    <3>3. QED
      BY <1>1, <2>1, <3>1, <3>2
  <2>4. m = IF k * DW < n THEN DW ELSE n - a
    BY <2>1, <2>2, <2>3 DEF WordLen
  <2>5. (IF k * DW < n THEN k * DW ELSE n) = a + m
    <3>1. QED
      BY <1>1, <2>2, <2>3, <2>4
  <2>6. dwords[k] = SubSeq(bytes, a + 1, a + m)
    <3>1. word(k) = SubSeq(bytes, (k - 1) * DW + 1,
                           IF k * DW < n THEN k * DW ELSE n)
      BY DEF word
    <3>2. dwords[k] = word(k)
      BY <1>2, <2>3
    <3>3. QED
      BY <2>3, <2>5, <3>1, <3>2
  <2>7. m \in Nat \ {0}
    BY <1>1
  <2>8. /\ dwords[k] \in Seq(Byte) /\ Len(dwords[k]) = m
        /\ \A j \in 1 .. m : a + j \in 1 .. Len(bytes) /\ dwords[k][j] = bytes[a + j]
    BY <2>2, <2>6, <2>7, PartOf
  <2>9. QED
    BY <2>1, <2>2, <2>3, <2>8
<1>4. Len(dwords) = Words(n)
  BY <1>1, <1>2
<1>5. QED
  BY <1>3, <1>4 DEF dwords

\* Bytes that come after those of whole double words continue their numbers.
LEMMA WordsAfter ==
    ASSUME NEW b \in Nat, NEW m \in Nat
    PROVE  /\ Words(b * DW + m) = b + Words(m)
           /\ \A i \in 0 .. b - 1 : WordLen(i, b * DW + m) = DW
                                    /\ WordLen(i, b * DW) = DW
           /\ \A i \in 0 .. Words(m) - 1 : /\ WordLen(b + i, b * DW + m) = WordLen(i, m)
                                           /\ (b + i) * DW = b * DW + i * DW
           /\ Words(b * DW) = b
<1>1. DW \in Nat \ {0} /\ b * DW \in Nat
  BY FlashAssumption
<1>2. \A x \in Nat : Words(b * DW + x) = b + Words(x)
  <2>1. \A d \in Nat \ {0}, x, a \in Nat : (a * d + x + d - 1) \div d = a + ((x + d - 1) \div d)
    BY SMT
  <2>2. QED
    BY <1>1, <2>1 DEF Words
<1>3. Words(b * DW) = b
  <2>1. Words(0) = 0
    BY <1>1, SMT DEF Words
  <2>2. b * DW + 0 = b * DW
    BY <1>1
  <2>3. QED
    BY <1>2, <2>1, <2>2
<1>4. ASSUME NEW i \in 0 .. b - 1
      PROVE  WordLen(i, b * DW + m) = DW /\ WordLen(i, b * DW) = DW
  <2>1. (i + 1) * DW <= b * DW
    <3>1. PICK e \in Nat : b = i + 1 + e
      <4>1. b - (i + 1) \in Nat /\ b = i + 1 + (b - (i + 1))
        OBVIOUS
      <4>2. QED
        BY <4>1
    <3>2. b * DW = (i + 1) * DW + e * DW /\ e * DW \in Nat
      BY <1>1, <3>1
    <3>3. (i + 1) * DW \in Nat
      BY <1>1
    <3>4. QED
      BY <3>2, <3>3
  <2>2. (i + 1) * DW = i * DW + DW /\ i * DW \in Nat
    BY <1>1
  <2>3. QED
    BY <1>1, <2>1, <2>2 DEF WordLen
<1>5. ASSUME NEW i \in 0 .. Words(m) - 1
      PROVE  /\ WordLen(b + i, b * DW + m) = WordLen(i, m)
             /\ (b + i) * DW = b * DW + i * DW
  <2>1. i \in Nat
    OBVIOUS
  <2>2. /\ (b + i) * DW = b * DW + i * DW
        /\ (b + i + 1) * DW = b * DW + i * DW + DW
        /\ (i + 1) * DW = i * DW + DW /\ i * DW \in Nat
    BY <1>1, <2>1
  <2>3. QED
    BY <1>1, <2>2 DEF WordLen
<1>6. QED
  BY <1>2, <1>3, <1>4, <1>5
-----------------------------------------------------------------------------
\* Bytes behind bytes.
LEMMA FitsBehind ==
    ASSUME NEW s, NEW t, NEW from \in Nat, NEW m \in Nat, NEW n \in Nat,
           Fits(s, from, m), Fits(t, from + m, n)
    PROVE  Fits(s \o t, from, m + n)
<1> DEFINE u == s \o t
<1>1. s \in Seq(Byte) /\ Len(s) = m /\ t \in Seq(Byte) /\ Len(t) = n
  BY DEF Fits
<1>2. /\ u \in Seq(Byte) /\ Len(u) = Len(s) + Len(t)
      /\ \A j \in 1 .. Len(s) + Len(t) : u[j] = IF j <= Len(s) THEN s[j] ELSE t[j - Len(s)]
  BY <1>1, ConcatProperties, Zenon
<1> HIDE DEF u
<1>3. ASSUME NEW j \in 1 .. m + n PROVE u[j] \in {from + j - 1, Garbage}
  <2>1. u[j] = IF j <= m THEN s[j] ELSE t[j - m]
    BY <1>1, <1>2
  <2>2. CASE j <= m
    <3>1. s[j] \in {from + j - 1, Garbage}
      BY <2>2 DEF Fits
    <3>2. QED
      BY <2>1, <2>2, <3>1
  <2>3. CASE j > m
    <3>1. j - m \in 1 .. n /\ from + m + (j - m) - 1 = from + j - 1
      BY <2>3
    <3>2. t[j - m] \in {from + m + (j - m) - 1, Garbage}
      BY <3>1 DEF Fits
    <3>3. QED
      BY <2>1, <2>3, <3>1, <3>2
  <2>4. QED
    BY <2>2, <2>3
<1>4. Fits(u, from, m + n)
  BY <1>1, <1>2, <1>3 DEF Fits
<1>5. QED
  BY <1>4 DEF u

\* The empty buffer fits anywhere.
LEMMA FitsEmpty == \A from : Fits(<<>>, from, 0)
BY DEF Fits

\* A packet that is taken brings the bytes of the chunk it carries, or garbage
\* in their place.
LEMMA TakenFits ==
    ASSUME NEW p, TakenSecure(p), NEW c \in Nat, p.data = Chunk(c, SECURE_PAYLOAD_BYTES)
    PROVE  Fits(SecureData(p), c * SECURE_PAYLOAD_BYTES, SECURE_PAYLOAD_BYTES)
<1> DEFINE n    == SECURE_PAYLOAD_BYTES
           junk == [i \in 1 .. n |-> Garbage]
<1>1. n \in Nat /\ c * n \in Nat
  BY HandlerAssumption
<1>2. Fits(Chunk(c, n), c * n, n)
  <2>1. Chunk(c, n) \in Seq(Byte) /\ Len(Chunk(c, n)) = n
    BY <1>1, ChunkType
  <2>2. \A j \in 1 .. n : Chunk(c, n)[j] = c * n + j - 1
    BY DEF Chunk
  <2>3. QED
    BY <2>1, <2>2 DEF Fits
<1>3. Fits(junk, c * n, n)
  <2>1. junk \in Seq(Byte) /\ Len(junk) = n
    BY <1>1 DEF Byte
  <2>2. QED
    BY <2>1 DEF Fits
<1>4. SecureData(p) = Chunk(c, n) \/ SecureData(p) = junk
  BY DEF SecureData, decrypt_data
<1> HIDE DEF n, junk
<1>5. QED
  BY <1>2, <1>3, <1>4 DEF n

\* A write to its end puts the buffer behind what was in its place before.
LEMMA WritePlaced ==
    ASSUME NEW app, NEW b \in Nat, StartPageAddress = Base(app) + b, Placed(app, b * DW),
           NEW bytes, NEW m \in Nat, Fits(bytes, b * DW, m),
           Write_FW_to_flash(Dwords(bytes), TRUE)
    PROVE  StartPageAddress' = Base(app) + (b + Words(m)) /\ Placed(app, b * DW + m)'
<1> DEFINE dwords == Dwords(bytes)
           w      == Words(m)
<1>1. /\ DW \in Nat \ {0} /\ Base(app) \in Nat /\ b * DW \in Nat /\ w \in Nat
      /\ bytes \in Seq(Byte) /\ Len(bytes) = m
  BY FlashAssumption, RegionInFlash, WordsCover DEF Fits
<1>2. /\ Len(dwords) = w
      /\ \A i \in 0 .. w - 1 : /\ dwords[i + 1] \in Seq(Byte)
                               /\ Len(dwords[i + 1]) = WordLen(i, m)
                               /\ \A j \in 1 .. WordLen(i, m) :
                                     /\ i * DW + j \in 1 .. m
                                     /\ dwords[i + 1][j] = bytes[i * DW + j]
  BY <1>1, WordsOf
<1>3. /\ CanProgram(w) /\ flash' = Programmed(dwords, w)
      /\ StartPageAddress' = StartPageAddress + w
  BY <1>2 DEF Write_FW_to_flash
<1> HIDE DEF dwords, w
<1>4. /\ \A a \in Address : a \notin StartPageAddress .. StartPageAddress + w - 1 =>
                                flash'[a] = flash[a]
      /\ \A a \in Address : a \in StartPageAddress .. StartPageAddress + w - 1 =>
                                flash'[a] = dwords[a - StartPageAddress + 1]
  BY <1>3 DEF Programmed
<1>5. StartPageAddress' = Base(app) + (b + w)
  BY <1>1, <1>3
<1>6. ASSUME NEW i \in 0 .. b - 1
      PROVE  /\ Base(app) + i \in Address
             /\ Fits(flash'[Base(app) + i], i * DW, WordLen(i, b * DW + m))
  <2>1. WordLen(i, b * DW + m) = WordLen(i, b * DW) /\ i \in 0 .. Words(b * DW) - 1
    BY WordsAfter
  <2>2. /\ Base(app) + i \in Address
        /\ Fits(flash[Base(app) + i], i * DW, WordLen(i, b * DW))
    BY <2>1 DEF Placed
  <2>3. Base(app) + i \notin StartPageAddress .. StartPageAddress + w - 1
    BY <1>1
  <2>4. flash'[Base(app) + i] = flash[Base(app) + i]
    BY <1>4, <2>2, <2>3
  <2>5. QED
    BY <2>1, <2>2, <2>4
<1>7. ASSUME NEW i \in 0 .. w - 1
      PROVE  /\ Base(app) + (b + i) \in Address
             /\ Fits(flash'[Base(app) + (b + i)], (b + i) * DW, WordLen(b + i, b * DW + m))
  <2>1. PICK a : /\ a = Base(app) + (b + i) /\ a - StartPageAddress + 1 = i + 1
                 /\ a \in StartPageAddress .. StartPageAddress + w - 1
    BY <1>1
  <2>2. a \in Address
    BY <1>3, <2>1 DEF CanProgram
  <2>3. flash'[a] = dwords[i + 1]
    BY <1>4, <2>1, <2>2
  <2>4. /\ (b + i) * DW = b * DW + i * DW
        /\ WordLen(b + i, b * DW + m) = WordLen(i, m)
    BY WordsAfter DEF w
  <2>5. i * DW \in Nat /\ WordLen(i, m) \in Nat
    BY WordsCover, <1>1 DEF w
  <2>6. ASSUME NEW j \in 1 .. WordLen(i, m)
        PROVE  dwords[i + 1][j] \in {b * DW + i * DW + j - 1, Garbage}
    <3>1. i * DW + j \in 1 .. m /\ dwords[i + 1][j] = bytes[i * DW + j]
      BY <1>2
    <3>2. bytes[i * DW + j] \in {b * DW + (i * DW + j) - 1, Garbage}
      BY <3>1 DEF Fits
    <3>3. b * DW + (i * DW + j) - 1 = b * DW + i * DW + j - 1
      BY <1>1, <2>5
    <3>4. QED
      BY <3>1, <3>2, <3>3
  <2>7. Fits(dwords[i + 1], b * DW + i * DW, WordLen(i, m))
    BY <1>2, <2>6 DEF Fits
  <2>8. QED
    BY <2>1, <2>2, <2>3, <2>4, <2>7
<1>8. Words(b * DW + m) = b + w
  BY WordsAfter DEF w
<1>9. ASSUME NEW i \in 0 .. Words(b * DW + m) - 1
      PROVE  /\ Base(app) + i \in Address
             /\ Fits(flash'[Base(app) + i], i * DW, WordLen(i, b * DW + m))
  <2>1. CASE i < b
    BY <1>6, <2>1
  <2>2. CASE i >= b
    <3>1. PICK k \in 0 .. w - 1 : i = b + k
      <4>1. i - b \in 0 .. w - 1 /\ i = b + (i - b)
        BY <1>1, <1>8, <2>2
      <4>2. QED
        BY <4>1
    <3>2. QED
      BY <1>7, <3>1
  <2>3. QED
    BY <2>1, <2>2
<1>10. Placed(app, b * DW + m)'
  BY <1>9, Zenon DEF Placed
<1>11. QED
  BY <1>5, <1>10 DEF w

\* The image SecureOrder asks for.
Ordered(app, total) ==
    \A i \in DOMAIN Dwords(Bytes(total)) :
        LET stored == flash[Base(app) + i - 1]
        IN  /\ stored \notin {Erased, Bootloader, Installed}
            /\ DOMAIN stored = DOMAIN Dwords(Bytes(total))[i]
            /\ \A j \in DOMAIN stored : stored[j] \in {Dwords(Bytes(total))[i][j], Garbage}

\* An image all of whose bytes are placed is in order.
LEMMA PlacedOrdered ==
    ASSUME NEW app, NEW total \in Nat, Placed(app, total * SECURE_PAYLOAD_BYTES)
    PROVE  Ordered(app, total)
<1> DEFINE n      == total * SECURE_PAYLOAD_BYTES
           dwords == Dwords(Bytes(total))
<1>1. /\ n \in Nat /\ Words(n) \in Nat /\ Base(app) \in Nat
      /\ Bytes(total) \in Seq(Byte) /\ Len(Bytes(total)) = n
      /\ \A j \in 1 .. n : Bytes(total)[j] = j - 1
  <2>1. n \in Nat
    BY HandlerAssumption
  <2>2. \A j \in 1 .. n : j - 1 \in Byte
    BY <2>1 DEF Byte
  <2>3. /\ Bytes(total) \in Seq(Byte) /\ Len(Bytes(total)) = n
        /\ \A j \in 1 .. n : Bytes(total)[j] = j - 1
    BY <2>1, <2>2 DEF Bytes
  <2> HIDE DEF n
  <2>4. QED
    BY <2>1, <2>3, WordsCover, RegionInFlash
<1>2. /\ Len(dwords) = Words(n)
      /\ \A i \in 0 .. Words(n) - 1 :
            /\ dwords[i + 1] \in Seq(Byte) /\ Len(dwords[i + 1]) = WordLen(i, n)
            /\ \A j \in 1 .. WordLen(i, n) :
                  i * DW + j \in 1 .. n /\ dwords[i + 1][j] = Bytes(total)[i * DW + j]
  BY <1>1, WordsOf
<1>3. DOMAIN dwords = 1 .. Words(n)
  <2>1. dwords \in Seq(Seq(Byte))
    BY <1>1, DwordsType
  <2> HIDE DEF dwords
  <2>2. QED
    BY <1>2, <2>1
<1> HIDE DEF dwords, n
<1>4. ASSUME NEW k \in 1 .. Words(n), NEW stored, stored = flash[Base(app) + k - 1]
      PROVE  /\ stored \notin {Erased, Bootloader, Installed}
             /\ DOMAIN stored = DOMAIN dwords[k]
             /\ \A j \in DOMAIN stored : stored[j] \in {dwords[k][j], Garbage}
  <2>1. PICK i \in 0 .. Words(n) - 1 : k = i + 1 /\ Base(app) + k - 1 = Base(app) + i
    <3>1. k - 1 \in 0 .. Words(n) - 1 /\ k = k - 1 + 1
          /\ Base(app) + k - 1 = Base(app) + (k - 1)
      BY <1>1
    <3>2. QED
      BY <3>1
  <2>2. Fits(stored, i * DW, WordLen(i, n))
    BY <1>4, <2>1 DEF Placed, n
  <2>3. stored \in Seq(Byte) /\ Len(stored) = WordLen(i, n)
    BY <2>2 DEF Fits
  <2>4. stored \notin {Erased, Bootloader, Installed}
    BY <2>3, MarksAssumption DEF Byte
  <2>5. DOMAIN stored = 1 .. WordLen(i, n) /\ DOMAIN dwords[k] = 1 .. WordLen(i, n)
    BY <1>2, <2>1, <2>3
  <2>6. ASSUME NEW j \in 1 .. WordLen(i, n) PROVE stored[j] \in {dwords[k][j], Garbage}
    <3>1. i * DW + j \in 1 .. n /\ dwords[k][j] = Bytes(total)[i * DW + j]
      BY <1>2, <2>1
    <3>2. dwords[k][j] = i * DW + j - 1
      <4>1. PICK h : h = i * DW + j
        OBVIOUS
      <4>2. Bytes(total)[h] = h - 1
        BY <1>1, <3>1, <4>1
      <4>3. dwords[k][j] = Bytes(total)[h]
        BY <3>1, <4>1, Zenon
      <4>4. i * DW \in Nat /\ j \in Nat
        BY FlashAssumption, <1>1
      <4>5. QED
        BY <4>1, <4>2, <4>3, <4>4
    <3>3. QED
      BY <2>2, <3>2 DEF Fits
  <2>7. QED
    BY <2>4, <2>5, <2>6
<1>5. QED
  BY <1>3, <1>4 DEF Ordered, dwords
-----------------------------------------------------------------------------
(***************************************************************************)
(* The packets of firmware on their way, counted from the end of the queue.*)
(***************************************************************************)
Data(q)    == {j \in DOMAIN q : IsSecure(q[j])}
From(q, i) == {j \in DOMAIN q : IsSecure(q[j]) /\ j >= i}
Left(q, i) == Cardinality(From(q, i))

\* Numbers one less are as many.
LEMMA ShiftedCount ==
    ASSUME NEW D \in SUBSET Nat, IsFiniteSet(D), NEW E, E = {x - 1 : x \in D}
    PROVE  IsFiniteSet(E) /\ Cardinality(E) = Cardinality(D)
<1> DEFINE f == [x \in D |-> x - 1]
<1>1. f \in [D -> E] /\ \A x \in D : f[x] = x - 1
  OBVIOUS
<1> HIDE DEF f
<1>2. \A a, b \in D : f[a] = f[b] => a = b
  <2>1. \A a, b \in Nat : a - 1 = b - 1 => a = b
    OBVIOUS
  <2>2. QED
    BY <1>1, <2>1
<1>3. \A e \in E : \E x \in D : f[x] = e
  BY <1>1
<1>4. f \in Bijection(D, E)
  BY <1>1, <1>2, <1>3 DEF Bijection, Injection, Surjection, IsInjective
<1>5. ExistsBijection(D, E)
  BY <1>4 DEF ExistsBijection
<1>6. QED
  BY <1>5, FS_Bijection

\* The packets on their way are finitely many, and are all of those from the
\* first on.
LEMMA LeftCount ==
    ASSUME NEW S, NEW q \in Seq(S)
    PROVE  /\ \A i : IsFiniteSet(From(q, i)) /\ Left(q, i) \in Nat
           /\ Data(q) = From(q, 1)
           /\ \A i \in 1 .. Len(q) : IsSecure(q[i]) => Left(q, i) >= 1
           /\ q = <<>> => Left(q, 1) = 0
<1>1. DOMAIN q = 1 .. Len(q) /\ Len(q) \in Nat
  OBVIOUS
<1>2. IsFiniteSet(1 .. Len(q))
  BY <1>1, FS_Interval
<1>3. ASSUME NEW i PROVE IsFiniteSet(From(q, i)) /\ Left(q, i) \in Nat
  <2>1. From(q, i) \subseteq 1 .. Len(q)
    BY <1>1 DEF From
  <2>2. IsFiniteSet(From(q, i))
    BY <1>2, <2>1, FS_Subset
  <2>3. QED
    BY <2>2, FS_CardinalityType DEF Left
<1>4. Data(q) = From(q, 1)
  BY <1>1 DEF Data, From
<1>5. ASSUME NEW i \in 1 .. Len(q), IsSecure(q[i]) PROVE Left(q, i) >= 1
  <2>1. i \in From(q, i)
    BY <1>1, <1>5 DEF From
  <2>2. Cardinality(From(q, i)) # 0
    BY <1>3, <2>1, FS_EmptySet
  <2>3. QED
    BY <1>3, <2>2 DEF Left
<1>6. ASSUME q = <<>> PROVE Left(q, 1) = 0
  <2>1. From(q, 1) = {}
    BY <1>1, <1>6 DEF From
  <2>2. QED
    BY <2>1, FS_EmptySet DEF Left
<1>7. QED
  BY <1>3, <1>4, <1>5, <1>6

\* A packet written is the last; any other event leaves the count.
LEMMA LeftWritten ==
    ASSUME NEW S, NEW q \in Seq(S), NEW e, NEW i \in 1 .. Len(q) + 1,
           NEW r, r = Append(q, e)
    PROVE  Left(r, i) = Left(q, i) + (IF IsSecure(e) THEN 1 ELSE 0)
<1>1. DOMAIN q = 1 .. Len(q) /\ Len(q) \in Nat
  OBVIOUS
<1>2. /\ DOMAIN r = 1 .. Len(q) + 1
      /\ \A j \in 1 .. Len(q) : r[j] = q[j]
      /\ r[Len(q) + 1] = e
  <2>1. q \in Seq(S \cup {e}) /\ e \in S \cup {e}
    OBVIOUS
  <2>2. /\ r \in Seq(S \cup {e}) /\ Len(r) = Len(q) + 1
        /\ \A j \in 1 .. Len(q) + 1 : r[j] = IF j = Len(q) + 1 THEN e ELSE q[j]
    BY <2>1
  <2>3. QED
    BY <1>1, <2>2
<1>3. IsFiniteSet(From(q, i)) /\ Left(q, i) \in Nat /\ Len(q) + 1 \notin From(q, i)
  <2>1. IsFiniteSet(From(q, i)) /\ Left(q, i) \in Nat
    BY LeftCount
  <2>2. From(q, i) \subseteq 1 .. Len(q)
    BY <1>1 DEF From
  <2>3. QED
    BY <1>1, <2>1, <2>2
<1>4. CASE IsSecure(e)
  <2>1. From(r, i) = From(q, i) \cup {Len(q) + 1}
    BY <1>1, <1>2, <1>4 DEF From
  <2>2. QED
    BY <1>3, <1>4, <2>1, FS_AddElement DEF Left
<1>5. CASE ~IsSecure(e)
  <2>1. From(r, i) = From(q, i)
    BY <1>1, <1>2, <1>5 DEF From
  <2>2. QED
    BY <1>3, <1>5, <2>1 DEF Left
<1>6. QED
  BY <1>4, <1>5

\* An event taken leaves the counts of those behind it.
LEMMA LeftTaken ==
    ASSUME NEW S, NEW q \in Seq(S), q # <<>>, NEW r, r = Tail(q)
    PROVE  /\ \A i \in Nat \ {0} : Left(r, i) = Left(q, i + 1)
           /\ Left(q, 1) = Left(r, 1) + (IF IsSecure(Head(q)) THEN 1 ELSE 0)
<1>1. /\ DOMAIN q = 1 .. Len(q) /\ Len(q) \in Nat \ {0} /\ Head(q) = q[1]
      /\ r \in Seq(S) /\ Len(r) = Len(q) - 1 /\ DOMAIN r = 1 .. Len(q) - 1
      /\ \A j \in 1 .. Len(q) - 1 : r[j] = q[j + 1]
  OBVIOUS
<1>2. ASSUME NEW i \in Nat \ {0} PROVE Left(r, i) = Left(q, i + 1)
  <2>1. From(r, i) = {x - 1 : x \in From(q, i + 1)}
    <3>1. ASSUME NEW j \in From(r, i) PROVE j \in {x - 1 : x \in From(q, i + 1)}
      <4>1. j \in 1 .. Len(q) - 1 /\ IsSecure(r[j]) /\ j >= i
        BY <1>1 DEF From
      <4>2. j + 1 \in From(q, i + 1) /\ j = (j + 1) - 1
        BY <1>1, <4>1 DEF From
      <4>3. QED
        BY <4>2
    <3>2. ASSUME NEW x \in From(q, i + 1) PROVE x - 1 \in From(r, i)
      <4>1. x \in 1 .. Len(q) /\ IsSecure(q[x]) /\ x >= i + 1
        BY <1>1 DEF From
      <4>2. x - 1 \in 1 .. Len(q) - 1 /\ x - 1 >= i /\ (x - 1) + 1 = x
        BY <1>1, <4>1
      <4>3. r[x - 1] = q[x]
        BY <1>1, <4>2
      <4>4. QED
        BY <1>1, <4>1, <4>2, <4>3 DEF From
    <3>3. QED
      BY <3>1, <3>2
  <2>2. From(q, i + 1) \in SUBSET Nat /\ IsFiniteSet(From(q, i + 1))
    <3>1. From(q, i + 1) \subseteq DOMAIN q
      BY DEF From
    <3>2. QED
      BY <1>1, <3>1, LeftCount
  <2>3. QED
    BY <2>1, <2>2, ShiftedCount DEF Left
<1>3. Left(q, 1) = Left(q, 2) + (IF IsSecure(Head(q)) THEN 1 ELSE 0)
  <2>1. IsFiniteSet(From(q, 2)) /\ Left(q, 2) \in Nat /\ 1 \notin From(q, 2)
    BY LeftCount DEF From
  <2>2. CASE IsSecure(q[1])
    <3>1. From(q, 1) = From(q, 2) \cup {1}
      BY <1>1, <2>2 DEF From
    <3>2. QED
      BY <1>1, <2>1, <2>2, <3>1, FS_AddElement DEF Left
  <2>3. CASE ~IsSecure(q[1])
    <3>1. From(q, 1) = From(q, 2)
      BY <1>1, <2>3 DEF From
    <3>2. QED
      BY <1>1, <2>1, <2>3, <3>1 DEF Left
  <2>4. QED
    BY <2>2, <2>3
<1>4. QED
  BY <1>2, <1>3
-----------------------------------------------------------------------------
(***************************************************************************)
(* What the two sides say to each other.                                   *)
(***************************************************************************)
\* The instances meant: the client of Peripheral may send what the secure GUI
\* sends.
SecureUpdates ==
    /\ Commands = {"START_SECURE_FLASH_MODE", "WRITE_SECURE_FLASH_PACKET", "MASTER_NAK"}
    /\ Selections \ {"UNSELECTED"} \subseteq Apps
    /\ \A t \in Totals : 0 .. t \subseteq Nums
    /\ TRUE \in Checks

Sent  == {p \in Packet : p.cmd \in Commands}
Event == {ConnComplete, DisconnComplete} \cup {Modified(p) : p \in Sent}

Request(app, total) ==
    [cmd |-> "START_SECURE_FLASH_MODE", app |-> app, total |-> total, ok |-> TRUE]
Firmware(iv, num, n) ==
    [cmd |-> "WRITE_SECURE_FLASH_PACKET", iv |-> iv, num |-> num,
     data |-> Chunk(n, SECURE_PAYLOAD_BYTES)]
Nak == [cmd |-> "MASTER_NAK"]

Spendings == {"sessions", "lost", "noise", "drops", "resets", "restarts"}

\* What the GUI is about to send can be sent, and what it reads are responses.
SendInv ==
    /\ events \in Seq(Event)
    /\ notes \in Seq(Response)
    /\ gui \in GuiPhase \cup {"INIT_CRYPTO_PHASE", "SENDING_CRYPTO_DATA", "NAK_SENT"}
    /\ selected_app \in Selections \cup {"UNSELECTED"}
    /\ num_chunks \in Totals \cup {0}
    /\ cont_chunck \in 0 .. num_chunks
    /\ gui \in {"INIT_CRYPTO_PHASE", "WAIT_RESPONSE", "SENDING_CRYPTO_DATA", "WAIT_ACK",
                "NAK_SENT"} => num_chunks \in Totals
    /\ gui \in {"INIT_CRYPTO_PHASE", "WAIT_RESPONSE"} => cont_chunck = 0
    /\ gui = "SENDING_CRYPTO_DATA" => cont_chunck < num_chunks
    /\ gui_iv \in Iv /\ gui_rand \in Iv
    /\ is_ack /\ msg_tampered \in BOOLEAN
    /\ used \in [Spendings -> Nat]

\* What the GUI writes is among the packets, altered or not.
LEMMA GuiPackets ==
    ASSUME SecureUpdates
    PROVE  /\ \A app \in Selections \ {"UNSELECTED"}, t \in Totals : Request(app, t) \in Sent
           /\ \A t \in Totals : \A n \in 0 .. t :
                 \A iv \in Iv, num \in 0 .. Window - 1 : Firmware(iv, num, n) \in Sent
           /\ Nak \in Sent
<1>1. ASSUME NEW app \in Selections \ {"UNSELECTED"}, NEW t \in Totals
      PROVE  Request(app, t) \in Sent
  BY <1>1 DEF SecureUpdates, Sent, Packet, StartPacket, Request
<1>2. ASSUME NEW t \in Totals, NEW n \in 0 .. t, NEW iv \in Iv, NEW num \in 0 .. Window - 1
      PROVE  Firmware(iv, num, n) \in Sent
  <2>1. n \in Nums
    BY <1>2 DEF SecureUpdates
  <2>2. Firmware(iv, num, n) \in SecurePacket
    BY <1>2, <2>1 DEF SecurePacket, Firmware, Window
  <2>3. Firmware(iv, num, n).cmd \in Commands
    BY DEF Firmware, SecureUpdates
  <2>4. QED
    BY <2>2, <2>3 DEF Sent, Packet
<1>3. Nak \in Sent
  BY DEF SecureUpdates, Sent, Packet, MasterNak, Nak
<1>4. QED
  BY <1>1, <1>2, <1>3

\* Events are told apart by their codes.
LEMMA EventKinds ==
    /\ ConnComplete # DisconnComplete
    /\ ConnComplete.evt = "EVT_LE_CONN_COMPLETE"
    /\ DisconnComplete.evt = "EVT_DISCONN_COMPLETE"
    /\ \A p : /\ Modified(p).evt = "EVT_BLUE_GATT_ATTRIBUTE_MODIFIED"
              /\ Modified(p).packet = p
              /\ Modified(p) # ConnComplete /\ Modified(p) # DisconnComplete
<1>1. /\ ConnComplete.evt = "EVT_LE_CONN_COMPLETE"
      /\ DisconnComplete.evt = "EVT_DISCONN_COMPLETE"
  BY DEF ConnComplete, DisconnComplete
<1>2. ASSUME NEW p PROVE /\ Modified(p).evt = "EVT_BLUE_GATT_ATTRIBUTE_MODIFIED"
                         /\ Modified(p).packet = p
  BY DEF Modified
<1>3. QED
  BY <1>1, <1>2

\* A queue of events keeps its type when its first is taken and one appended.
LEMMA EventQueue ==
    ASSUME events \in Seq(Event)
    PROVE  /\ events # <<>> => Head(events) \in Event /\ Tail(events) \in Seq(Event)
           /\ Append(events, ConnComplete) \in Seq(Event)
           /\ Append(events, DisconnComplete) \in Seq(Event)
           /\ \A p \in Sent : Append(events, Modified(p)) \in Seq(Event)
BY DEF Event

\* What is spent of a bound stays counted.
LEMMA Spent ==
    ASSUME used \in [Spendings -> Nat], NEW what \in Spendings, NEW bound, Spend(what, bound)
    PROVE  /\ used' \in [Spendings -> Nat]
           /\ used'["lost"] = used["lost"] + (IF what = "lost" THEN 1 ELSE 0)
BY DEF Spend, Spendings

\* What one step does of a chunk: the packet arrives, under some number and IV.
LEMMA ChunkWritten ==
    ASSUME SecureUpdates, SendInv, SendSecureChunk, ~Raise
    PROVE  /\ link /\ UNCHANGED <<link, notes, formVars, ackVars, deviceVars, gui_rand,
                                  msg_tampered>>
           /\ gui = "SENDING_CRYPTO_DATA" /\ cont_chunck' = cont_chunck + 1
           /\ gui' = IF cont_chunck' % Window = 0 \/ cont_chunck' = num_chunks
                     THEN "WAIT_ACK" ELSE "SENDING_CRYPTO_DATA"
           /\ \E iv \in Iv, num \in 0 .. Window - 1 :
                 events' = Append(events, Modified(Firmware(iv, num, cont_chunck)))
           /\ gui_iv' \in Iv
           /\ UNCHANGED used \/ Spend("noise", MaxNoise)
<1>1. /\ gui = "SENDING_CRYPTO_DATA" /\ cont_chunck' = cont_chunck + 1
      /\ gui' = IF cont_chunck' % Window = 0 \/ cont_chunck' = num_chunks
                THEN "WAIT_ACK" ELSE "SENDING_CRYPTO_DATA"
      /\ UNCHANGED <<formVars, ackVars, deviceVars, gui_rand, msg_tampered>>
      /\ gui_iv' = (gui_iv + gui_rand) % IvMod
  BY DEF SendSecureChunk, Window
<1>2. gui_iv' \in Iv /\ (gui_iv' + 1) % IvMod \in Iv
  BY <1>1, HandlerAssumption DEF SendInv, Iv
<1> DEFINE num == cont_chunck % Window
           p   == Firmware(gui_iv', num, cont_chunck)
<1>3. num \in 0 .. Window - 1 /\ (num + 1) % Window \in 0 .. Window - 1
  <2>1. Window \in Nat \ {0} /\ cont_chunck \in Nat
    BY HandlerAssumption DEF SendInv, Window
  <2>2. QED
    BY <2>1
<1>4. Arrives(p)
  BY Zenon DEF SendSecureChunk, Firmware, Window
<1>5. /\ [p EXCEPT !.num = (@ + 1) % SECURE_NUM_CUMULATIVE_ACK]
            = Firmware(gui_iv', (num + 1) % Window, cont_chunck)
      /\ [p EXCEPT !.iv = (@ + 1) % IvMod]
            = Firmware((gui_iv' + 1) % IvMod, num, cont_chunck)
  BY DEF Firmware, Window
<1> HIDE DEF p, num
<1>6. \/ Write(p) /\ UNCHANGED used
      \/ Write(Firmware(gui_iv', (num + 1) % Window, cont_chunck)) /\ Altered
      \/ Write(Firmware((gui_iv' + 1) % IvMod, num, cont_chunck)) /\ Altered
  BY <1>4, <1>5 DEF Arrives
<1>7. PICK iv \in Iv, m \in 0 .. Window - 1 : Write(Firmware(iv, m, cont_chunck))
  BY <1>2, <1>3, <1>6 DEF p
<1>8. /\ link /\ UNCHANGED <<link, notes>>
      /\ events' = Append(events, Modified(Firmware(iv, m, cont_chunck)))
  BY <1>7 DEF Write
<1>9. UNCHANGED used \/ Spend("noise", MaxNoise)
  BY <1>6 DEF Altered
<1>10. QED
  BY <1>1, <1>2, <1>8, <1>9

\* A step of the update is a step of the device under its general client.
LEMMA DeviceStep ==
    ASSUME SendInv, [SecureNext]_allSecureVars
    PROVE  [Next]_vars
<1>1. CASE BlueNRG_Process
  <2>1. ASSUME HCI_Event_CB PROVE Next
    <3>1. Head(events) \in Event
      BY <2>1, EventQueue DEF SendInv, HCI_Event_CB
    <3>2. CASE Head(events).evt = "EVT_BLUE_GATT_ATTRIBUTE_MODIFIED"
      <4>1. Attribute_Modified_CB(Head(events).packet)
        BY <2>1, <3>2 DEF HCI_Event_CB
      <4>2. Head(events).packet \in Sent
        BY <3>1, <3>2 DEF Event, ConnComplete, DisconnComplete, Modified
      <4>3. QED
        BY <4>1, <4>2 DEF Sent, Next
    <3>3. QED
      BY <2>1, <3>2 DEF HCI_Event_CB, Next
  <2>2. QED
    BY <1>1, <2>1 DEF BlueNRG_Process, Next
<1>2. CASE DropEvent
  BY <1>2 DEF DropEvent, Next, deviceVars, vars
<1>3. CASE DeviceReset
  BY <1>3 DEF DeviceReset, Next
<1>4. CASE UNCHANGED deviceVars
  BY <1>4 DEF deviceVars, vars
<1>5. QED
  BY <1>1, <1>2, <1>3, <1>4
  DEF SecureNext, LinkDrop, read_response, StartUpload, send_new_fw, SendRequest,
      GetResponse, SendSecureChunk, WindowAcked, SendNak, NakSent, Finish, FinishSecure,
      RestartGui, RestartSecureGui, allSecureVars, allVars

\* The responses on their way are responses, when those notified are.
LEMMA NotesQueue ==
    ASSUME notes \in Seq(Response)
    PROVE  /\ notes # <<>> => Head(notes) \in Response /\ Tail(notes) \in Seq(Response)
           /\ tx' \in Seq(Response) /\ Notify => notes' \in Seq(Response)
<1>1. notes # <<>> => Head(notes) \in Response /\ Tail(notes) \in Seq(Response)
  OBVIOUS
<1>2. ASSUME tx' \in Seq(Response), Notify PROVE notes' \in Seq(Response)
  <2>1. notes \o tx' \in Seq(Response)
    BY <1>2
  <2>2. notes' = notes \o tx' \/ notes' = notes
    BY <1>2 DEF Notify
  <2>3. QED
    BY <2>1, <2>2
<1>3. QED
  BY <1>1, <1>2

\* The steps of the GUI, of the link and of the device keep SendInv.
LEMMA SendStep ==
    ASSUME SecureUpdates, TypeOK', SendInv, [SecureNext]_allSecureVars
    PROVE  SendInv'
<1> USE DEF SendInv, GuiPhase, secureVars
<1> USE EventQueue, NotesQueue
<1>0. /\ <<>> \in Seq(Event) /\ <<>> \in Seq(Response) /\ tx' \in Seq(Response) /\ 0 \in Iv
      /\ \A t \in Totals : t \in Nat
  BY HandlerAssumption, ClientAssumption DEF TypeOK, HandlerTypeOK, Iv, Count
<1>s. /\ \A b : Spend("sessions", b) => used' \in [Spendings -> Nat]
      /\ \A b : Spend("lost", b) => used' \in [Spendings -> Nat]
      /\ \A b : Spend("noise", b) => used' \in [Spendings -> Nat]
      /\ \A b : Spend("drops", b) => used' \in [Spendings -> Nat]
      /\ \A b : Spend("resets", b) => used' \in [Spendings -> Nat]
      /\ \A b : Spend("restarts", b) => used' \in [Spendings -> Nat]
  BY Spent DEF Spendings
<1>1. CASE BlueNRG_Process /\ UNCHANGED secureVars
  <2>1. events' \in Seq(Event) /\ notes' \in Seq(Response) /\ used' \in [Spendings -> Nat]
    BY <1>0, <1>1, <1>s DEF BlueNRG_Process, HCI_Event_CB, Notify
  <2>2. UNCHANGED <<guiVars, secureVars>>
    BY <1>1 DEF BlueNRG_Process, HCI_Event_CB
  <2>3. QED
    BY <2>1, <2>2 DEF guiVars, formVars, loopVars, ackVars
<1>2. CASE DropEvent /\ UNCHANGED secureVars
  BY <1>2, <1>s DEF DropEvent, guiVars, formVars, loopVars, ackVars
<1>3. CASE DeviceReset /\ UNCHANGED secureVars
  BY <1>0, <1>3, <1>s DEF DeviceReset, guiVars, formVars, loopVars, ackVars
<1>4. CASE LinkDrop /\ UNCHANGED secureVars
  BY <1>0, <1>4, <1>s DEF LinkDrop, guiVars, formVars, loopVars, ackVars
<1>5. CASE read_response
  <2>1. notes # <<>> /\ Head(notes) \in Response /\ notes' \in Seq(Response)
    BY <1>5 DEF read_response
  <2>2. gui_rand' \in Iv /\ is_ack' /\ msg_tampered' \in BOOLEAN
    <3>1. CASE Readable(Head(notes)) /\ is_ack' = TRUE /\ msg_tampered' = FALSE
               /\ gui_rand' = Head(notes).rand
      <4>1. Head(notes).type = "WRITE_SECURE_FLASH_PACKET_RESPONSE"
        BY <3>1 DEF Readable
      <4>2. Head(notes).rand \in Iv
        BY <2>1, <4>1 DEF Response
      <4>3. QED
        BY <3>1, <4>2
    <3>2. CASE msg_tampered' = TRUE /\ UNCHANGED <<is_ack, gui_rand>>
      BY <3>2
    <3>3. QED
      BY <1>5, <3>1, <3>2 DEF read_response
  <2>3. used' \in [Spendings -> Nat]
    BY <1>5, <1>s DEF read_response, Altered
  <2>4. UNCHANGED <<events, gui, formVars, loopVars, gui_iv>>
    BY <1>5 DEF read_response
  <2>5. QED
    BY <2>1, <2>2, <2>3, <2>4 DEF formVars, loopVars
<1>6. CASE \E app \in Selections, total \in Totals :
               StartUpload(app, total, "INIT_CRYPTO_PHASE") /\ UNCHANGED secureVars
  BY <1>0, <1>6, <1>s DEF StartUpload, ackVars
<1>7. ASSUME Hangup PROVE events' \in Seq(Event) /\ notes' \in Seq(Response)
  BY <1>0, <1>7 DEF Hangup
<1>8. ASSUME Raise, gui_iv' \in Iv, UNCHANGED <<gui_rand, msg_tampered>> PROVE SendInv'
  BY <1>7, <1>8 DEF Raise, formVars, loopVars, ackVars
<1>9. CASE SendRequest("INIT_CRYPTO_PHASE", "START_SECURE_FLASH_MODE") /\ UNCHANGED secureVars
  <2>1. CASE Raise
    BY <1>8, <1>9, <2>1
  <2>2. CASE ~Raise
    <3>1. /\ selected_app \in Selections \ {"UNSELECTED"} /\ num_chunks \in Totals
          /\ Write(Request(selected_app, num_chunks)) /\ gui' = "WAIT_RESPONSE"
          /\ gui = "INIT_CRYPTO_PHASE"
          /\ UNCHANGED <<formVars, loopVars, ackVars, used>>
      BY <1>9, <2>2 DEF SendRequest, Request
    <3>2. events' \in Seq(Event) /\ UNCHANGED notes
      BY <3>1, GuiPackets DEF Write
    <3>3. QED
      BY <1>9, <3>1, <3>2 DEF formVars, loopVars, ackVars
  <2>3. QED
    BY <2>1, <2>2
<1>10. CASE GetResponse("SENDING_CRYPTO_DATA") /\ UNCHANGED secureVars
  BY <1>0, <1>10 DEF GetResponse, formVars, loopVars
<1>11. CASE SendSecureChunk
  <2>1. gui_iv' \in Iv /\ UNCHANGED <<gui_rand, msg_tampered>>
    BY <1>11, HandlerAssumption DEF SendSecureChunk, Iv
  <2>2. CASE Raise
    BY <1>8, <2>1, <2>2
  <2>3. CASE ~Raise
    <3>1. /\ UNCHANGED <<notes, formVars, ackVars>>
          /\ gui = "SENDING_CRYPTO_DATA" /\ cont_chunck' = cont_chunck + 1
          /\ gui' = IF cont_chunck' % Window = 0 \/ cont_chunck' = num_chunks
                    THEN "WAIT_ACK" ELSE "SENDING_CRYPTO_DATA"
          /\ UNCHANGED used \/ Spend("noise", MaxNoise)
      BY <1>11, <2>3, ChunkWritten
    <3>2. PICK iv \in Iv, num \in 0 .. Window - 1 :
              events' = Append(events, Modified(Firmware(iv, num, cont_chunck)))
      BY <1>11, <2>3, ChunkWritten
    <3>3. num_chunks \in Totals /\ num_chunks \in Nat /\ cont_chunck < num_chunks
      BY <1>0, <3>1
    <3>4. events' \in Seq(Event)
      <4>1. Firmware(iv, num, cont_chunck) \in Sent
        BY <3>3, GuiPackets
      <4>2. QED
        BY <3>2, <4>1
    <3>5. used' \in [Spendings -> Nat]
      BY <1>s, <3>1
    <3>6. QED
      BY <2>1, <3>1, <3>3, <3>4, <3>5 DEF formVars, ackVars
  <2>4. QED
    BY <2>2, <2>3
<1>12. CASE ~msg_tampered /\ WindowAcked("SENDING_CRYPTO_DATA") /\ UNCHANGED secureVars
  BY <1>0, <1>12 DEF WindowAcked, formVars
<1>13. CASE SendNak
  <2>1. CASE Raise
    BY <1>8, <1>13, <2>1 DEF SendNak
  <2>2. CASE ~Raise
    <3>1. /\ Write(Nak) /\ gui = "WAIT_ACK" /\ gui' = "NAK_SENT"
          /\ UNCHANGED <<formVars, loopVars, ackVars, used, secureVars>>
      BY <1>13, <2>2 DEF SendNak, Nak
    <3>2. events' \in Seq(Event) /\ UNCHANGED notes
      BY <3>1, GuiPackets DEF Write
    <3>3. QED
      BY <3>1, <3>2 DEF formVars, loopVars, ackVars
  <2>3. QED
    BY <2>1, <2>2
<1>14. CASE NakSent
  BY <1>14 DEF NakSent, formVars, loopVars
<1>15. CASE FinishSecure
  <2>1. gui_iv' \in Iv /\ UNCHANGED <<gui_rand, msg_tampered>>
    BY <1>0, <1>15 DEF FinishSecure
  <2>2. CASE Raise
    BY <1>8, <2>1, <2>2
  <2>3. CASE ~Raise
    <3>1. Hangup /\ gui' = "IDLE" /\ UNCHANGED <<formVars, loopVars, ackVars, used>>
      BY <1>15, <2>3 DEF FinishSecure, Finish
    <3>2. QED
      BY <1>7, <2>1, <3>1 DEF formVars, loopVars, ackVars
  <2>4. QED
    BY <2>2, <2>3
<1>16. CASE RestartSecureGui
  BY <1>0, <1>7, <1>16, <1>s DEF RestartSecureGui, RestartGui, formVars, loopVars
<1>17. CASE UNCHANGED allSecureVars
  BY <1>17 DEF allSecureVars, allVars, guiVars, formVars, loopVars, ackVars
<1>18. QED
  BY <1>1, <1>2, <1>3, <1>4, <1>5, <1>6, <1>9, <1>10, <1>11, <1>12, <1>13, <1>14, <1>15,
     <1>16, <1>17 DEF SecureNext, send_new_fw

\* The GUI starts with nothing to send.
LEMMA SendInitial ==
    ASSUME SecureInit
    PROVE  SendInv
<1>1. 0 \in Iv /\ <<>> \in Seq(Response)
  BY HandlerAssumption DEF Iv
<1>2. used \in [Spendings -> Nat]
  BY DEF SecureInit, UploadInit, Spendings
<1>3. events \in Seq(Event) /\ 0 \in 0 .. 0
  BY DEF SecureInit, UploadInit
<1>4. QED
  BY <1>1, <1>2, <1>3, Zenon DEF SecureInit, UploadInit, SendInv, GuiPhase

\* SendInv is an invariant of the update, and TypeOK with it.
LEMMA SendInductive ==
    ASSUME SecureUpdates
    PROVE  SecureSpec => [](TypeOK /\ SendInv)
<1>1. SecureInit => SendInv
  BY SendInitial
<1>2. SecureInit => Init
  BY DEF SecureInit, UploadInit
<1>3. TypeOK /\ SendInv /\ [SecureNext]_allSecureVars => TypeOK' /\ SendInv'
  BY DeviceStep, TypeStep, SendStep
<1>4. QED
  BY <1>1, <1>2, <1>3, InitType, PTL DEF SecureSpec

\* Behind the link and the secure GUI the device is the device of Peripheral:
\* every invariant proved of it holds of a secure update from end to end.
THEOREM SecureDeviceIsDriven ==
    ASSUME SecureUpdates
    PROVE  SecureSpec => Spec
<1>1. SecureInit => Init
  BY DEF SecureInit, UploadInit
<1>2. SendInv /\ [SecureNext]_allSecureVars => [Next]_vars
  BY DeviceStep
<1>3. QED
  BY <1>1, <1>2, SendInductive, PTL DEF SecureSpec, Spec

\* The chunk number stays inside the image though the loop over the chunks and
\* the wait test it separately, and what is on its way can be sent.
THEOREM SecureTypeCorrect ==
    ASSUME SecureUpdates
    PROVE  SecureSpec => []SecureTypeOK
<1>1. SendInv => SecureTypeOK
  <2> SUFFICES ASSUME SendInv PROVE SecureTypeOK
    OBVIOUS
  <2>1. \A i \in DOMAIN events :
           events[i] \in {ConnComplete, DisconnComplete} \/ events[i].packet \in Packet
    BY DEF SendInv, Event, Sent, Modified
  <2>2. QED
    BY <2>1 DEF SendInv, SecureTypeOK
<1>2. QED
  BY <1>1, SendInductive, PTL

\* Whatever the user, the link and the noise: the device's counters agree only
\* when the session has closed, and windows stay in their buffer and in order.
THEOREM SecureJumpsWhenClosed ==
    ASSUME SecureUpdates
    PROVE  SecureSpec => []CompleteMeansClosing /\ []BufferBound /\ []WriteFrontier
BY SecureDeviceIsDriven, CompleteIsClosing, BufferBounded, FlashInOrder, PTL
-----------------------------------------------------------------------------
(***************************************************************************)
(* A step, told by what it does to the queue of events.                    *)
(***************************************************************************)
\* What a step of the GUI or of the link leaves alone.
DeviceStays == UNCHANGED <<deviceVars, num_chunks>> /\ used'["lost"] = used["lost"]

\* The link ended, and the event of that is the last.
Ended ==
    /\ DeviceStays /\ UNCHANGED cont_chunck /\ ~link'
    /\ events' = IF link THEN Append(events, DisconnComplete) ELSE events

\* Nothing was said.
Quiet ==
    /\ DeviceStays /\ UNCHANGED <<cont_chunck, link, events>>
    /\ gui' = "INIT_CRYPTO_PHASE" => gui = "INIT_CRYPTO_PHASE"

\* A packet joined the queue.
Wrote(p) ==
    /\ DeviceStays /\ link /\ UNCHANGED link
    /\ gui' # "INIT_CRYPTO_PHASE"
    /\ events' = Append(events, Modified(p))

WroteNak     == Wrote(Nak) /\ UNCHANGED cont_chunck
WroteRequest == /\ \E app : Wrote(Request(app, num_chunks))
                /\ gui = "INIT_CRYPTO_PHASE" /\ cont_chunck = 0 /\ cont_chunck' = 0
WroteChunk   == /\ \E iv, num : Wrote(Firmware(iv, num, cont_chunck))
                /\ cont_chunck' = cont_chunck + 1 /\ cont_chunck < num_chunks

\* A connection began.
Started ==
    /\ Connectable /\ UNCHANGED deviceVars
    /\ used'["lost"] = used["lost"]
    /\ link' /\ events' = Append(events, ConnComplete)
    /\ cont_chunck' = 0 /\ num_chunks' \in Totals

\* The device, the link and the GUI take no other steps.
LEMMA StepKinds ==
    ASSUME SecureUpdates, SendInv, [SecureNext]_allSecureVars
    PROVE  \/ HCI_Event_CB
           \/ Enable_Advertising /\ UNCHANGED <<link, events, notes, guiVars, used>>
           \/ DropEvent
           \/ DeviceReset
           \/ Ended \/ Quiet \/ WroteNak \/ WroteRequest \/ WroteChunk \/ Started
<1> USE DEF DeviceStays
<1>1. CASE BlueNRG_Process
  BY <1>1 DEF BlueNRG_Process
<1>2. used \in [Spendings -> Nat]
  BY DEF SendInv
<1>3. /\ \A b : Spend("sessions", b) => used'["lost"] = used["lost"]
      /\ \A b : Spend("noise", b) => used'["lost"] = used["lost"]
      /\ \A b : Spend("drops", b) => used'["lost"] = used["lost"]
      /\ \A b : Spend("restarts", b) => used'["lost"] = used["lost"]
  BY <1>2 DEF Spend, Spendings
<1>4. CASE LinkDrop
  BY <1>3, <1>4 DEF LinkDrop, Ended, guiVars, formVars, loopVars
<1>5. CASE read_response
  BY <1>3, <1>5 DEF read_response, Altered, Quiet, formVars, loopVars
<1>6. CASE \E app \in Selections, total \in Totals :
               StartUpload(app, total, "INIT_CRYPTO_PHASE")
  BY <1>3, <1>6 DEF StartUpload, Started
<1>7. ASSUME Raise, UNCHANGED deviceVars PROVE Ended
  BY <1>7 DEF Raise, Hangup, Ended, formVars, loopVars
<1>8. CASE SendRequest("INIT_CRYPTO_PHASE", "START_SECURE_FLASH_MODE")
  <2>1. CASE Raise
    BY <1>7, <1>8, <2>1 DEF SendRequest
  <2>2. CASE ~Raise
    <3>1. /\ Write(Request(selected_app, num_chunks)) /\ gui' = "WAIT_RESPONSE"
          /\ gui = "INIT_CRYPTO_PHASE"
          /\ UNCHANGED <<formVars, loopVars, ackVars, used, deviceVars>>
      BY <1>8, <2>2 DEF SendRequest, Request
    <3>2. Wrote(Request(selected_app, num_chunks))
      BY <3>1 DEF Wrote, Write, formVars
    <3>3. cont_chunck = 0 /\ cont_chunck' = 0
      BY <3>1 DEF SendInv, loopVars
    <3>4. QED
      BY <3>1, <3>2, <3>3 DEF WroteRequest
  <2>3. QED
    BY <2>1, <2>2
<1>9. CASE GetResponse("SENDING_CRYPTO_DATA")
  BY <1>9 DEF GetResponse, Quiet, formVars, loopVars
<1>10. CASE SendSecureChunk
  <2>1. CASE Raise
    BY <1>7, <1>10, <2>1 DEF SendSecureChunk
  <2>2. CASE ~Raise
    <3>1. /\ link /\ UNCHANGED <<link, formVars, deviceVars>>
          /\ gui = "SENDING_CRYPTO_DATA" /\ cont_chunck' = cont_chunck + 1
          /\ gui' # "INIT_CRYPTO_PHASE"
          /\ UNCHANGED used \/ Spend("noise", MaxNoise)
      BY <1>10, <2>2, ChunkWritten
    <3>2. PICK iv \in Iv, num \in 0 .. Window - 1 :
              events' = Append(events, Modified(Firmware(iv, num, cont_chunck)))
      BY <1>10, <2>2, ChunkWritten
    <3>3. Wrote(Firmware(iv, num, cont_chunck))
      BY <1>3, <3>1, <3>2 DEF Wrote, formVars
    <3>4. cont_chunck < num_chunks
      BY <3>1 DEF SendInv
    <3>5. QED
      BY <3>1, <3>3, <3>4 DEF WroteChunk
  <2>3. QED
    BY <2>1, <2>2
<1>11. CASE WindowAcked("SENDING_CRYPTO_DATA")
  BY <1>11 DEF WindowAcked, Quiet, formVars
<1>12. CASE SendNak
  <2>1. CASE Raise
    BY <1>7, <1>12, <2>1 DEF SendNak
  <2>2. CASE ~Raise
    BY <1>12, <2>2 DEF SendNak, Nak, WroteNak, Wrote, Write, formVars, loopVars
  <2>3. QED
    BY <2>1, <2>2
<1>13. CASE NakSent
  BY <1>13 DEF NakSent, Quiet, formVars, loopVars
<1>14. CASE FinishSecure
  <2>1. CASE Raise
    BY <1>7, <1>14, <2>1 DEF FinishSecure, Finish
  <2>2. CASE ~Raise
    BY <1>14, <2>2 DEF FinishSecure, Finish, Hangup, Ended, formVars, loopVars
  <2>3. QED
    BY <2>1, <2>2
<1>15. CASE RestartSecureGui
  BY <1>3, <1>15 DEF RestartSecureGui, RestartGui, Hangup, Ended, formVars, loopVars
<1>16. CASE UNCHANGED allSecureVars
  BY <1>16 DEF allSecureVars, allVars, Quiet, guiVars, formVars, loopVars
<1>17. QED
  BY <1>1, <1>4, <1>5, <1>6, <1>8, <1>9, <1>10, <1>11, <1>12, <1>13, <1>14, <1>15, <1>16
  DEF SecureNext, send_new_fw
-----------------------------------------------------------------------------
(***************************************************************************)
(* The link and the queue of events.                                       *)
(***************************************************************************)
\* The radio advertises to one connection, whose beginning is the first of its
\* events; the end of the link is the last; and the device becomes connectable
\* again when it has heard of that end.
LinkInv ==
    /\ advertising => InBootloader
    /\ set_connectable => ~advertising /\ ~link /\ events = <<>>
    /\ advertising =>
          /\ connection_status = "IDLE"
          /\ events = <<>> => ~link
          /\ events # <<>> => events[1] = ConnComplete
    /\ \A i \in 1 .. Len(events) :
          /\ events[i] = ConnComplete => i = 1 /\ advertising
          /\ events[i] = DisconnComplete => i = Len(events) /\ ~link

\* A write joins the queue of a linked device.
LEMMA LinkWritten ==
    ASSUME LinkInv, events \in Seq(Event), link, NEW p,
           events' = Append(events, Modified(p)),
           UNCHANGED <<link, running, connection_status, radioVars>>
    PROVE  LinkInv'
<1> USE EventKinds
<1>1. /\ events' # <<>> /\ (events # <<>> => events'[1] = events[1])
      /\ \A i \in 1 .. Len(events') :
            \/ i = Len(events') /\ events'[i] = Modified(p)
            \/ i \in 1 .. Len(events) /\ i # Len(events') /\ events'[i] = events[i]
  BY Longer
<1>2. UNCHANGED <<set_connectable, advertising, link, running, connection_status>>
  BY DEF radioVars
<1>3. \A i \in 1 .. Len(events') : /\ events'[i] = ConnComplete => i = 1 /\ advertising
                                   /\ events'[i] # DisconnComplete
  BY <1>1 DEF LinkInv
<1>4. QED
  BY <1>1, <1>2, <1>3 DEF LinkInv

\* The end of the link is the last event.
LEMMA LinkEnded ==
    ASSUME LinkInv, events \in Seq(Event),
           ~link', events' = IF link THEN Append(events, DisconnComplete) ELSE events,
           UNCHANGED <<running, connection_status, radioVars>>
    PROVE  LinkInv'
<1> USE EventKinds
<1>1. UNCHANGED <<set_connectable, advertising, running, connection_status>>
  BY DEF radioVars
<1>2. CASE link
  <2>1. /\ events' # <<>> /\ (events # <<>> => events'[1] = events[1])
        /\ \A i \in 1 .. Len(events') :
              \/ i = Len(events') /\ events'[i] = DisconnComplete
              \/ i \in 1 .. Len(events) /\ i # Len(events') /\ events'[i] = events[i]
    BY <1>2, Longer
  <2>2. \A i \in 1 .. Len(events') :
           /\ events'[i] = ConnComplete => i = 1 /\ advertising
           /\ events'[i] = DisconnComplete => i = Len(events')
    BY <1>2, <2>1 DEF LinkInv
  <2>3. QED
    BY <1>1, <1>2, <2>1, <2>2 DEF LinkInv
<1>3. CASE ~link
  BY <1>1, <1>3 DEF LinkInv
<1>4. QED
  BY <1>2, <1>3

\* What a queue keeps when its first event is taken.
LEMMA LinkTaken ==
    ASSUME LinkInv, events \in Seq(Event), events # <<>>, events' = Tail(events),
           UNCHANGED link, ~advertising', set_connectable' => ~link' /\ events' = <<>>
    PROVE  LinkInv'
<1>1. \A i \in 1 .. Len(events') : /\ i + 1 \in 1 .. Len(events) /\ i + 1 # 1
                                   /\ events'[i] = events[i + 1]
                                   /\ i + 1 = Len(events) => i = Len(events')
  BY Shorter
<1>2. \A i \in 1 .. Len(events') : /\ events'[i] # ConnComplete
                                   /\ events'[i] = DisconnComplete =>
                                         i = Len(events') /\ ~link
  BY <1>1 DEF LinkInv
<1>3. QED
  BY <1>2 DEF LinkInv

\* An event that is handled is heard by a radio in the state it tells of.
LEMMA LinkHandled ==
    ASSUME LinkInv, events \in Seq(Event), HCI_Event_CB
    PROVE  LinkInv'
<1> USE EventKinds
<1>1. /\ events # <<>> /\ events' = Tail(events) /\ UNCHANGED link
      /\ 1 \in 1 .. Len(events) /\ Head(events) = events[1]
      /\ Len(events) = 1 => Tail(events) = <<>>
  BY Shorter DEF HCI_Event_CB
<1>2. ~set_connectable
  BY <1>1 DEF LinkInv
<1>3. CASE GAP_ConnectionComplete_CB
  BY <1>1, <1>2, <1>3, LinkTaken DEF GAP_ConnectionComplete_CB
<1>4. CASE Head(events).evt = "EVT_DISCONN_COMPLETE" /\ GAP_DisconnectionComplete_CB
  <2>1. Head(events) = DisconnComplete
    <3>1. Head(events) \in Event
      BY <1>1
    <3>2. QED
      BY <1>4, <3>1 DEF Event
  <2>2. events' = <<>> /\ ~link
    BY <1>1, <2>1 DEF LinkInv
  <2>3. ~advertising'
    BY <1>4 DEF GAP_DisconnectionComplete_CB
  <2>4. QED
    BY <1>1, <2>2, <2>3, LinkTaken
<1>5. CASE Head(events).evt = "EVT_BLUE_GATT_ATTRIBUTE_MODIFIED"
           /\ Attribute_Modified_CB(Head(events).packet)
  <2>1. ~advertising
    BY <1>1, <1>5 DEF LinkInv
  <2>2. UNCHANGED <<set_connectable, advertising>>
    BY <1>5 DEF Attribute_Modified_CB, radioVars
  <2>3. QED
    BY <1>1, <1>2, <2>1, <2>2, LinkTaken
<1>6. QED
  BY <1>3, <1>4, <1>5 DEF HCI_Event_CB

\* An event that is lost is not heard, and its connection not waited for.
LEMMA LinkDropped ==
    ASSUME LinkInv, events \in Seq(Event), DropEvent
    PROVE  LinkInv'
<1>1. /\ events # <<>> /\ events' = Tail(events) /\ UNCHANGED link
      /\ Head(events) = events[1] /\ UNCHANGED set_connectable
  BY Shorter DEF DropEvent, ConnectionMissed, deviceVars, radioVars
<1>2. ~set_connectable
  BY <1>1 DEF LinkInv
<1>3. ~advertising'
  BY <1>1 DEF DropEvent, ConnectionMissed, LinkInv, deviceVars, radioVars
<1>4. QED
  BY <1>1, <1>2, <1>3, LinkTaken

\* A connection begins on an empty queue.
LEMMA StartsEmpty ==
    ASSUME LinkInv, events \in Seq(Event), Started
    PROVE  /\ advertising /\ connection_status = "IDLE" /\ events = <<>>
           /\ events' = <<ConnComplete>>
<1>1. advertising /\ \A i \in DOMAIN events : events[i] # ConnComplete
  BY DEF Started, Connectable
<1>2. events # <<>> => 1 \in DOMAIN events
  BY Shorter
<1>3. events = <<>>
  BY <1>1, <1>2 DEF LinkInv
<1>4. QED
  BY <1>1, <1>3 DEF LinkInv, Started

\* The link and the queue keep LinkInv in every step.
LEMMA LinkStep ==
    ASSUME SecureUpdates, SendInv, SessionInv, LinkInv, [SecureNext]_allSecureVars
    PROVE  LinkInv'
<1> USE EventKinds
<1>1. events \in Seq(Event)
  BY DEF SendInv
<1>2. DeviceStays => UNCHANGED <<running, connection_status, radioVars>>
  BY DEF DeviceStays, deviceVars, handlerVars
<1>3. CASE HCI_Event_CB
  BY <1>1, <1>3, LinkHandled
<1>4. CASE Enable_Advertising /\ UNCHANGED <<link, events, notes, guiVars, used>>
  BY <1>4 DEF Enable_Advertising, LinkInv, SessionInv
<1>5. CASE DropEvent
  BY <1>1, <1>5, LinkDropped
<1>6. CASE DeviceReset
  <2>1. link' = FALSE /\ events' = <<>> /\ advertising' = FALSE
    BY <1>6 DEF DeviceReset, Reset
  <2>2. QED
    BY <2>1 DEF LinkInv
<1>7. CASE Ended
  BY <1>1, <1>2, <1>7, LinkEnded DEF Ended
<1>8. CASE Quiet
  BY <1>2, <1>8 DEF Quiet, LinkInv, radioVars
<1>9. ASSUME NEW p, Wrote(p) PROVE LinkInv'
  BY <1>1, <1>2, <1>9, LinkWritten DEF Wrote
<1>10. CASE Started
  <2>1. events' = <<ConnComplete>> /\ advertising
    BY <1>1, <1>10, StartsEmpty
  <2>2. /\ events' # <<>> /\ events'[1] = ConnComplete /\ Len(events') = 1
        /\ \A i \in 1 .. Len(events') : i = 1
    BY <2>1
  <2>3. UNCHANGED <<running, connection_status, set_connectable, advertising>>
    BY <1>10 DEF Started, deviceVars, handlerVars, radioVars
  <2>4. QED
    BY <2>1, <2>2, <2>3 DEF LinkInv
<1>11. QED
  BY <1>3, <1>4, <1>5, <1>6, <1>7, <1>8, <1>9, <1>10, StepKinds
  DEF WroteNak, WroteRequest, WroteChunk
-----------------------------------------------------------------------------
(***************************************************************************)
(* What is in the queue of a session, and where a packet's chunk is told.  *)
(***************************************************************************)
IsRequest(e) == e.evt = "EVT_BLUE_GATT_ATTRIBUTE_MODIFIED"
                /\ e.packet.cmd = "START_SECURE_FLASH_MODE"

Unasked == connection_status \in {"IDLE", "CONNECTED"}

\* Until the device has heard the request every packet of the image is behind
\* it, and the packets on their way are the last ones the GUI sent, in order.
QueueInv ==
    /\ connection_status # "RECEVEING_RAW_FW"
    /\ gui = "INIT_CRYPTO_PHASE" /\ link =>
          Unasked /\ \A i \in 1 .. Len(events) : events[i] = ConnComplete
    /\ \A i \in 1 .. Len(events) : IsRequest(events[i]) =>
          /\ Unasked
          /\ events[i].packet.total = num_chunks
          /\ Left(events, 1) = cont_chunck
          /\ \A j \in 1 .. Len(events) : IsRequest(events[j]) \/ IsSecure(events[j]) => j >= i
    /\ \A i \in 1 .. Len(events) : IsSecure(events[i]) =>
          events[i].packet.data
              = Chunk(cont_chunck - Left(events, i), SECURE_PAYLOAD_BYTES)
    /\ Left(events, 1) <= cont_chunck

\* Neither the beginning nor the end of the link is a packet.
LEMMA PacketKinds ==
    /\ ~IsRequest(ConnComplete) /\ ~IsSecure(ConnComplete)
    /\ ~IsRequest(DisconnComplete) /\ ~IsSecure(DisconnComplete)
    /\ ~IsRequest(Modified(Nak)) /\ ~IsSecure(Modified(Nak))
    /\ \A app, total : /\ IsRequest(Modified(Request(app, total)))
                       /\ ~IsSecure(Modified(Request(app, total)))
                       /\ Modified(Request(app, total)).packet.total = total
    /\ \A iv, num, n : /\ ~IsRequest(Modified(Firmware(iv, num, n)))
                       /\ IsSecure(Modified(Firmware(iv, num, n)))
                       /\ Modified(Firmware(iv, num, n)).packet.data
                             = Chunk(n, SECURE_PAYLOAD_BYTES)
    /\ \A e : ~(IsRequest(e) /\ IsSecure(e))
<1>1. /\ ~IsRequest(ConnComplete) /\ ~IsSecure(ConnComplete)
      /\ ~IsRequest(DisconnComplete) /\ ~IsSecure(DisconnComplete)
  BY EventKinds DEF IsRequest, IsSecure
<1>2. ~IsRequest(Modified(Nak)) /\ ~IsSecure(Modified(Nak))
  BY EventKinds DEF IsRequest, IsSecure, Nak
<1>3. \A app, total : /\ IsRequest(Modified(Request(app, total)))
                      /\ ~IsSecure(Modified(Request(app, total)))
                      /\ Modified(Request(app, total)).packet.total = total
  BY EventKinds DEF IsRequest, IsSecure, Request
<1>4. \A iv, num, n : /\ ~IsRequest(Modified(Firmware(iv, num, n)))
                      /\ IsSecure(Modified(Firmware(iv, num, n)))
                      /\ Modified(Firmware(iv, num, n)).packet.data
                            = Chunk(n, SECURE_PAYLOAD_BYTES)
  BY EventKinds DEF IsRequest, IsSecure, Firmware
<1>5. QED
  BY <1>1, <1>2, <1>3, <1>4 DEF IsRequest, IsSecure

\* A queue without packets of firmware has none on their way.
LEMMA NoneLeft ==
    ASSUME NEW S, NEW q \in Seq(S), \A i \in 1 .. Len(q) : ~IsSecure(q[i])
    PROVE  Left(q, 1) = 0
<1>1. From(q, 1) = {}
  BY DEF From
<1>2. QED
  BY <1>1, FS_EmptySet DEF Left

\* An event taken leaves the rest in order.
LEMMA QueueTaken ==
    ASSUME QueueInv, events \in Seq(Event), cont_chunck \in Nat, events # <<>>,
           events' = Tail(events), UNCHANGED <<link, gui, num_chunks, cont_chunck>>,
           connection_status' # "RECEVEING_RAW_FW",
           Unasked /\ ~IsRequest(Head(events)) => Unasked'
    PROVE  QueueInv'
<1>1. /\ 1 \in 1 .. Len(events) /\ Head(events) = events[1]
      /\ \A i \in 1 .. Len(events') : /\ i \in Nat \ {0}
                                      /\ i + 1 \in 1 .. Len(events) /\ i + 1 # 1
                                      /\ events'[i] = events[i + 1]
  BY Shorter
<1>2. /\ \A i \in Nat \ {0} : Left(events', i) = Left(events, i + 1)
      /\ Left(events, 1) = Left(events', 1) + (IF IsSecure(Head(events)) THEN 1 ELSE 0)
      /\ Left(events', 1) \in Nat /\ Left(events, 1) \in Nat
  <2>1. events' \in Seq(Event)
    OBVIOUS
  <2>2. Left(events', 1) \in Nat /\ Left(events, 1) \in Nat
    BY <2>1, LeftCount
  <2>3. QED
    BY <2>2, LeftTaken
<1>3. Left(events', 1) <= cont_chunck
  <2>1. \A m, n \in Nat : n <= cont_chunck /\ (n = m \/ n = m + 1) => m <= cont_chunck
    OBVIOUS
  <2>2. Left(events, 1) <= cont_chunck
    BY DEF QueueInv
  <2>3. Left(events, 1) = Left(events', 1) \/ Left(events, 1) = Left(events', 1) + 1
    <3>1. Left(events', 1) + 0 = Left(events', 1)
      BY <1>2
    <3>2. QED
      BY <1>2, <3>1
  <2>4. QED
    BY <1>2, <2>1, <2>2, <2>3, Zenon
<1>4. gui = "INIT_CRYPTO_PHASE" /\ link =>
          Unasked' /\ \A i \in 1 .. Len(events') : events'[i] = ConnComplete
  BY <1>1, PacketKinds DEF QueueInv
<1>5. ASSUME NEW i \in 1 .. Len(events'), IsRequest(events'[i])
      PROVE  /\ Unasked'
             /\ events'[i].packet.total = num_chunks
             /\ Left(events', 1) = cont_chunck
             /\ \A j \in 1 .. Len(events') :
                   IsRequest(events'[j]) \/ IsSecure(events'[j]) => j >= i
  <2>1. PICK k \in 1 .. Len(events) : k = i + 1 /\ k > 1 /\ events'[i] = events[k]
    BY <1>1
  <2>2. /\ Unasked /\ events[k].packet.total = num_chunks
        /\ Left(events, 1) = cont_chunck
        /\ \A j \in 1 .. Len(events) : IsRequest(events[j]) \/ IsSecure(events[j]) => j >= k
    BY <1>5, <2>1 DEF QueueInv
  <2>3. ~IsRequest(events[1]) /\ ~IsSecure(events[1])
    BY <1>1, <2>1, <2>2
  <2>4. ASSUME NEW j \in 1 .. Len(events'), IsRequest(events'[j]) \/ IsSecure(events'[j])
        PROVE  j >= i
    <3>1. j + 1 >= k
      BY <1>1, <2>2, <2>4
    <3>2. QED
      BY <2>1, <3>1
  <2>5. QED
    BY <1>1, <1>2, <2>1, <2>2, <2>3, <2>4
<1>6. ASSUME NEW i \in 1 .. Len(events'), IsSecure(events'[i])
      PROVE  events'[i].packet.data
                 = Chunk(cont_chunck - Left(events', i), SECURE_PAYLOAD_BYTES)
  <2>1. events[i + 1].packet.data
            = Chunk(cont_chunck - Left(events, i + 1), SECURE_PAYLOAD_BYTES)
    BY <1>1, <1>6 DEF QueueInv
  <2>2. QED
    BY <1>1, <1>2, <2>1
<1>7. QED
  BY <1>3, <1>4, <1>5, <1>6 DEF QueueInv

\* An event joins the rest: a packet of firmware is the chunk the GUI counts, a
\* request comes before every other packet.
LEMMA QueueWritten ==
    ASSUME QueueInv, events \in Seq(Event), cont_chunck \in Nat, NEW e,
           events' = Append(events, e), UNCHANGED <<num_chunks, connection_status>>,
           ~(gui' = "INIT_CRYPTO_PHASE" /\ link'),
           \/ ~IsRequest(e) /\ ~IsSecure(e) /\ UNCHANGED cont_chunck
           \/ /\ IsRequest(e) /\ e.packet.total = num_chunks
              /\ cont_chunck = 0 /\ cont_chunck' = 0
              /\ gui = "INIT_CRYPTO_PHASE" /\ link
           \/ /\ IsSecure(e) /\ e.packet.data = Chunk(cont_chunck, SECURE_PAYLOAD_BYTES)
              /\ cont_chunck' = cont_chunck + 1
    PROVE  QueueInv'
<1>1. \A i \in 1 .. Len(events') :
         \/ i = Len(events) + 1 /\ events'[i] = e
         \/ i \in 1 .. Len(events) /\ events'[i] = events[i]
  BY Longer
<1>2. Len(events) \in Nat /\ Len(events') = Len(events) + 1
  BY Longer
<1>3. \A i \in 1 .. Len(events) + 1 :
         /\ Left(events', i) = Left(events, i) + (IF IsSecure(e) THEN 1 ELSE 0)
         /\ Left(events, i) \in Nat
  BY LeftWritten, LeftCount
<1>4. 1 \in 1 .. Len(events) + 1 /\ Len(events) + 1 \in 1 .. Len(events) + 1
  BY <1>2
<1>5. ~(IsRequest(e) /\ IsSecure(e))
  BY PacketKinds
<1>6. Left(events, Len(events) + 1) = 0
  <2>1. From(events, Len(events) + 1) = {}
    BY <1>2 DEF From
  <2>2. QED
    BY <2>1, FS_EmptySet DEF Left
<1>7. Left(events', 1) <= cont_chunck'
  BY <1>3, <1>4, <1>5 DEF QueueInv
<1>8. ASSUME NEW i \in 1 .. Len(events'), IsSecure(events'[i])
      PROVE  events'[i].packet.data
                 = Chunk(cont_chunck' - Left(events', i), SECURE_PAYLOAD_BYTES)
  <2>1. CASE i = Len(events) + 1 /\ events'[i] = e
    <3>1. /\ e.packet.data = Chunk(cont_chunck, SECURE_PAYLOAD_BYTES)
          /\ cont_chunck' = cont_chunck + 1 /\ Left(events', i) = 1
      BY <1>3, <1>4, <1>5, <1>6, <1>8, <2>1
    <3>2. cont_chunck' - Left(events', i) = cont_chunck
      BY <3>1
    <3>3. QED
      BY <2>1, <3>1, <3>2
  <2>2. CASE i \in 1 .. Len(events) /\ events'[i] = events[i]
    <3>1. events[i].packet.data = Chunk(cont_chunck - Left(events, i), SECURE_PAYLOAD_BYTES)
      BY <1>8, <2>2 DEF QueueInv
    <3>2. CASE IsRequest(e)
      <4>1. events[i] = ConnComplete
        BY <1>5, <2>2, <3>2 DEF QueueInv
      <4>2. QED
        BY <1>8, <2>2, <4>1, PacketKinds
    <3>3. CASE ~IsRequest(e)
      <4>1. i \in 1 .. Len(events) + 1
        BY <1>2, <2>2
      <4>2. cont_chunck' - Left(events', i) = cont_chunck - Left(events, i)
        BY <1>3, <3>3, <4>1
      <4>3. QED
        BY <2>2, <3>1, <4>2
    <3>4. QED
      BY <3>2, <3>3
  <2>3. QED
    BY <1>1, <2>1, <2>2
<1>9. ASSUME NEW i \in 1 .. Len(events'), IsRequest(events'[i])
      PROVE  /\ Unasked'
             /\ events'[i].packet.total = num_chunks
             /\ Left(events', 1) = cont_chunck'
             /\ \A j \in 1 .. Len(events') :
                   IsRequest(events'[j]) \/ IsSecure(events'[j]) => j >= i
  <2>1. CASE IsRequest(e)
    <3>1. Unasked /\ \A j \in 1 .. Len(events) : events[j] = ConnComplete
      BY <1>5, <2>1 DEF QueueInv
    <3>2. \A j \in 1 .. Len(events) : ~IsRequest(events[j]) /\ ~IsSecure(events[j])
      BY <3>1, PacketKinds
    <3>3. Left(events, 1) = 0
      BY <3>2, NoneLeft
    <3>4. i = Len(events) + 1 /\ events'[i] = e
      BY <1>1, <1>9, <3>2
    <3>5. \A j \in 1 .. Len(events') :
             IsRequest(events'[j]) \/ IsSecure(events'[j]) => j >= i
      BY <1>1, <1>2, <3>2, <3>4
    <3>6. Left(events', 1) = 0
      BY <1>3, <1>4, <1>5, <2>1, <3>3
    <3>7. QED
      BY <1>5, <2>1, <3>1, <3>4, <3>5, <3>6 DEF Unasked
  <2>2. CASE ~IsRequest(e)
    <3>1. i \in 1 .. Len(events) /\ events'[i] = events[i]
      BY <1>1, <1>9, <2>2
    <3>2. /\ Unasked /\ events[i].packet.total = num_chunks
          /\ Left(events, 1) = cont_chunck
          /\ \A j \in 1 .. Len(events) : IsRequest(events[j]) \/ IsSecure(events[j]) => j >= i
      BY <1>9, <3>1 DEF QueueInv
    <3>3. \A j \in 1 .. Len(events') :
             IsRequest(events'[j]) \/ IsSecure(events'[j]) => j >= i
      BY <1>1, <1>2, <3>1, <3>2
    <3>4. Left(events', 1) = cont_chunck'
      BY <1>3, <1>4, <2>2, <3>2
    <3>5. QED
      BY <3>1, <3>2, <3>3, <3>4 DEF Unasked
  <2>3. QED
    BY <2>1, <2>2
<1>10. QED
  BY <1>7, <1>8, <1>9 DEF QueueInv

\* The numbers of chunks are natural numbers, smaller than the device's counter
\* counts to.
LEMMA ChunkNumbers ==
    ASSUME SendInv
    PROVE  cont_chunck \in Nat /\ num_chunks \in Nat /\ cont_chunck <= num_chunks
           /\ num_chunks < CountMod
<1>1. CountMod \in Nat \ {0} /\ \A t \in Totals : t \in Nat /\ t < CountMod
  BY HandlerAssumption, ClientAssumption DEF Count
<1>2. QED
  BY <1>1 DEF SendInv

\* A session of the secure kind is all a request of the secure GUI can start,
\* and nothing else ends the wait for it.
LEMMA RequestOnly ==
    ASSUME SecureUpdates, NEW p \in Sent, data_handler(p),
           connection_status # "RECEVEING_RAW_FW"
    PROVE  /\ connection_status' # "RECEVEING_RAW_FW"
           /\ Unasked /\ p.cmd # "START_SECURE_FLASH_MODE" => Unasked'
<1>1. p.cmd # "START_FLASH_MODE"
  BY DEF SecureUpdates, Sent
<1>2. CASE StartSecure(p)
  BY <1>2 DEF StartSecure, StartFlash
<1>3. CASE StartRefused(p) \/ ResendAck(p) \/ IgnorePacket
  BY <1>3 DEF StartRefused, ResendAck, IgnorePacket, Unasked
<1>4. CASE ReceiveSecure(p)
  BY <1>4 DEF ReceiveSecure, AddToWindow, RefuseWindow, WriteWindow, NewWindow, Unasked
<1>5. CASE OverrunSecure(p)
  BY <1>5 DEF OverrunSecure, Overrun, Unasked
<1>6. QED
  BY <1>1, <1>2, <1>3, <1>4, <1>5 DEF data_handler, StartRaw, ReceiveRaw, OverrunRaw

\* A packet that is handled is one the GUI sent.
LEMMA HandledPacket ==
    ASSUME events \in Seq(Event), HCI_Event_CB
    PROVE  \/ Head(events) = ConnComplete /\ GAP_ConnectionComplete_CB
           \/ Head(events) = DisconnComplete /\ GAP_DisconnectionComplete_CB
           \/ \E p \in Sent : Head(events) = Modified(p) /\ Attribute_Modified_CB(p)
<1> USE EventKinds
<1>1. Head(events) \in Event
  BY EventQueue DEF HCI_Event_CB
<1>2. CASE Head(events) = ConnComplete
  BY <1>2 DEF HCI_Event_CB
<1>3. CASE Head(events) = DisconnComplete
  BY <1>3 DEF HCI_Event_CB
<1>4. ASSUME NEW p \in Sent, Head(events) = Modified(p) PROVE Attribute_Modified_CB(p)
  BY <1>4 DEF HCI_Event_CB
<1>5. QED
  BY <1>1, <1>2, <1>3, <1>4 DEF Event

\* Every step keeps the queue in order.
LEMMA QueueStep ==
    ASSUME SecureUpdates, SendInv, LinkInv, QueueInv, [SecureNext]_allSecureVars
    PROVE  QueueInv'
<1> USE EventKinds, PacketKinds
<1>1. events \in Seq(Event) /\ cont_chunck \in Nat
  BY ChunkNumbers DEF SendInv
<1>2. DeviceStays => UNCHANGED <<num_chunks, connection_status>>
  BY DEF DeviceStays, deviceVars, handlerVars
<1>3. CASE HCI_Event_CB
  <2>1. events # <<>> /\ events' = Tail(events)
        /\ UNCHANGED <<link, gui, num_chunks, cont_chunck>>
    BY <1>3 DEF HCI_Event_CB, guiVars, formVars, loopVars
  <2>2. /\ connection_status' # "RECEVEING_RAW_FW"
        /\ Unasked /\ ~IsRequest(Head(events)) => Unasked'
    <3>1. CASE GAP_ConnectionComplete_CB \/ GAP_DisconnectionComplete_CB
      BY <3>1 DEF GAP_ConnectionComplete_CB, GAP_DisconnectionComplete_CB, Unasked
    <3>2. ASSUME NEW p \in Sent, Head(events) = Modified(p), Attribute_Modified_CB(p)
          PROVE  /\ connection_status' # "RECEVEING_RAW_FW"
                 /\ Unasked /\ ~IsRequest(Head(events)) => Unasked'
      <4>1. p.cmd = "START_SECURE_FLASH_MODE" => IsRequest(Head(events))
        BY <3>2 DEF IsRequest
      <4>2. QED
        BY <3>2, <4>1, RequestOnly DEF Attribute_Modified_CB, QueueInv
    <3>3. QED
      BY <1>1, <1>3, <3>1, <3>2, HandledPacket
  <2>3. QED
    BY <1>1, <2>1, <2>2, QueueTaken
<1>4. CASE Enable_Advertising /\ UNCHANGED <<link, events, notes, guiVars, used>>
  BY <1>4 DEF Enable_Advertising, QueueInv, Unasked, guiVars, formVars, loopVars
<1>5. CASE DropEvent
  <2>1. /\ events # <<>> /\ events' = Tail(events)
        /\ UNCHANGED <<link, gui, num_chunks, cont_chunck, connection_status>>
    BY <1>5
    DEF DropEvent, ConnectionMissed, deviceVars, handlerVars, guiVars, formVars, loopVars
  <2>2. QED
    BY <1>1, <2>1, QueueTaken DEF Unasked, QueueInv
<1>6. CASE DeviceReset
  <2>1. /\ link' = FALSE /\ events' = <<>> /\ connection_status' = "IDLE"
        /\ UNCHANGED <<num_chunks, cont_chunck>>
    BY <1>6 DEF DeviceReset, Reset, guiVars, formVars, loopVars
  <2>2. events' \in Seq(Event)
    BY <2>1
  <2>3. Left(events', 1) = 0 /\ Len(events') = 0
    BY <2>1, <2>2, LeftCount
  <2>4. QED
    BY <1>1, <2>1, <2>3 DEF QueueInv
<1>7. CASE Ended
  <2>1. CASE link
    BY <1>1, <1>2, <1>7, <2>1, QueueWritten DEF Ended
  <2>2. CASE ~link
    BY <1>2, <1>7, <2>2 DEF Ended, QueueInv, Unasked
  <2>3. QED
    BY <2>1, <2>2
<1>8. CASE Quiet
  BY <1>2, <1>8 DEF Quiet, QueueInv, Unasked
<1>9. CASE WroteNak
  BY <1>1, <1>2, <1>9, QueueWritten DEF WroteNak, Wrote
<1>10. CASE WroteRequest
  <2>1. PICK app : Wrote(Request(app, num_chunks))
    BY <1>10 DEF WroteRequest
  <2>2. QED
    BY <1>1, <1>2, <1>10, <2>1, QueueWritten DEF WroteRequest, Wrote
<1>11. CASE WroteChunk
  <2>1. PICK iv, num : Wrote(Firmware(iv, num, cont_chunck))
    BY <1>11 DEF WroteChunk
  <2>2. QED
    BY <1>1, <1>2, <1>11, <2>1, QueueWritten DEF WroteChunk, Wrote
<1>12. CASE Started
  <2>1. events' = <<ConnComplete>> /\ connection_status = "IDLE"
    BY <1>1, <1>12, StartsEmpty
  <2>2. /\ events' \in Seq(Event) /\ \A i \in 1 .. Len(events') : events'[i] = ConnComplete
    BY <2>1 DEF Event
  <2>3. Left(events', 1) = 0
    BY <2>2, NoneLeft
  <2>4. cont_chunck' = 0 /\ connection_status' = "IDLE"
    BY <1>12, <2>1 DEF Started, deviceVars, handlerVars
  <2>5. QED
    BY <2>2, <2>3, <2>4 DEF QueueInv, Unasked
<1>13. QED
  BY <1>3, <1>4, <1>5, <1>6, <1>7, <1>8, <1>9, <1>10, <1>11, <1>12, StepKinds
-----------------------------------------------------------------------------
(***************************************************************************)
(* The session of the device, as far as it is in step with the GUI.        *)
(***************************************************************************)
\* The instances meant: a whole window fills whole double words, and the 16-bit
\* counter holds a whole number of windows, more than one.
SecureImages ==
    /\ (Window * SECURE_PAYLOAD_BYTES) % DW = 0
    /\ Window < CountMod /\ CountMod % Window = 0

\* Every chunk counted so far is in its place, in the flash or in the buffer.
GoodSession ==
    \E b \in Nat :
        /\ StartPageAddress = Base(AppToUpdate) + b
        /\ b * DW = WindowStart(count_pck) * SECURE_PAYLOAD_BYTES
        /\ Placed(AppToUpdate, b * DW)
        /\ next_ack => Fits(flash_buff, b * DW, (count_pck % Window) * SECURE_PAYLOAD_BYTES)

\* An accepted request starts with nothing counted, stored or buffered.
LEMMA SessionStarts ==
    ASSUME SessionInv, InBootloader, NEW p, StartSecure(p),
           connection_status' = "RECEVEING_SECURE_FW"
    PROVE  total_pck' = p.total /\ count_pck' = 0 /\ GoodSession'
<1>1. /\ connection_status = "CONNECTED" /\ StartFlash(p, SECURE_PAYLOAD_LEN, "RECEVEING_SECURE_FW")
  BY DEF StartSecure
<1>2. /\ total_pck' = p.total /\ AppToUpdate' = p.app
      /\ UNCHANGED <<count_pck, flash_buff>>
      /\ Prepare_Application_Memory(p.app, TRUE)
  BY <1>1 DEF StartFlash, windowVars
<1>3. count_pck' = 0 /\ flash_buff' = <<>>
  BY <1>1, <1>2 DEF SessionInv
<1>4. StartPageAddress' = Base(p.app)
  BY <1>2 DEF Prepare_Application_Memory, EraseRegion, setStartPageAddress
<1>5. Base(p.app) \in Nat /\ DW \in Nat /\ SECURE_PAYLOAD_BYTES \in Nat /\ Window \in Nat \ {0}
  BY RegionInFlash, FlashAssumption, HandlerAssumption DEF Window
<1>6. 0 * DW = 0 /\ 0 * SECURE_PAYLOAD_BYTES = 0 /\ 0 % Window = 0
  BY <1>5
<1>7. StartPageAddress' = Base(p.app) + 0 /\ WindowStart(0) = 0
  BY <1>4, <1>5, <1>6 DEF WindowStart
<1>8. Words(0 * DW) = 0
  BY WordsAfter
<1>9. \A i \in 0 .. Words(0 * DW) - 1 : FALSE
  BY <1>8
<1>10. ASSUME NEW app PROVE Placed(app, 0 * DW)'
  BY <1>9, Zenon DEF Placed
<1>11. Fits(flash_buff', 0 * DW, (count_pck' % Window) * SECURE_PAYLOAD_BYTES)
  BY <1>3, <1>6, FitsEmpty
<1>12. \E b \in Nat :
        /\ StartPageAddress' = Base(AppToUpdate') + b
        /\ b * DW = WindowStart(count_pck') * SECURE_PAYLOAD_BYTES
        /\ Placed(AppToUpdate, b * DW)'
        /\ next_ack' => Fits(flash_buff', b * DW, (count_pck' % Window) * SECURE_PAYLOAD_BYTES)
  <2>1. 0 \in Nat /\ 0 * DW = WindowStart(count_pck') * SECURE_PAYLOAD_BYTES
    BY <1>3, <1>6, <1>7
  <2>2. StartPageAddress' = Base(AppToUpdate') + 0
    BY <1>2, <1>7
  <2>3. Placed(AppToUpdate, 0 * DW)'
    BY <1>9, Zenon DEF Placed
  <2>4. QED
    BY <1>11, <2>1, <2>2, <2>3, Zenon
<1>13. GoodSession'
  BY <1>12, Zenon DEF GoodSession
<1>14. QED
  BY <1>2, <1>3, <1>13

\* The bytes of a window so far and of the next chunk, by their numbers.
LEMMA NextBytes ==
    ASSUME NEW c \in Nat, NEW n \in Nat, NEW w \in Nat \ {0}
    PROVE  /\ (c % w) * n \in Nat /\ (c - (c % w)) * n \in Nat /\ c * n \in Nat
           /\ c * n = (c - (c % w)) * n + (c % w) * n
           /\ (c % w) * n + n = ((c % w) + 1) * n
           /\ (c + 1) * n = (c - (c % w)) * n + ((c % w) * n + n)
<1> DEFINE k == c % w
           s == c - (c % w)
<1>1. k \in Nat /\ s \in Nat /\ c = s + k
  BY StartFacts
<1> HIDE DEF k, s
<1>2. /\ k * n \in Nat /\ s * n \in Nat /\ c * n \in Nat
      /\ c * n = s * n + k * n
      /\ k * n + n = (k + 1) * n
      /\ (c + 1) * n = s * n + (k * n + n)
  BY <1>1
<1>3. QED
  BY <1>2 DEF k, s

\* The next chunk, taken while the session is in step, fits behind the buffer.
LEMMA ChunkFits ==
    ASSUME NEW c \in Nat, NEW b \in Nat, b * DW = WindowStart(c) * SECURE_PAYLOAD_BYTES,
           NEW buff, Fits(buff, b * DW, (c % Window) * SECURE_PAYLOAD_BYTES),
           NEW data, Fits(data, c * SECURE_PAYLOAD_BYTES, SECURE_PAYLOAD_BYTES)
    PROVE  Fits(buff \o data, b * DW,
                (c % Window) * SECURE_PAYLOAD_BYTES + SECURE_PAYLOAD_BYTES)
<1>1. SECURE_PAYLOAD_BYTES \in Nat /\ Window \in Nat \ {0} /\ DW \in Nat
  BY HandlerAssumption, FlashAssumption DEF Window
<1>2. /\ (c % Window) * SECURE_PAYLOAD_BYTES \in Nat
      /\ c * SECURE_PAYLOAD_BYTES = b * DW + (c % Window) * SECURE_PAYLOAD_BYTES
  BY <1>1, NextBytes DEF WindowStart
<1>3. b * DW \in Nat
  BY <1>1
<1>4. QED
  BY <1>1, <1>2, <1>3, FitsBehind

\* A packet that leaves the window open leaves the session in step.
LEMMA ChunkAdded ==
    ASSUME TypeOK, GoodSession, NEW p, p.data = Chunk(count_pck, SECURE_PAYLOAD_BYTES),
           AddToWindow(TakenSecure(p), SecureData(p)), ~WindowEnds(Window),
           CountUp = count_pck + 1, UNCHANGED AppToUpdate
    PROVE  GoodSession'
<1>1. /\ count_pck \in Count /\ count_pck \in Nat /\ SECURE_PAYLOAD_BYTES \in Nat
      /\ Window \in Nat \ {0}
  BY HandlerAssumption DEF TypeOK, HandlerTypeOK, Count, Window
<1>2. PICK b \in Nat :
        /\ StartPageAddress = Base(AppToUpdate) + b
        /\ b * DW = WindowStart(count_pck) * SECURE_PAYLOAD_BYTES
        /\ Placed(AppToUpdate, b * DW)
        /\ next_ack => Fits(flash_buff, b * DW, (count_pck % Window) * SECURE_PAYLOAD_BYTES)
  BY DEF GoodSession
<1>3. /\ UNCHANGED <<flash, StartPageAddress>>
      /\ count_pck' = count_pck + 1
      /\ next_ack' => next_ack /\ TakenSecure(p) /\ flash_buff' = flash_buff \o SecureData(p)
  BY DEF AddToWindow, flashVars, Buffered
<1>4. (count_pck + 1) % Window = (count_pck % Window) + 1 /\ count_pck % Window \in Nat
  BY <1>1, CountUpInWindow
<1>5. WindowStart(count_pck') = WindowStart(count_pck)
  BY <1>1, <1>3, <1>4 DEF WindowStart
<1>6. next_ack' => Fits(flash_buff', b * DW, (count_pck' % Window) * SECURE_PAYLOAD_BYTES)
  <2> SUFFICES ASSUME next_ack'
               PROVE  Fits(flash_buff', b * DW, (count_pck' % Window) * SECURE_PAYLOAD_BYTES)
    OBVIOUS
  <2>1. Fits(SecureData(p), count_pck * SECURE_PAYLOAD_BYTES, SECURE_PAYLOAD_BYTES)
    BY <1>1, <1>3, TakenFits
  <2>2. Fits(flash_buff \o SecureData(p), b * DW,
             (count_pck % Window) * SECURE_PAYLOAD_BYTES + SECURE_PAYLOAD_BYTES)
    BY <1>1, <1>2, <1>3, <2>1, ChunkFits
  <2>3. (count_pck % Window) * SECURE_PAYLOAD_BYTES + SECURE_PAYLOAD_BYTES
            = ((count_pck % Window) + 1) * SECURE_PAYLOAD_BYTES
    BY <1>1, NextBytes
  <2>4. (count_pck' % Window) = (count_pck % Window) + 1
    BY <1>3, <1>4
  <2>5. QED
    BY <1>3, <2>2, <2>3, <2>4
<1>7. Placed(AppToUpdate, b * DW)'
  BY <1>2, <1>3, Zenon DEF Placed
<1>8. StartPageAddress' = Base(AppToUpdate') + b
      /\ b * DW = WindowStart(count_pck') * SECURE_PAYLOAD_BYTES
  BY <1>2, <1>3, <1>5
<1>9. \E d \in Nat :
        /\ StartPageAddress' = Base(AppToUpdate') + d
        /\ d * DW = WindowStart(count_pck') * SECURE_PAYLOAD_BYTES
        /\ Placed(AppToUpdate, d * DW)'
        /\ next_ack' => Fits(flash_buff', d * DW, (count_pck' % Window) * SECURE_PAYLOAD_BYTES)
  BY <1>6, <1>7, <1>8, Zenon
<1>10. QED
  BY <1>9, Zenon DEF GoodSession

\* A window that is written puts its chunks in their places; one that is whole
\* leaves the session in step.
LEMMA WindowStored ==
    ASSUME SecureImages, TypeOK, GoodSession, NEW p,
           p.data = Chunk(count_pck, SECURE_PAYLOAD_BYTES),
           WriteWindow(TakenSecure(p), SecureData(p), Window, TRUE),
           CountUp = count_pck + 1, UNCHANGED AppToUpdate
    PROVE  /\ Placed(AppToUpdate, count_pck * SECURE_PAYLOAD_BYTES)'
           /\ (count_pck + 1) % Window = 0 => GoodSession'
<1>1. /\ count_pck \in Nat /\ SECURE_PAYLOAD_BYTES \in Nat
      /\ Window \in Nat \ {0} /\ DW \in Nat \ {0} /\ Base(AppToUpdate) \in Nat
  BY HandlerAssumption, FlashAssumption, RegionInFlash
  DEF TypeOK, HandlerTypeOK, Count, Window
<1>2. PICK b \in Nat :
        /\ StartPageAddress = Base(AppToUpdate) + b
        /\ b * DW = WindowStart(count_pck) * SECURE_PAYLOAD_BYTES
        /\ Placed(AppToUpdate, b * DW)
        /\ next_ack => Fits(flash_buff, b * DW, (count_pck % Window) * SECURE_PAYLOAD_BYTES)
  BY DEF GoodSession
<1>3. PICK bytes : /\ bytes = flash_buff \o SecureData(p)
                   /\ Write_FW_to_flash(Dwords(bytes), TRUE)
  BY DEF WriteWindow, Buffered
<1>4. /\ next_ack /\ TakenSecure(p)
      /\ count_pck' = count_pck + 1 /\ flash_buff' = <<>>
  BY DEF WriteWindow, NewWindow
<1>5. PICK m \in Nat : m = (count_pck % Window) * SECURE_PAYLOAD_BYTES + SECURE_PAYLOAD_BYTES
  <2>1. (count_pck % Window) * SECURE_PAYLOAD_BYTES \in Nat
    BY <1>1, NextBytes
  <2>2. (count_pck % Window) * SECURE_PAYLOAD_BYTES + SECURE_PAYLOAD_BYTES \in Nat
    BY <1>1, <2>1
  <2>3. QED
    BY <2>2
<1>6. Fits(bytes, b * DW, m)
  <2>1. Fits(SecureData(p), count_pck * SECURE_PAYLOAD_BYTES, SECURE_PAYLOAD_BYTES)
    BY <1>1, <1>4, TakenFits
  <2>2. QED
    BY <1>1, <1>2, <1>3, <1>4, <1>5, <2>1, ChunkFits
<1>7. PICK app : app = AppToUpdate /\ app = AppToUpdate'
  OBVIOUS
<1>8. StartPageAddress' = Base(app) + (b + Words(m)) /\ Placed(app, b * DW + m)'
  <2>1. StartPageAddress = Base(app) + b /\ Placed(app, b * DW)
    BY <1>2, <1>7
  <2>2. QED
    BY <1>3, <1>6, <2>1, WritePlaced
<1>9. (count_pck + 1) * SECURE_PAYLOAD_BYTES = b * DW + m
  BY <1>1, <1>2, <1>5, NextBytes DEF WindowStart
<1>10. \A i \in 0 .. Words(b * DW + m) - 1 :
          /\ Base(app) + i \in Address
          /\ Fits(flash'[Base(app) + i], i * DW, WordLen(i, b * DW + m))
  BY <1>8, Zenon DEF Placed
<1>11. Placed(AppToUpdate, count_pck * SECURE_PAYLOAD_BYTES)'
  <2>1. b * DW + m = count_pck' * SECURE_PAYLOAD_BYTES
    BY <1>4, <1>9
  <2>2. \A i \in 0 .. Words(count_pck' * SECURE_PAYLOAD_BYTES) - 1 :
           /\ Base(AppToUpdate') + i \in Address
           /\ Fits(flash'[Base(AppToUpdate') + i], i * DW,
                   WordLen(i, count_pck' * SECURE_PAYLOAD_BYTES))
    BY <1>7, <1>10, <2>1
  <2>3. QED
    BY <2>2, Zenon DEF Placed
<1>12. ASSUME (count_pck + 1) % Window = 0 PROVE GoodSession'
  <2>1. count_pck % Window = Window - 1
    BY <1>1, <1>12, WindowEnd
  <2>2. m = Window * SECURE_PAYLOAD_BYTES
    <3>1. m = ((count_pck % Window) + 1) * SECURE_PAYLOAD_BYTES
      BY <1>1, <1>5, NextBytes
    <3>2. (count_pck % Window) + 1 = Window
      BY <1>1, <2>1
    <3>3. QED
      BY <3>1, <3>2
  <2>3. PICK q \in Nat : m = q * DW
    <3>1. \A x \in Nat, d \in Nat \ {0} : x % d = 0 => x \div d \in Nat /\ x = (x \div d) * d
      BY SMT
    <3>2. m % DW = 0
      BY <2>2 DEF SecureImages
    <3>3. QED
      BY <1>1, <3>1, <3>2
  <2>4. Words(m) = q
    BY <2>3, WordsAfter
  <2>5. PICK d \in Nat : d = b + q /\ d * DW = b * DW + m
    <3>1. (b + q) * DW = b * DW + q * DW
      BY <1>1
    <3>2. QED
      BY <2>3, <3>1
  <2>6. WindowStart(count_pck') = count_pck + 1 /\ count_pck' % Window = 0
    BY <1>1, <1>4, <1>12 DEF WindowStart
  <2>7. StartPageAddress' = Base(AppToUpdate') + d
    BY <1>7, <1>8, <2>4, <2>5
  <2>8. d * DW = WindowStart(count_pck') * SECURE_PAYLOAD_BYTES
    BY <1>9, <2>5, <2>6
  <2>9. Placed(AppToUpdate, d * DW)'
    BY <1>7, <1>10, <2>5 DEF Placed
  <2>10. Fits(flash_buff', d * DW, (count_pck' % Window) * SECURE_PAYLOAD_BYTES)
    <3>1. 0 * SECURE_PAYLOAD_BYTES = 0
      BY <1>1
    <3>2. QED
      BY <1>4, <2>6, <3>1, FitsEmpty
  <2>11. \E e \in Nat :
          /\ StartPageAddress' = Base(AppToUpdate') + e
          /\ e * DW = WindowStart(count_pck') * SECURE_PAYLOAD_BYTES
          /\ Placed(AppToUpdate, e * DW)'
          /\ next_ack' => Fits(flash_buff', e * DW,
                               (count_pck' % Window) * SECURE_PAYLOAD_BYTES)
    BY <2>7, <2>8, <2>9, <2>10, Zenon
  <2>12. QED
    BY <2>11, Zenon DEF GoodSession
<1>13. QED
  BY <1>11, <1>12

\* A count c moved up by one and set back by a window w, below m: from below
\* zero it comes back from the top, by a whole number of windows.
BackBy(r, c, w, m) ==
    /\ r \in Nat
    /\ c + 1 >= w => r = c + 1 - w
    /\ c + 1 < w => r = c + 1 - w + m
    /\ \E k \in Int : r = c + 1 + k * w

\* What the 16-bit arithmetic of the counter gives.
LEMMA SetBackValue ==
    ASSUME NEW c \in Nat, NEW w \in Nat \ {0}, NEW m \in Nat, w < m, m % w = 0, c + 1 < m
    PROVE  BackBy((c + 1 - w) % m, c, w, m)
<1>1. PICK q \in Int : m = q * w
  <2>1. \A x \in Nat, d \in Nat \ {0} : x % d = 0 => x \div d \in Int /\ x = (x \div d) * d
    BY SMT
  <2>2. QED
    BY <2>1
<1>2. CASE c + 1 >= w
  <2>1. (c + 1 - w) % m = c + 1 - w
    BY <1>2
  <2>2. c + 1 - w = c + 1 + (-1) * w
    OBVIOUS
  <2>3. QED
    BY <1>2, <2>1, <2>2 DEF BackBy
<1>3. CASE c + 1 < w
  <2>1. (c + 1 - w) % m = c + 1 - w + m
    <3>1. PICK x \in 0 .. m - 1 : x = c + 1 - w + m
      BY <1>3
    <3>2. c + 1 - w = (-1) * m + x
      BY <3>1
    <3>3. \A y \in Int : y = (-1) * m + x => y % m = x
      BY <3>1, SMT
    <3>4. QED
      BY <3>1, <3>2, <3>3
  <2>2. q - 1 \in Int /\ c + 1 - w + m = c + 1 + (q - 1) * w
    BY <1>1
  <2>3. \E k \in Int : (c + 1 - w) % m = c + 1 + k * w
    BY <2>1, <2>2, Zenon
  <2>4. c + 1 - w + m \in Nat /\ ~(c + 1 >= w)
    BY <1>3
  <2>5. QED
    BY <1>3, <2>1, <2>3, <2>4 DEF BackBy
<1>4. QED
  BY <1>2, <1>3

\* Where the device stands when n packets are on their way.
Phase(n) ==
    \/ count_pck + n = cont_chunck /\ GoodSession
    \/ count_pck + n < cont_chunck
    \/ n = 0 /\ cont_chunck = num_chunks

\* A number that whole windows and at most so many lost packets account for.
Spread(x, most) == \E lost \in 0 .. most : \E k \in Int : x = lost + k * Window

Residue(n) == Spread(cont_chunck - n - count_pck, used["lost"])

\* In a session the two ends are in step, or a window is missing that is never
\* sent again: the counts cannot meet any more, or the GUI has sent its last.
PartInv ==
    InBootloader /\ connection_status = "RECEVEING_SECURE_FW" =>
        /\ total_pck = num_chunks
        /\ Phase(Left(events, 1))
        /\ Residue(Left(events, 1))

\* A session that closed has stored every chunk.
ClosedInv ==
    InBootloader /\ connection_status = "CLOSING_CONNECTION" =>
        Placed(AppToUpdate, total_pck * SECURE_PAYLOAD_BYTES)

\* A chunk is received: what becomes of the session.
LEMMA ChunkReceived ==
    ASSUME SecureImages, TypeOK, cont_chunck \in Nat, cont_chunck <= num_chunks,
           num_chunks \in Nat, num_chunks < CountMod, total_pck = num_chunks,
           NEW n \in Nat, Phase(n + 1), UNCHANGED <<cont_chunck, num_chunks>>,
           NEW p, p.data = Chunk(cont_chunck - (n + 1), SECURE_PAYLOAD_BYTES),
           ReceiveSecure(p)
    PROVE  /\ total_pck' = total_pck
           /\ connection_status' # "CLOSING_CONNECTION" => Phase(n)'
           /\ connection_status' = "CLOSING_CONNECTION" =>
                 Placed(AppToUpdate, total_pck * SECURE_PAYLOAD_BYTES)'
           /\ \E k \in Int : count_pck' = count_pck + 1 + k * Window
<1> DEFINE data  == SecureData(p)
           taken == TakenSecure(p)
<1>1. /\ count_pck \in Nat /\ Window \in Nat \ {0} /\ SECURE_PAYLOAD_BYTES \in Nat
      /\ CountMod \in Nat
  BY HandlerAssumption DEF TypeOK, HandlerTypeOK, Count, Window
<1>2. connection_status = "RECEVEING_SECURE_FW" /\ UNCHANGED <<total_pck, AppToUpdate>>
  BY DEF ReceiveSecure
<1>3. \/ count_pck + (n + 1) = cont_chunck /\ GoodSession
      \/ count_pck + (n + 1) < cont_chunck
  BY DEF Phase
<1>4. count_pck + 1 < CountMod /\ count_pck + 1 + n <= cont_chunck
  BY <1>1, <1>3
<1>5. CountUp = count_pck + 1
  BY <1>1, <1>4 DEF CountUp
<1>6. count_pck + (n + 1) = cont_chunck => p.data = Chunk(count_pck, SECURE_PAYLOAD_BYTES)
  <2>1. count_pck + (n + 1) = cont_chunck => cont_chunck - (n + 1) = count_pck
    BY <1>1
  <2>2. QED
    BY <2>1
<1>7. \/ ~WindowEnds(Window) /\ AddToWindow(taken, data)
      \/ WindowEnds(Window) /\ RefuseWindow(taken, data, Window)
      \/ WindowEnds(Window) /\ \E ret \in BOOLEAN : WriteWindow(taken, data, Window, ret)
  BY DEF ReceiveSecure, Window
<1>8. \E k \in Int : count_pck + 1 = count_pck + 1 + k * Window
  <2>1. 0 \in Int /\ count_pck + 1 = count_pck + 1 + 0 * Window
    BY <1>1
  <2>2. QED
    BY <2>1
<1> HIDE DEF data, taken
<1>9. CASE ~WindowEnds(Window) /\ AddToWindow(taken, data)
  <2>1. count_pck' = count_pck + 1 /\ UNCHANGED connection_status
    BY <1>5, <1>9 DEF AddToWindow
  <2>2. count_pck + (n + 1) = cont_chunck /\ GoodSession => GoodSession'
    BY <1>2, <1>5, <1>6, <1>9, ChunkAdded DEF data, taken
  <2>3. Phase(n)'
    <3>1. \/ count_pck' + n = cont_chunck' /\ GoodSession'
          \/ count_pck' + n < cont_chunck'
      BY <1>1, <1>3, <2>1, <2>2
    <3>2. QED
      BY <3>1 DEF Phase
  <2>4. QED
    BY <1>2, <1>8, <2>1, <2>3
<1>10. ASSUME WindowEnds(Window), count_pck' = SetBack(Window), NewWindow(taken, data)
       PROVE  /\ Phase(n)' /\ connection_status' # "CLOSING_CONNECTION"
              /\ \E k \in Int : count_pck' = count_pck + 1 + k * Window
  <2>1. /\ count_pck' \in Nat
        /\ count_pck + 1 >= Window => count_pck' = count_pck + 1 - Window
        /\ count_pck + 1 < Window => count_pck' = count_pck + 1 - Window + CountMod
        /\ \E k \in Int : count_pck' = count_pck + 1 + k * Window
    <3>1. count_pck' = (count_pck + 1 - Window) % CountMod
      <4>1. count_pck + 1 - Window = CountUp - Window
        BY <1>1, <1>5
      <4>2. QED
        BY <1>10, <4>1 DEF SetBack
    <3>2. Window < CountMod /\ CountMod % Window = 0
      BY DEF SecureImages
    <3>3. BackBy((count_pck + 1 - Window) % CountMod, count_pck, Window, CountMod)
      BY <1>1, <1>4, <3>2, SetBackValue, Zenon
    <3>4. BackBy(count_pck', count_pck, Window, CountMod)
      BY <3>1, <3>3
    <3>5. QED
      BY <3>4, Zenon DEF BackBy
  <2>2. CASE count_pck + 1 >= Window
    <3>1. count_pck' + n < cont_chunck' /\ count_pck' # total_pck'
      BY <1>1, <1>2, <1>4, <2>1, <2>2
    <3>2. QED
      BY <1>2, <1>10, <2>1, <3>1 DEF Phase, NewWindow
  <2>3. CASE count_pck + 1 < Window
    <3>1. count_pck + 1 = total_pck
      <4>1. (count_pck + 1) % Window = count_pck + 1
        BY <1>1, <2>3
      <4>2. QED
        BY <1>1, <1>5, <1>10, <4>1 DEF WindowEnds
    <3>2. n = 0 /\ cont_chunck' = num_chunks'
      BY <1>1, <1>4, <3>1
    <3>3. count_pck' # total_pck'
      BY <1>1, <1>2, <2>1, <2>3, <3>1 DEF SecureImages
    <3>4. QED
      BY <1>2, <1>10, <2>1, <3>2, <3>3 DEF Phase, NewWindow
  <2>4. QED
    BY <1>1, <2>2, <2>3
<1>11. CASE WindowEnds(Window) /\ RefuseWindow(taken, data, Window)
  BY <1>2, <1>10, <1>11 DEF RefuseWindow
<1>12. CASE WindowEnds(Window) /\ WriteWindow(taken, data, Window, FALSE)
  BY <1>2, <1>10, <1>12 DEF WriteWindow
<1>13. CASE WindowEnds(Window) /\ WriteWindow(taken, data, Window, TRUE)
  <2>1. /\ count_pck' = count_pck + 1
        /\ connection_status' = IF count_pck' = total_pck THEN "CLOSING_CONNECTION"
                                ELSE connection_status
    BY <1>5, <1>13 DEF WriteWindow, NewWindow
  <2>2. CASE count_pck + (n + 1) = cont_chunck /\ GoodSession
    <3>1. /\ Placed(AppToUpdate, count_pck * SECURE_PAYLOAD_BYTES)'
          /\ (count_pck + 1) % Window = 0 => GoodSession'
      BY <1>2, <1>5, <1>6, <1>13, <2>2, WindowStored DEF data, taken
    <3>2. CASE count_pck' = total_pck
      <4>1. total_pck' = count_pck'
        BY <1>2, <3>2
      <4>2. Placed(AppToUpdate, total_pck * SECURE_PAYLOAD_BYTES)'
        BY <3>1, <4>1 DEF Placed
      <4>3. QED
        BY <1>2, <1>8, <2>1, <3>2, <4>2
    <3>3. CASE count_pck' # total_pck
      <4>1. (count_pck + 1) % Window = 0
        BY <1>5, <1>13, <2>1, <3>3 DEF WindowEnds
      <4>2. Phase(n)'
        <5>1. count_pck' + n = cont_chunck' /\ GoodSession'
          BY <1>1, <2>1, <2>2, <3>1, <4>1
        <5>2. QED
          BY <5>1 DEF Phase
      <4>3. QED
        BY <1>2, <1>8, <2>1, <3>3, <4>2
    <3>4. QED
      BY <3>2, <3>3
  <2>3. CASE count_pck + (n + 1) < cont_chunck
    <3>1. count_pck' + n < cont_chunck' /\ count_pck' # total_pck
      BY <1>1, <2>1, <2>3
    <3>2. Phase(n)'
      BY <3>1 DEF Phase
    <3>3. QED
      BY <1>2, <1>8, <2>1, <3>1, <3>2
  <2>4. QED
    BY <1>3, <2>2, <2>3
<1>14. QED
  BY <1>7, <1>9, <1>11, <1>12, <1>13

\* Whole windows and further losses account for what they add.
LEMMA SpreadMoves ==
    ASSUME NEW x, NEW most \in Nat, Spread(x, most), NEW d \in Nat, NEW more \in Nat,
           most + d <= more, NEW j \in Int, NEW y, y = x + (d + j * Window)
    PROVE  Spread(y, more)
<1>1. PICK lost \in 0 .. most, k \in Int : x = lost + k * Window
  BY DEF Spread
<1>2. Window \in Nat
  BY HandlerAssumption DEF Window
<1>3. PICK l \in 0 .. more, i \in Int : l = lost + d /\ i = k + j
  <2>1. lost + d \in 0 .. more /\ k + j \in Int
    OBVIOUS
  <2>2. QED
    BY <2>1
<1>4. i * Window = k * Window + j * Window /\ k * Window \in Int /\ j * Window \in Int
  BY <1>2, <1>3
<1>5. y = l + i * Window
  BY <1>1, <1>3, <1>4
<1>6. QED
  BY <1>5, Zenon DEF Spread

\* A session in step stays so while the device does not move.
LEMMA SessionStays ==
    ASSUME GoodSession,
           UNCHANGED <<flash, StartPageAddress, AppToUpdate, flash_buff, count_pck, next_ack>>
    PROVE  GoodSession'
<1>1. PICK b \in Nat :
        /\ StartPageAddress = Base(AppToUpdate) + b
        /\ b * DW = WindowStart(count_pck) * SECURE_PAYLOAD_BYTES
        /\ Placed(AppToUpdate, b * DW)
        /\ next_ack => Fits(flash_buff, b * DW, (count_pck % Window) * SECURE_PAYLOAD_BYTES)
  BY DEF GoodSession
<1>2. Placed(AppToUpdate, b * DW)'
  BY <1>1, Zenon DEF Placed
<1>3. \E d \in Nat :
        /\ StartPageAddress' = Base(AppToUpdate') + d
        /\ d * DW = WindowStart(count_pck') * SECURE_PAYLOAD_BYTES
        /\ Placed(AppToUpdate, d * DW)'
        /\ next_ack' => Fits(flash_buff', d * DW, (count_pck' % Window) * SECURE_PAYLOAD_BYTES)
  BY <1>1, <1>2
<1>4. QED
  BY <1>3, Zenon DEF GoodSession

\* The other steps: the device's session stays as it is, and the counts of the
\* GUI and of the queue move together, but for a packet lost.
LEMMA PartKept ==
    ASSUME PartInv, UNCHANGED <<flashVars, running, windowVars, connection_status, total_pck,
                                AppToUpdate, num_chunks>>,
           count_pck \in Nat, cont_chunck \in Nat, cont_chunck' \in Nat,
           NEW n \in Nat, n = Left(events, 1), NEW m \in Nat, m = Left(events', 1),
           NEW d \in {0, 1}, cont_chunck' - m = cont_chunck - n + d,
           used["lost"] \in Nat, used'["lost"] \in Nat, used["lost"] + d <= used'["lost"],
           n = 0 /\ cont_chunck = num_chunks => m = 0 /\ cont_chunck' = num_chunks
    PROVE  PartInv'
<1> SUFFICES ASSUME InBootloader, connection_status = "RECEVEING_SECURE_FW"
             PROVE  total_pck' = num_chunks' /\ Phase(m)' /\ Residue(m)'
  BY DEF PartInv
<1>1. total_pck = num_chunks /\ Phase(n) /\ Residue(n)
  BY DEF PartInv
<1>2. UNCHANGED <<flash, StartPageAddress, AppToUpdate, flash_buff, count_pck, next_ack>>
  BY DEF flashVars, windowVars
<1>3. Phase(m)'
  <2>1. CASE count_pck + n = cont_chunck /\ GoodSession
    <3>1. GoodSession'
      BY <1>2, <2>1, SessionStays
    <3>2. count_pck' + m = cont_chunck' \/ count_pck' + m < cont_chunck'
      BY <1>2, <2>1
    <3>3. QED
      BY <3>1, <3>2 DEF Phase
  <2>2. CASE count_pck + n < cont_chunck
    <3>1. count_pck' + m < cont_chunck'
      BY <1>2, <2>2
    <3>2. QED
      BY <3>1 DEF Phase
  <2>3. CASE n = 0 /\ cont_chunck = num_chunks
    BY <2>3 DEF Phase
  <2>4. QED
    BY <1>1, <2>1, <2>2, <2>3 DEF Phase
<1>4. Residue(m)'
  <2>1. PICK x : x = cont_chunck - n - count_pck /\ x \in Int
    OBVIOUS
  <2>2. PICK y : y = cont_chunck' - m - count_pck' /\ y = x + d
    BY <1>2, <2>1
  <2>3. 0 * Window = 0
    BY HandlerAssumption DEF Window
  <2>4. y = x + (d + 0 * Window) /\ d \in Nat /\ 0 \in Int
    BY <2>1, <2>2, <2>3
  <2>5. Spread(x, used["lost"])
    BY <1>1, <2>1 DEF Residue
  <2>6. Spread(y, used'["lost"])
    BY <2>4, <2>5, SpreadMoves
  <2>7. QED
    BY <2>2, <2>6 DEF Residue
<1>5. QED
  BY <1>1, <1>3, <1>4

\* What the invariants of the two sides say of a step.
SecureInv == SendInv /\ LinkInv /\ QueueInv /\ PartInv /\ ClosedInv

\* The counts, before and after a step.
LEMMA Counts ==
    ASSUME TypeOK, SendInv, TypeOK', SendInv'
    PROVE  /\ count_pck \in Nat /\ cont_chunck \in Nat /\ cont_chunck' \in Nat
           /\ events \in Seq(Event) /\ events' \in Seq(Event)
           /\ Left(events, 1) \in Nat /\ Left(events', 1) \in Nat
           /\ used["lost"] \in Nat /\ used'["lost"] \in Nat
<1>1. count_pck \in Nat
  BY HandlerAssumption DEF TypeOK, HandlerTypeOK, Count
<1>2. /\ cont_chunck \in Nat /\ events \in Seq(Event) /\ used["lost"] \in Nat
  BY ChunkNumbers DEF SendInv, Spendings
<1>3. events' \in Seq(Event) /\ used'["lost"] \in Nat
  BY DEF SendInv, Spendings
<1>4. cont_chunck' \in Nat
  <2>1. \A t \in Totals \cup {0} : t \in Nat
    BY HandlerAssumption, ClientAssumption DEF Count
  <2>2. QED
    BY <2>1 DEF SendInv
<1>5. QED
  BY <1>1, <1>2, <1>3, <1>4, LeftCount

\* A packet handled: a request starts a session, a chunk moves it on.
LEMMA PartHandled ==
    ASSUME SecureUpdates, SecureImages, TypeOK, TypeOK', SessionInv, SecureInv, SendInv',
           HCI_Event_CB, NEW p \in Sent, Head(events) = Modified(p),
           Attribute_Modified_CB(p)
    PROVE  PartInv' /\ ClosedInv'
<1> USE EventKinds
<1>1. SendInv /\ QueueInv /\ PartInv /\ ClosedInv
  BY DEF SecureInv
<1>2. /\ running = "bootloader" /\ data_handler(p)
      /\ p.cmd = "START_SECURE_FLASH_MODE" => ~Receiving
  BY DEF Attribute_Modified_CB, Sent, Packet, StartPacket, RawPacket, SecurePacket, MasterNak
<1>3. /\ events # <<>> /\ events' = Tail(events)
      /\ UNCHANGED <<link, num_chunks, cont_chunck>>
      /\ 1 \in 1 .. Len(events) /\ events[1] = Modified(p)
  <2>1. events # <<>> /\ events' = Tail(events) /\ UNCHANGED <<link, num_chunks, cont_chunck>>
    BY DEF HCI_Event_CB, guiVars, formVars, loopVars
  <2>2. QED
    BY <2>1, Shorter, Counts, <1>1
<1>4. /\ count_pck \in Nat /\ cont_chunck \in Nat /\ cont_chunck' \in Nat
      /\ events \in Seq(Event) /\ Left(events, 1) \in Nat /\ Left(events', 1) \in Nat
      /\ used["lost"] \in Nat /\ used'["lost"] \in Nat
      /\ cont_chunck <= num_chunks /\ num_chunks \in Nat /\ num_chunks < CountMod
  BY <1>1, Counts, ChunkNumbers
<1>5. used["lost"] <= used'["lost"]
  <2>1. \A b : Spend("lost", b) => used'["lost"] = used["lost"] + 1
    BY <1>1, Spent DEF SendInv, Spendings
  <2>2. QED
    BY <1>4, <2>1 DEF HCI_Event_CB, Notify
<1>6. PICK n \in Nat : n = Left(events', 1)
  BY <1>4
<1>7. /\ IsSecure(Modified(p)) => Left(events, 1) = n + 1
      /\ ~IsSecure(Modified(p)) => Left(events, 1) = n
  <2>1. Left(events, 1) = n + (IF IsSecure(Modified(p)) THEN 1 ELSE 0)
    BY <1>3, <1>4, <1>6, LeftTaken
  <2>2. QED
    BY <1>6, <2>1
<1>8. IsSecure(Modified(p)) <=> p.cmd = "WRITE_SECURE_FLASH_PACKET"
  BY DEF IsSecure
<1>9. p.cmd \in {"START_SECURE_FLASH_MODE", "WRITE_SECURE_FLASH_PACKET", "MASTER_NAK"}
  BY DEF SecureUpdates, Sent
<1>10. CASE StartSecure(p) /\ UNCHANGED running
  <2>1. connection_status' \in {"CONNECTED", "RECEVEING_SECURE_FW"}
    BY <1>10 DEF StartSecure, StartFlash
  <2>2. CASE connection_status' = "RECEVEING_SECURE_FW"
    <3>1. total_pck' = p.total /\ count_pck' = 0 /\ GoodSession'
      BY <1>2, <1>10, <2>2, SessionStarts
    <3>2. p.cmd = "START_SECURE_FLASH_MODE"
      BY <1>10 DEF StartSecure
    <3>3. IsRequest(events[1]) /\ events[1].packet = p
      BY <1>3, <3>2 DEF IsRequest
    <3>4. p.total = num_chunks /\ Left(events, 1) = cont_chunck
      BY <1>1, <1>3, <3>3 DEF QueueInv
    <3>5. n = cont_chunck'
      BY <1>3, <1>7, <1>8, <3>2, <3>4
    <3>6. Phase(n)'
      <4>1. count_pck' + n = cont_chunck'
        <5>1. count_pck' = 0 /\ 0 + n = n
          BY <3>1
        <5>2. QED
          BY <3>5, <5>1
      <4>2. QED
        BY <3>1, <4>1 DEF Phase
    <3>7. Residue(n)'
      <4>1. cont_chunck' - n - count_pck' = 0 + 0 * Window
        <5>1. count_pck' = 0 /\ n - n - 0 = 0
          BY <3>1
        <5>2. 0 + 0 * Window = 0
          BY HandlerAssumption DEF Window
        <5>3. QED
          BY <3>5, <5>1, <5>2
      <4>2. 0 \in 0 .. used'["lost"] /\ 0 \in Int
        BY <1>4
      <4>3. Spread(cont_chunck' - n - count_pck', used'["lost"])
        BY <4>1, <4>2, Zenon DEF Spread
      <4>4. QED
        BY <4>3 DEF Residue
    <3>8. QED
      BY <1>3, <1>6, <2>2, <3>1, <3>4, <3>6, <3>7 DEF PartInv, ClosedInv
  <2>3. CASE connection_status' = "CONNECTED"
    BY <2>3 DEF PartInv, ClosedInv
  <2>4. QED
    BY <2>1, <2>2, <2>3
<1>11. CASE (StartRefused(p) \/ IgnorePacket) /\ UNCHANGED running
  <2>1. connection_status \notin {"RECEVEING_SECURE_FW"} /\ UNCHANGED connection_status
        /\ UNCHANGED <<flash, total_pck, AppToUpdate>>
    BY <1>11 DEF StartRefused, IgnorePacket, flashVars
  <2>2. ClosedInv'
    BY <1>1, <1>11, <2>1 DEF ClosedInv, Placed
  <2>3. QED
    BY <2>1, <2>2 DEF PartInv
<1>12. CASE ResendAck(p) /\ UNCHANGED running
  <2>1. /\ UNCHANGED <<flashVars, running, windowVars, connection_status, total_pck,
                       AppToUpdate, num_chunks>>
        /\ connection_status = "RECEVEING_SECURE_FW" /\ p.cmd = "MASTER_NAK"
    BY <1>3, <1>12 DEF ResendAck
  <2>2. Left(events, 1) = n
    BY <1>7, <1>8, <2>1
  <2>3. 0 \in {0, 1} /\ cont_chunck' - n = cont_chunck - n + 0
        /\ used["lost"] + 0 <= used'["lost"]
    BY <1>3, <1>4, <1>5
  <2>4. PartInv'
    BY <1>1, <1>3, <1>4, <1>6, <2>1, <2>2, <2>3, PartKept
  <2>5. QED
    BY <2>1, <2>4 DEF ClosedInv
<1>13. CASE ReceiveSecure(p) /\ UNCHANGED running
  <2>1. connection_status = "RECEVEING_SECURE_FW" /\ p.cmd # "MASTER_NAK"
    BY <1>13 DEF ReceiveSecure
  <2>2. p.cmd = "WRITE_SECURE_FLASH_PACKET" /\ Left(events, 1) = n + 1
    BY <1>2, <1>7, <1>8, <1>9, <2>1
  <2>3. p.data = Chunk(cont_chunck - (n + 1), SECURE_PAYLOAD_BYTES)
    <3>1. IsSecure(events[1]) /\ events[1].packet = p
      BY <1>3, <1>8, <2>2
    <3>2. QED
      BY <1>1, <1>3, <2>2, <3>1 DEF QueueInv
  <2>4. total_pck = num_chunks /\ Phase(n + 1) /\ Residue(n + 1)
    BY <1>1, <1>2, <2>1, <2>2 DEF PartInv
  <2>5. /\ total_pck' = total_pck
        /\ connection_status' # "CLOSING_CONNECTION" => Phase(n)'
        /\ connection_status' = "CLOSING_CONNECTION" =>
              Placed(AppToUpdate, total_pck * SECURE_PAYLOAD_BYTES)'
        /\ \E k \in Int : count_pck' = count_pck + 1 + k * Window
    <3>1. UNCHANGED <<cont_chunck, num_chunks>>
      BY <1>3
    <3>2. QED
      BY <1>4, <1>13, <2>3, <2>4, <3>1, ChunkReceived
  <2>6. PICK k \in Int : count_pck' = count_pck + 1 + k * Window
    BY <2>5
  <2>7. Residue(n)'
    <3>1. PICK x : x = cont_chunck - (n + 1) - count_pck
      OBVIOUS
    <3>2. PICK j \in Int : j = 0 - k
      OBVIOUS
    <3>3. Window \in Nat
      BY HandlerAssumption DEF Window
    <3>4. cont_chunck' - n - count_pck' = x + (0 + j * Window)
      <4>1. j * Window = 0 - k * Window /\ k * Window \in Int
        BY <3>2, <3>3
      <4>2. PICK z \in Int : z = k * Window
        BY <4>1
      <4>3. count_pck' = count_pck + 1 + z /\ j * Window = 0 - z
        BY <2>6, <4>1, <4>2
      <4>4. QED
        BY <1>3, <1>4, <3>1, <4>2, <4>3
    <3>5. Spread(x, used["lost"])
      BY <2>4, <3>1 DEF Residue
    <3>6. used["lost"] + 0 <= used'["lost"]
      BY <1>4, <1>5
    <3>7. Spread(cont_chunck' - n - count_pck', used'["lost"])
      BY <1>4, <3>4, <3>5, <3>6, SpreadMoves
    <3>8. QED
      BY <3>7 DEF Residue
  <2>8. PartInv'
    BY <1>3, <1>6, <2>4, <2>5, <2>7 DEF PartInv
  <2>9. QED
    BY <2>5, <2>8 DEF ClosedInv
<1>14. CASE OverrunSecure(p) \/ OverrunRaw(p)
  BY <1>14 DEF OverrunSecure, OverrunRaw, Overrun, PartInv, ClosedInv
<1>15. CASE StartRaw(p) \/ ReceiveRaw(p)
  BY <1>1, <1>9, <1>15 DEF StartRaw, ReceiveRaw, QueueInv
<1>16. QED
  BY <1>2, <1>10, <1>11, <1>12, <1>13, <1>14, <1>15 DEF data_handler

\* A session that closed stays so while the flash and the radio do.
LEMMA ClosedKept ==
    ASSUME ClosedInv, UNCHANGED <<flash, running, connection_status, total_pck, AppToUpdate>>
    PROVE  ClosedInv'
BY DEF ClosedInv, Placed

\* An event that joins the queue is counted.
LEMMA LeftJoined ==
    ASSUME events \in Seq(Event), NEW e, events' = Append(events, e)
    PROVE  Left(events', 1) = Left(events, 1) + (IF IsSecure(e) THEN 1 ELSE 0)
<1>1. \A i \in 1 .. Len(events) + 1 :
         Left(events', i) = Left(events, i) + (IF IsSecure(e) THEN 1 ELSE 0)
  BY LeftWritten
<1>2. 1 \in 1 .. Len(events) + 1
  OBVIOUS
<1>3. QED
  BY <1>1, <1>2

\* Every step keeps the session in step, or past the point of completing.
LEMMA PartStep ==
    ASSUME SecureUpdates, SecureImages, TypeOK, TypeOK', SessionInv, SecureInv, SendInv',
           [SecureNext]_allSecureVars
    PROVE  PartInv' /\ ClosedInv'
<1> USE EventKinds, PacketKinds
<1>1. SendInv /\ LinkInv /\ QueueInv /\ PartInv /\ ClosedInv
  BY DEF SecureInv
<1>2. /\ count_pck \in Nat /\ cont_chunck \in Nat /\ cont_chunck' \in Nat
      /\ events \in Seq(Event) /\ Left(events, 1) \in Nat /\ Left(events', 1) \in Nat
      /\ used["lost"] \in Nat /\ used'["lost"] \in Nat
      /\ 1 \in 1 .. Len(events) + 1
  <2>1. Len(events) \in Nat
    BY <1>1 DEF SendInv
  <2>2. QED
    BY <1>1, <2>1, Counts
<1>3. PICK n \in Nat, m \in Nat : n = Left(events, 1) /\ m = Left(events', 1)
  BY <1>2
<1> DEFINE Device == UNCHANGED <<flashVars, running, windowVars, connection_status,
                                 total_pck, AppToUpdate>>
           Kept   == Device /\ UNCHANGED <<num_chunks, cont_chunck>>
<1>4. UNCHANGED deviceVars => Device
  BY DEF deviceVars, handlerVars
<1>5. Device => ClosedInv'
  BY <1>1, ClosedKept DEF flashVars
<1>6. ASSUME Kept, m = n, used["lost"] <= used'["lost"] PROVE PartInv' /\ ClosedInv'
  <2>1. 0 \in {0, 1} /\ cont_chunck' - m = cont_chunck - n + 0
        /\ used["lost"] + 0 <= used'["lost"]
    BY <1>2, <1>3, <1>6
  <2>2. PartInv'
    BY <1>1, <1>2, <1>3, <1>6, <2>1, PartKept
  <2>3. QED
    BY <1>5, <1>6, <2>2
<1> HIDE DEF Device
<1>7. ASSUME Device, connection_status # "RECEVEING_SECURE_FW" PROVE PartInv' /\ ClosedInv'
  BY <1>5, <1>7 DEF PartInv, Device
<1>8. ASSUME NEW e, events' = Append(events, e) PROVE m = n + (IF IsSecure(e) THEN 1 ELSE 0)
  BY <1>2, <1>3, <1>8, LeftJoined
<1>9. ASSUME HCI_Event_CB PROVE PartInv' /\ ClosedInv'
  <2>1. CASE GAP_ConnectionComplete_CB \/ GAP_DisconnectionComplete_CB
    BY <2>1 DEF GAP_ConnectionComplete_CB, GAP_DisconnectionComplete_CB, PartInv, ClosedInv
  <2>2. QED
    BY <1>2, <1>9, <2>1, HandledPacket, PartHandled
<1>10. CASE Enable_Advertising /\ UNCHANGED <<link, events, notes, guiVars, used>>
  <2>1. Kept /\ m = n /\ UNCHANGED used
    BY <1>3, <1>10 DEF Enable_Advertising, guiVars, formVars, loopVars, Device
  <2>2. QED
    BY <1>2, <1>6, <2>1
<1>11. CASE DropEvent
  <2>1. /\ events # <<>> /\ events' = Tail(events) /\ Head(events) = events[1]
        /\ 1 \in 1 .. Len(events)
        /\ UNCHANGED <<link, num_chunks, cont_chunck>>
    BY <1>2, <1>11, Shorter DEF DropEvent, guiVars, formVars, loopVars
  <2>2. used'["lost"] = used["lost"] + 1
    BY <1>1, <1>11, Spent DEF DropEvent, SendInv, Spendings
  <2>3. CASE Head(events) = ConnComplete
    <3>1. connection_status = "IDLE"
      BY <1>1, <2>1, <2>3 DEF LinkInv
    <3>2. Device
      BY <1>11, <2>3 DEF DropEvent, ConnectionMissed, Device
    <3>3. QED
      BY <1>7, <3>1, <3>2
  <2>4. CASE Head(events) # ConnComplete /\ ~IsSecure(Head(events))
    <3>1. Kept
      BY <1>4, <1>11, <2>1, <2>4 DEF DropEvent
    <3>2. n = m + 0
      BY <1>2, <1>3, <2>1, <2>4, LeftTaken
    <3>3. m = n /\ used["lost"] <= used'["lost"]
      BY <1>2, <2>2, <3>2
    <3>4. QED
      BY <1>6, <3>1, <3>3
  <2>5. CASE Head(events) # ConnComplete /\ IsSecure(Head(events))
    <3>1. Kept
      BY <1>4, <1>11, <2>1, <2>5 DEF DropEvent
    <3>2. n = m + 1
      BY <1>2, <1>3, <2>1, <2>5, LeftTaken
    <3>3. 1 \in {0, 1} /\ cont_chunck' - m = cont_chunck - n + 1 /\ n # 0
          /\ used["lost"] + 1 <= used'["lost"]
      BY <1>2, <2>1, <2>2, <3>2
    <3>4. PartInv'
      BY <1>1, <1>2, <1>3, <3>1, <3>3, PartKept DEF Device
    <3>5. QED
      BY <1>5, <3>1, <3>4
  <2>6. QED
    BY <2>3, <2>4, <2>5
<1>12. CASE DeviceReset
  BY <1>12 DEF DeviceReset, Reset, PartInv, ClosedInv
<1>13. ASSUME DeviceStays, UNCHANGED cont_chunck PROVE Kept /\ used["lost"] <= used'["lost"]
  BY <1>2, <1>4, <1>13 DEF DeviceStays
<1>14. CASE Ended
  <2>1. m = n
    <3>1. CASE link
      <4>1. m = n + 0
        BY <1>8, <1>14, <3>1 DEF Ended
      <4>2. QED
        BY <4>1
    <3>2. CASE ~link
      BY <1>3, <1>14, <3>2 DEF Ended
    <3>3. QED
      BY <3>1, <3>2
  <2>2. QED
    BY <1>6, <1>13, <1>14, <2>1 DEF Ended
<1>15. CASE Quiet
  BY <1>3, <1>6, <1>13, <1>15 DEF Quiet
<1>16. CASE WroteNak
  <2>1. m = n + 0
    BY <1>8, <1>16 DEF WroteNak, Wrote
  <2>2. m = n
    BY <2>1
  <2>3. QED
    BY <1>6, <1>13, <1>16, <2>2 DEF WroteNak, Wrote
<1>17. CASE WroteRequest
  <2>1. connection_status # "RECEVEING_SECURE_FW"
    BY <1>1, <1>17 DEF WroteRequest, Wrote, QueueInv, Unasked
  <2>2. QED
    BY <1>4, <1>7, <1>17, <2>1 DEF WroteRequest, Wrote, DeviceStays
<1>18. CASE WroteChunk
  <2>1. PICK iv, num : Wrote(Firmware(iv, num, cont_chunck))
    BY <1>18 DEF WroteChunk
  <2>2. m = n + 1
    BY <1>8, <2>1 DEF Wrote
  <2>3. /\ Device /\ UNCHANGED num_chunks /\ used'["lost"] = used["lost"]
        /\ cont_chunck' = cont_chunck + 1 /\ cont_chunck < num_chunks
    BY <1>4, <1>18, <2>1 DEF WroteChunk, Wrote, DeviceStays
  <2>4. 0 \in {0, 1} /\ cont_chunck' - m = cont_chunck - n + 0
        /\ used["lost"] + 0 <= used'["lost"] /\ cont_chunck # num_chunks
    <3>1. num_chunks \in Nat
      BY <1>1, ChunkNumbers
    <3>2. QED
      BY <1>2, <2>2, <2>3, <3>1
  <2>5. PartInv'
    BY <1>1, <1>2, <1>3, <2>3, <2>4, PartKept DEF Device
  <2>6. QED
    BY <1>5, <2>3, <2>5
<1>19. CASE Started
  <2>1. connection_status = "IDLE" /\ Device
    BY <1>1, <1>2, <1>4, <1>19, StartsEmpty DEF Started
  <2>2. QED
    BY <1>7, <2>1
<1>20. QED
  BY <1>1, <1>9, <1>10, <1>11, <1>12, <1>14, <1>15, <1>16, <1>17, <1>18, <1>19, StepKinds

\* The two sides together keep SecureInv.
LEMMA SecureInductive ==
    ASSUME SecureUpdates, SecureImages
    PROVE  SecureSpec => [](TypeOK /\ SecureInv)
<1>1. ASSUME SecureInit PROVE SecureInv
  <2>1. /\ events = <<>> /\ ~link /\ ~advertising /\ connection_status = "IDLE"
        /\ cont_chunck = 0 /\ gui = "IDLE"
    BY <1>1 DEF SecureInit, UploadInit, Init, HandlerInit
  <2>2. events \in Seq(Event) /\ Len(events) = 0
    BY <2>1
  <2>3. Left(events, 1) = 0
    BY <2>1, <2>2, LeftCount
  <2>4. LinkInv /\ QueueInv /\ PartInv /\ ClosedInv
    BY <2>1, <2>2, <2>3 DEF LinkInv, QueueInv, PartInv, ClosedInv, Unasked
  <2>5. SendInv
    BY <1>1, SendInitial
  <2>6. QED
    BY <2>4, <2>5 DEF SecureInv
<1>2. ASSUME TypeOK /\ TypeOK' /\ SendInv' /\ SessionInv /\ SecureInv /\ [SecureNext]_allSecureVars
      PROVE  SecureInv'
  <2>1. SendInv /\ LinkInv /\ QueueInv
    BY <1>2 DEF SecureInv
  <2>2. LinkInv' /\ QueueInv' /\ PartInv' /\ ClosedInv'
    BY <1>2, <2>1, LinkStep, QueueStep, PartStep
  <2>3. QED
    BY <1>2, <2>2 DEF SecureInv
<1>3. QED
  BY <1>1, <1>2, SendInductive, SecureDeviceIsDriven, SessionInductive, PTL DEF SecureSpec

\* The packets the property counts are those of Left.
LEMMA InFlightIsLeft ==
    ASSUME events \in Seq(Event)
    PROVE  InFlight = Left(events, 1)
<1>1. Data(events) = From(events, 1)
  BY LeftCount
<1>2. QED
  BY <1>1 DEF InFlight, Left, Data

\* The four bits of a packet's number agree with the device's counter modulo a
\* window, for every image, loss, noise and refusal: the packet after a refused
\* window is taken for a first one.
THEOREM NumbersStayInStep ==
    ASSUME SecureUpdates, SecureImages
    PROVE  SecureSpec => []NumbersInStep
<1>1. TypeOK /\ SecureInv => NumbersInStep
  <2> SUFFICES ASSUME TypeOK, SecureInv, InBootloader,
                      connection_status = "RECEVEING_SECURE_FW"
               PROVE  \E lost \in 0 .. used.lost :
                         (cont_chunck - InFlight - lost - count_pck) % Window = 0
    BY DEF NumbersInStep, Window
  <2>1. SendInv /\ PartInv
    BY DEF SecureInv
  <2>2. InFlight = Left(events, 1)
    BY <2>1, InFlightIsLeft DEF SendInv
  <2>3. Spread(cont_chunck - Left(events, 1) - count_pck, used["lost"])
    BY <2>1 DEF PartInv, Residue
  <2>4. /\ cont_chunck \in Nat /\ count_pck \in Nat /\ Left(events, 1) \in Nat
        /\ used["lost"] \in Nat /\ Window \in Nat \ {0}
    <3>1. Left(events, 1) \in Nat
      BY <2>1, LeftCount DEF SendInv
    <3>2. QED
      BY <2>1, <3>1, ChunkNumbers, HandlerAssumption
      DEF SendInv, Spendings, TypeOK, HandlerTypeOK, Count, Window
  <2>5. PICK lost \in 0 .. used["lost"], k \in Int :
            cont_chunck - Left(events, 1) - count_pck = lost + k * Window
    BY <2>3 DEF Spread
  <2>6. cont_chunck - InFlight - lost - count_pck = k * Window
    <3>1. PICK z \in Int : z = k * Window
      BY <2>4
    <3>2. PICK n \in Nat : n = Left(events, 1) /\ n = InFlight
      BY <2>2, <2>4
    <3>3. lost \in Nat /\ cont_chunck - n - count_pck = lost + z
      BY <2>4, <2>5, <3>1, <3>2
    <3>4. cont_chunck - n - lost - count_pck = z
      BY <2>4, <3>3
    <3>5. QED
      BY <3>1, <3>2, <3>4
  <2>7. (k * Window) % Window = 0
    <3>1. \A x \in Int, d \in Nat \ {0} : (x * d) % d = 0
      BY SMT
    <3>2. QED
      BY <2>4, <3>1
  <2>8. QED
    BY <2>6, <2>7
<1>2. QED
  BY <1>1, SecureInductive, PTL

\* A complete secure image holds every chunk in its place, or garbage there,
\* for every image and however packets were lost, altered or refused: a device
\* that got out of step with the GUI cannot complete it.
THEOREM SecureImageInOrder ==
    ASSUME SecureUpdates, SecureImages
    PROVE  SecureSpec => []SecureOrder
<1>1. TypeOK /\ SecureInv => SecureOrder
  <2> SUFFICES ASSUME TypeOK, SecureInv, InBootloader,
                      connection_status = "CLOSING_CONNECTION"
               PROVE  Ordered(AppToUpdate, total_pck)
    BY Zenon DEF SecureOrder, Ordered
  <2>1. total_pck \in Nat
    BY HandlerAssumption DEF TypeOK, HandlerTypeOK, Count
  <2>2. Placed(AppToUpdate, total_pck * SECURE_PAYLOAD_BYTES)
    BY DEF SecureInv, ClosedInv
  <2>3. QED
    BY <2>1, <2>2, PlacedOrdered
<1>2. QED
  BY <1>1, SecureInductive, PTL
-----------------------------------------------------------------------------
(***************************************************************************)
(* The two IVs, in the first session of a GUI and of a device, and with no *)
(* message altered.  Neither end ever asks for anything twice there: a     *)
(* response that was lost leaves the GUI waiting.                          *)
(***************************************************************************)
Clean == used["sessions"] <= 1 /\ used["noise"] = 0

RawResponse == {m \in Response : m.type = "WRITE_FLASH_PACKET_RESPONSE"}

Silent     == notes = <<>> /\ ~ack_rcv
WindowSent == cont_chunck % Window = 0 \/ cont_chunck = num_chunks

\* Packets the GUI has sent of its present window.
Counted ==
    IF gui = "WAIT_ACK" /\ cont_chunck % Window = 0 THEN Window ELSE cont_chunck % Window

\* An IV after k packets.
IvAfter(iv, r, k) == (iv + k * r) % IvMod

\* A window on its way, of which n packets are left: what the device lacks of
\* the GUI's count and of its IV are those and the ones that were lost.
Flowing(n) ==
    /\ gui \in {"SENDING_CRYPTO_DATA", "WAIT_ACK"}
    /\ gui = "WAIT_ACK" => WindowSent
    /\ Silent /\ gui_rand = rand_IV
    /\ connection_status = "RECEVEING_SECURE_FW"
    /\ \E lost \in 0 .. used["lost"] :
          /\ (count_pck % Window) + n + lost = Counted
          /\ gui_iv = IvAfter(IV, rand_IV, n + lost)

\* A window, or the request, was answered: the IVs are the same, and the random
\* bytes are the same, or in the response, or lost with it.
Answered ==
    /\ gui \in {"WAIT_RESPONSE", "WAIT_ACK"}
    /\ events = <<>> /\ gui_iv = IV
    /\ cont_chunck < num_chunks =>
          /\ cont_chunck % Window = 0 /\ count_pck % Window = 0
          /\ connection_status = "RECEVEING_SECURE_FW"
    /\ \/ Silent
       \/ notes = <<>> /\ gui_rand = rand_IV
       \/ /\ ~ack_rcv
          /\ \E m \in Response :
                /\ notes = <<m>> /\ m.type = "WRITE_SECURE_FLASH_PACKET_RESPONSE"
                /\ m.iv = IV /\ m.rand = rand_IV

\* The conversation once the device has accepted the request.
AskedInv ==
    link /\ InBootloader /\ ~Unasked /\ gui # "CLOSING_PHASE" =>
        /\ ~msg_tampered
        /\ \A i \in 1 .. Len(events) : IsSecure(events[i])
        /\ Flowing(Left(events, 1)) \/ Answered

\* The request on its way, and nothing else.
Asking ==
    /\ gui \in {"INIT_CRYPTO_PHASE", "WAIT_RESPONSE"} /\ Silent /\ ~msg_tampered
    /\ gui_iv = 0
    /\ \A i \in 1 .. Len(events) : events[i] = ConnComplete \/ IsRequest(events[i])

\* Before that, and after a refusal, which the GUI cannot read.
UnaskedInv ==
    link /\ Unasked =>
        /\ IV = 0 /\ notes \in Seq(RawResponse)
        /\ ack_rcv \/ gui = "SENDING_CRYPTO_DATA" => msg_tampered
        /\ gui = "INIT_CRYPTO_PHASE" \/ (\E i \in 1 .. Len(events) : IsRequest(events[i]))
              => Asking

\* Before the first session.
Fresh ==
    used["sessions"] = 0 =>
        /\ gui = "IDLE" /\ ~link /\ events = <<>> /\ Silent /\ ~msg_tampered
        /\ gui_iv = 0 /\ IV = 0 /\ Unasked

TalkInv == Clean => Fresh /\ AskedInv /\ UnaskedInv

\* A remainder does for the number in a sum.
LEMMA ModSum ==
    ASSUME NEW b \in Nat, NEW x \in Nat, NEW m \in Nat \ {0}
    PROVE  ((b % m) + x) % m = (b + x) % m
<1> DEFINE q == b \div m
           r == b % m
<1>1. q \in Nat /\ r \in Nat /\ b = q * m + r
  BY SMT
<1> HIDE DEF q, r
<1> DEFINE p == (r + x) \div m
           t == (r + x) % m
<1>2. p \in Nat /\ t \in 0 .. m - 1 /\ r + x = p * m + t
  <2>1. r + x \in Nat
    BY <1>1
  <2>2. \A y \in Nat, d \in Nat \ {0} :
           y \div d \in Nat /\ y % d \in 0 .. d - 1 /\ y = (y \div d) * d + (y % d)
    BY SMT
  <2>3. QED
    BY <2>1, <2>2
<1> HIDE DEF p, t
<1>3. b + x = (q + p) * m + t /\ q + p \in Nat
  <2>1. PICK u \in Nat, v \in Nat : u = q * m /\ v = p * m
    BY <1>1, <1>2
  <2>2. (q + p) * m = u + v
    BY <1>1, <1>2, <2>1
  <2>3. b + x = u + v + t
    BY <1>1, <1>2, <2>1
  <2>4. QED
    BY <1>1, <1>2, <2>2, <2>3
<1>4. (b + x) % m = t
  <2>1. PICK k \in Nat, c \in Nat : k = q + p /\ c = b + x
    BY <1>3
  <2>2. c = k * m + t
    BY <1>3, <2>1
  <2>3. c % m = t
    BY <1>2, <2>2, SMT
  <2>4. QED
    BY <2>1, <2>3
<1>5. (b + x) % m = (r + x) % m
  BY <1>4 DEF t
<1>6. QED
  BY <1>5 DEF r

\* An IV moved by the device, and one moved by the GUI.
LEMMA IvMoves ==
    ASSUME NEW a \in Nat, NEW r \in Nat, NEW k \in Nat
    PROVE  /\ IvAfter((a + r) % IvMod, r, k) = IvAfter(a, r, k + 1)
           /\ (IvAfter(a, r, k) + r) % IvMod = IvAfter(a, r, k + 1)
<1>1. PICK x \in Nat : x = k * r
  OBVIOUS
<1>2. (k + 1) * r = x + r
  BY <1>1
<1>3. a + r \in Nat /\ a + x \in Nat /\ a + r + x = a + (x + r) /\ a + x + r = a + (x + r)
  BY <1>1
<1>4. ASSUME NEW m \in Nat \ {0}
      PROVE  /\ (((a + r) % m) + x) % m = (a + r + x) % m
             /\ (((a + x) % m) + r) % m = (a + x + r) % m
  BY <1>1, <1>3, ModSum
<1>5. QED
  BY <1>1, <1>2, <1>3, <1>4, HandlerAssumption DEF IvAfter

\* The GUI sends a chunk of its window.
LEMMA FlowSent ==
    ASSUME SecureUpdates, TypeOK, SendInv, SendSecureChunk, ~Raise,
           used'["noise"] = used["noise"], NEW n \in Nat, Flowing(n)
    PROVE  UNCHANGED used /\ Flowing(n + 1)'
<1>1. /\ UNCHANGED <<notes, ack_rcv, num_chunks, deviceVars, gui_rand>>
      /\ gui = "SENDING_CRYPTO_DATA" /\ cont_chunck' = cont_chunck + 1
      /\ gui' = IF cont_chunck' % Window = 0 \/ cont_chunck' = num_chunks
                THEN "WAIT_ACK" ELSE "SENDING_CRYPTO_DATA"
      /\ UNCHANGED used \/ Spend("noise", MaxNoise)
  BY ChunkWritten DEF formVars, ackVars
<1>2. UNCHANGED used
  BY <1>1 DEF Spend, SendInv, Spendings
<1>3. UNCHANGED <<connection_status, IV, rand_IV, count_pck>>
  BY <1>1 DEF deviceVars, handlerVars, windowVars, cryptoVars
<1>4. cont_chunck \in Nat /\ Window \in Nat \ {0} /\ count_pck \in Nat
      /\ IV \in Nat /\ rand_IV \in Nat /\ IvMod \in Nat \ {0} /\ used["lost"] \in Nat
  BY HandlerAssumption, ChunkNumbers
  DEF TypeOK, HandlerTypeOK, Count, Iv, Window, SendInv, Spendings
<1>5. Counted' = Counted + 1
  <2>1. Counted = cont_chunck % Window
    BY <1>1 DEF Counted
  <2>2. CASE (cont_chunck + 1) % Window = 0
    <3>1. cont_chunck % Window = Window - 1
      BY <1>4, <2>2, WindowEnd
    <3>2. Counted' = Window
      BY <1>1, <2>2 DEF Counted, Window
    <3>3. QED
      BY <1>4, <2>1, <3>1, <3>2
  <2>3. CASE (cont_chunck + 1) % Window # 0
    <3>1. (cont_chunck + 1) % Window = (cont_chunck % Window) + 1
      BY <1>4, <2>3, ModStep
    <3>2. Counted' = (cont_chunck + 1) % Window
      BY <1>1, <2>3 DEF Counted, Window
    <3>3. QED
      BY <2>1, <3>1, <3>2
  <2>4. QED
    BY <2>2, <2>3
<1>6. PICK lost \in 0 .. used["lost"] :
          /\ (count_pck % Window) + n + lost = Counted
          /\ gui_iv = IvAfter(IV, rand_IV, n + lost)
  BY DEF Flowing
<1>7. (count_pck % Window) + (n + 1) + lost = Counted'
  <2>1. PICK c \in Nat : c = count_pck % Window
    BY <1>4, StartFacts
  <2>2. c + (n + 1) + lost = c + n + lost + 1
    BY <1>4
  <2>3. QED
    BY <1>5, <1>6, <2>1, <2>2
<1>8. gui_iv' = IvAfter(IV, rand_IV, (n + 1) + lost)
  <2>1. gui_iv' = (gui_iv + rand_IV) % IvMod
    BY DEF SendSecureChunk, Flowing
  <2>2. PICK k \in Nat : k = n + lost /\ k + 1 = (n + 1) + lost
    BY <1>4
  <2>3. (IvAfter(IV, rand_IV, k) + rand_IV) % IvMod = IvAfter(IV, rand_IV, k + 1)
    BY <1>4, IvMoves
  <2>4. QED
    BY <1>6, <2>1, <2>2, <2>3
<1>9. /\ gui' \in {"SENDING_CRYPTO_DATA", "WAIT_ACK"} /\ (gui' = "WAIT_ACK" => WindowSent')
      /\ Silent' /\ gui_rand' = rand_IV'
      /\ connection_status' = "RECEVEING_SECURE_FW"
  BY <1>1, <1>3 DEF Flowing, WindowSent, Silent, Window
<1>10. \E l \in 0 .. used'["lost"] :
          /\ (count_pck' % Window) + (n + 1) + l = Counted'
          /\ gui_iv' = IvAfter(IV', rand_IV', (n + 1) + l)
  BY <1>2, <1>3, <1>7, <1>8
<1>11. QED
  BY <1>2, <1>9, <1>10, Zenon DEF Flowing, Window

\* A GUI that goes on has nothing on its way.
LEMMA FlowBegins ==
    ASSUME TypeOK, SendInv, Answered, notes = <<>>, gui_rand = rand_IV,
           cont_chunck < num_chunks, gui' = "SENDING_CRYPTO_DATA", ack_rcv' = FALSE,
           UNCHANGED <<deviceVars, events, notes, cont_chunck, gui_iv, gui_rand, used>>
    PROVE  Flowing(0)' /\ Left(events, 1)' = 0
<1>1. UNCHANGED <<connection_status, IV, rand_IV, count_pck>>
  BY DEF deviceVars, handlerVars, windowVars, cryptoVars
<1>2. /\ IV \in Nat /\ rand_IV \in Nat /\ IvMod \in Nat \ {0} /\ IV < IvMod
      /\ used["lost"] \in Nat
  BY HandlerAssumption DEF TypeOK, HandlerTypeOK, Iv, SendInv, Spendings
<1>3. /\ cont_chunck % Window = 0 /\ count_pck % Window = 0 /\ events = <<>> /\ gui_iv = IV
      /\ connection_status = "RECEVEING_SECURE_FW"
  BY DEF Answered
<1>4. Counted' = 0
  BY <1>3 DEF Counted, Window
<1>5. IvAfter(IV, rand_IV, 0 + 0) = IV
  <2>1. IV + (0 + 0) * rand_IV = IV
    BY <1>2
  <2>2. QED
    BY <1>2, <2>1 DEF IvAfter
<1>6. \E l \in 0 .. used'["lost"] :
          /\ (count_pck' % Window) + 0 + l = Counted'
          /\ gui_iv' = IvAfter(IV', rand_IV', 0 + l)
  <2>1. (count_pck' % Window) + 0 + 0 = Counted'
    BY <1>1, <1>3, <1>4
  <2>2. gui_iv' = IvAfter(IV', rand_IV', 0 + 0)
    BY <1>1, <1>3, <1>5
  <2>3. 0 \in 0 .. used'["lost"]
    BY <1>2
  <2>4. QED
    BY <2>1, <2>2, <2>3
<1>7. Flowing(0)'
  <2>1. /\ gui' \in {"SENDING_CRYPTO_DATA", "WAIT_ACK"} /\ (gui' = "WAIT_ACK" => WindowSent')
        /\ Silent' /\ gui_rand' = rand_IV'
        /\ connection_status' = "RECEVEING_SECURE_FW"
    BY <1>1, <1>3 DEF Silent
  <2>2. QED
    BY <1>6, <2>1, Zenon DEF Flowing, Window
<1>8. Left(events, 1) = 0
  <2>1. events \in Seq(Event)
    BY DEF SendInv
  <2>2. QED
    BY <1>3, <2>1, LeftCount
<1>9. QED
  BY <1>7, <1>8

\* A queue of chunks that gets another.
LEMMA AllSecure ==
    ASSUME events \in Seq(Event), \A i \in 1 .. Len(events) : IsSecure(events[i]),
           NEW e \in Event, IsSecure(e), NEW q, q = Append(events, e)
    PROVE  /\ \A i \in 1 .. Len(q) : IsSecure(q[i])
           /\ Left(q, 1) = Left(events, 1) + 1
<1>1. Len(events) \in Nat /\ Len(q) = Len(events) + 1
  OBVIOUS
<1>2. \A i \in 1 .. Len(q) : q[i] = IF i <= Len(events) THEN events[i] ELSE e
  OBVIOUS
<1>3. 1 \in 1 .. Len(events) + 1
  BY <1>1
<1>4. Left(q, 1) = Left(events, 1) + (IF IsSecure(e) THEN 1 ELSE 0)
  BY <1>3, LeftWritten
<1>5. QED
  BY <1>1, <1>2, <1>4

\* What the GUI does in an accepted session.
LEMMA AskedGui ==
    ASSUME SecureUpdates, TypeOK, SendInv, AskedInv, link, link', InBootloader, ~Unasked,
           used'["noise"] = used["noise"], UNCHANGED deviceVars,
           read_response \/ send_new_fw
    PROVE  AskedInv'
<1> SUFFICES ASSUME gui' # "CLOSING_PHASE"
             PROVE  AskedInv'
  BY DEF AskedInv
<1>1. /\ gui # "CLOSING_PHASE" =>
            /\ ~msg_tampered
            /\ \A i \in 1 .. Len(events) : IsSecure(events[i])
            /\ Flowing(Left(events, 1)) \/ Answered
  BY DEF AskedInv
<1>2. /\ events \in Seq(Event) /\ is_ack /\ Left(events, 1) \in Nat
  <2>1. events \in Seq(Event) /\ is_ack
    BY DEF SendInv
  <2>2. QED
    BY <2>1, LeftCount
<1>3. ~Raise
  BY DEF Raise, Hangup
<1>4. UNCHANGED <<connection_status, IV, rand_IV, count_pck, running>>
  BY DEF deviceVars, handlerVars, windowVars, cryptoVars
<1>5. ASSUME gui # "CLOSING_PHASE", ack_rcv
      PROVE  Answered /\ notes = <<>> /\ gui_rand = rand_IV
  BY <1>1, <1>5 DEF Flowing, Answered, Silent
<1>6. ASSUME gui # "CLOSING_PHASE", notes # <<>>
      PROVE  /\ Answered /\ ~ack_rcv
             /\ \E m \in Response :
                   /\ notes = <<m>> /\ m.type = "WRITE_SECURE_FLASH_PACKET_RESPONSE"
                   /\ m.iv = IV /\ m.rand = rand_IV
  BY <1>1, <1>6 DEF Flowing, Answered, Silent
<1>7. ASSUME Flowing(0)' /\ Left(events, 1)' = 0 /\ ~msg_tampered' /\ events' = <<>>
      PROVE  AskedInv'
  <2>1. Flowing(Left(events, 1))'
    <3>1. PICK n : n = Left(events, 1)' /\ n = 0
      BY <1>7
    <3>2. QED
      BY <1>7, Zenon DEF Flowing
  <2>2. \A i \in 1 .. Len(events') : IsSecure(events'[i])
    BY <1>7
  <2>3. QED
    BY <1>7, <2>1, <2>2 DEF AskedInv
<1>8. CASE read_response
  <2>1. /\ notes # <<>> /\ notes' = Tail(notes) /\ gui # "CLOSING_PHASE"
        /\ UNCHANGED <<events, gui, cont_chunck, num_chunks, gui_iv>>
    BY <1>8 DEF read_response, formVars, loopVars
  <2>2. PICK m \in Response :
              /\ notes = <<m>> /\ m.type = "WRITE_SECURE_FLASH_PACKET_RESPONSE"
              /\ m.iv = IV /\ m.rand = rand_IV
    BY <1>6, <2>1
  <2>3. Answered
    BY <1>6, <2>1
  <2>4. Readable(Head(notes)) /\ Head(notes).rand = rand_IV /\ notes' = <<>>
    BY <2>1, <2>2, <2>3 DEF Readable, Answered
  <2>5. ~Altered
    BY DEF Altered, Spend, SendInv, Spendings
  <2>6. msg_tampered' = FALSE /\ gui_rand' = rand_IV
    BY <1>8, <2>4, <2>5 DEF read_response
  <2>7. Answered'
    BY <1>4, <2>1, <2>3, <2>4, <2>6 DEF Answered, Window
  <2>8. \A i \in 1 .. Len(events') : IsSecure(events'[i])
    BY <1>1, <2>1
  <2>9. QED
    BY <2>6, <2>7, <2>8 DEF AskedInv
<1>9. CASE SendRequest("INIT_CRYPTO_PHASE", "START_SECURE_FLASH_MODE")
  BY <1>1, <1>9 DEF SendRequest, Flowing, Answered
<1>10. CASE GetResponse("SENDING_CRYPTO_DATA") /\ UNCHANGED secureVars
  <2>1. /\ gui = "WAIT_RESPONSE" /\ ack_rcv /\ ack_rcv' = FALSE
        /\ gui' = "SENDING_CRYPTO_DATA" /\ num_chunks # 0
        /\ UNCHANGED <<events, notes, cont_chunck, used>>
    BY <1>2, <1>10 DEF GetResponse, loopVars
  <2>2. UNCHANGED <<gui_iv, gui_rand, msg_tampered>>
    BY <1>10 DEF secureVars
  <2>3. cont_chunck < num_chunks
    BY <2>1, ChunkNumbers DEF SendInv
  <2>4. Flowing(0)' /\ Left(events, 1)' = 0
    BY <1>5, <2>1, <2>2, <2>3, FlowBegins
  <2>5. events' = <<>>
    BY <1>5, <2>1 DEF Answered
  <2>6. QED
    BY <1>1, <1>7, <2>1, <2>2, <2>4, <2>5
<1>11. CASE SendSecureChunk
  <2>1. PICK n \in Nat : n = Left(events, 1)
    BY <1>2
  <2>2. gui = "SENDING_CRYPTO_DATA" /\ UNCHANGED msg_tampered
    BY <1>11 DEF SendSecureChunk
  <2>3. Flowing(n)
    BY <1>1, <2>1, <2>2 DEF Answered
  <2>4. Flowing(n + 1)'
    BY <1>3, <1>11, <2>3, FlowSent
  <2>5. PICK iv \in Iv, num \in 0 .. Window - 1 :
            events' = Append(events, Modified(Firmware(iv, num, cont_chunck)))
    BY <1>3, <1>11, ChunkWritten
  <2>6. Modified(Firmware(iv, num, cont_chunck)) \in Event
    <3>1. num_chunks \in Totals /\ cont_chunck \in 0 .. num_chunks
      BY <2>2 DEF SendInv
    <3>2. Firmware(iv, num, cont_chunck) \in Sent
      BY <3>1, GuiPackets
    <3>3. QED
      BY <3>2 DEF Event
  <2>7. IsSecure(Modified(Firmware(iv, num, cont_chunck)))
    BY PacketKinds
  <2>8. /\ \A i \in 1 .. Len(events') : IsSecure(events'[i])
        /\ Left(events', 1) = n + 1
    BY <1>1, <1>2, <2>1, <2>2, <2>5, <2>6, <2>7, AllSecure
  <2>9. Flowing(Left(events, 1))'
    BY <2>4, <2>8, Zenon DEF Flowing
  <2>10. QED
    BY <1>1, <2>2, <2>8, <2>9 DEF AskedInv
<1>12. CASE ~msg_tampered /\ WindowAcked("SENDING_CRYPTO_DATA") /\ UNCHANGED secureVars
  <2>1. /\ gui = "WAIT_ACK" /\ ack_rcv /\ ack_rcv' = FALSE
        /\ gui' = "SENDING_CRYPTO_DATA" /\ cont_chunck < num_chunks
        /\ UNCHANGED <<events, notes, cont_chunck, used, gui_iv, gui_rand, msg_tampered>>
    BY <1>12 DEF WindowAcked, secureVars
  <2>2. Flowing(0)' /\ Left(events, 1)' = 0
    BY <1>5, <2>1, FlowBegins
  <2>3. events' = <<>>
    BY <1>5, <2>1 DEF Answered
  <2>4. QED
    BY <1>7, <1>12, <2>1, <2>2, <2>3
<1>13. CASE SendNak
  BY <1>1, <1>13 DEF SendNak
<1>14. CASE NakSent
  BY <1>1, <1>14 DEF NakSent, Flowing, Answered
<1>15. CASE FinishSecure
  BY <1>3, <1>15 DEF FinishSecure, Finish, Hangup
<1>16. QED
  BY <1>8, <1>9, <1>10, <1>11, <1>12, <1>13, <1>14, <1>15 DEF send_new_fw

\* A queue that gets a packet that is no request has the requests it had.
LEMMA NoRequestJoins ==
    ASSUME events \in Seq(Event), \A i \in 1 .. Len(events) : ~IsRequest(events[i]),
           NEW e, ~IsRequest(e), NEW q, q = Append(events, e)
    PROVE  \A i \in 1 .. Len(q) : ~IsRequest(q[i])
<1>1. Len(events) \in Nat /\ Len(q) = Len(events) + 1
  OBVIOUS
<1>2. \A i \in 1 .. Len(q) : q[i] = IF i <= Len(events) THEN events[i] ELSE e
  OBVIOUS
<1>3. QED
  BY <1>1, <1>2

\* What the GUI does before the device has accepted a request.
LEMMA UnaskedGui ==
    ASSUME SecureUpdates, SendInv, UnaskedInv, link, link', Unasked,
           UNCHANGED deviceVars, read_response \/ send_new_fw
    PROVE  UnaskedInv'
<1>1. /\ IV = 0 /\ notes \in Seq(RawResponse)
      /\ ack_rcv \/ gui = "SENDING_CRYPTO_DATA" => msg_tampered
      /\ gui = "INIT_CRYPTO_PHASE" \/ (\E i \in 1 .. Len(events) : IsRequest(events[i]))
            => Asking
  BY DEF UnaskedInv
<1>2. IV' = 0
  BY <1>1 DEF deviceVars, handlerVars, cryptoVars
<1>3. ~Raise
  BY DEF Raise, Hangup
<1>4. events \in Seq(Event)
  BY DEF SendInv
<1>5. ASSUME ~Asking, gui' # "INIT_CRYPTO_PHASE",
             UNCHANGED events \/ (\E e : ~IsRequest(e) /\ events' = Append(events, e)),
             notes' \in Seq(RawResponse),
             ack_rcv' \/ gui' = "SENDING_CRYPTO_DATA" => msg_tampered'
      PROVE  UnaskedInv'
  <2>1. \A i \in 1 .. Len(events) : ~IsRequest(events[i])
    BY <1>1, <1>5
  <2>2. \A i \in 1 .. Len(events') : ~IsRequest(events'[i])
    <3>1. CASE UNCHANGED events
      BY <2>1, <3>1
    <3>2. ASSUME NEW e, ~IsRequest(e), events' = Append(events, e)
          PROVE  \A i \in 1 .. Len(events') : ~IsRequest(events'[i])
      BY <1>4, <2>1, <3>2, NoRequestJoins
    <3>3. QED
      BY <1>5, <3>1, <3>2
  <2>3. QED
    BY <1>2, <1>5, <2>2 DEF UnaskedInv
<1>6. CASE read_response
  <2>1. /\ notes # <<>> /\ notes' = Tail(notes) /\ UNCHANGED <<gui, events>>
    BY <1>6 DEF read_response
  <2>2. ~Asking /\ gui' # "INIT_CRYPTO_PHASE"
    BY <1>1, <2>1 DEF Asking, Silent
  <2>3. Head(notes) \in RawResponse /\ notes' \in Seq(RawResponse)
    BY <1>1, <2>1
  <2>4. ~Readable(Head(notes))
    BY <2>3 DEF RawResponse, Readable
  <2>5. msg_tampered' = TRUE
    BY <1>6, <2>4 DEF read_response
  <2>6. QED
    BY <1>5, <2>1, <2>2, <2>3, <2>5
<1>7. CASE SendRequest("INIT_CRYPTO_PHASE", "START_SECURE_FLASH_MODE") /\ UNCHANGED secureVars
  <2>1. /\ events' = Append(events, Modified(Request(selected_app, num_chunks)))
        /\ gui = "INIT_CRYPTO_PHASE" /\ gui' = "WAIT_RESPONSE"
        /\ UNCHANGED <<notes, ack_rcv, msg_tampered, gui_iv>>
    BY <1>3, <1>7 DEF SendRequest, Write, Request, ackVars, secureVars
  <2>2. Asking
    BY <1>1, <2>1
  <2>3. \A i \in 1 .. Len(events') : events'[i] = ConnComplete \/ IsRequest(events'[i])
    <3>1. IsRequest(Modified(Request(selected_app, num_chunks)))
      BY PacketKinds
    <3>2. Len(events) \in Nat /\ Len(events') = Len(events) + 1
      BY <1>4, <2>1
    <3>3. \A i \in 1 .. Len(events') :
             events'[i] = IF i <= Len(events) THEN events[i]
                          ELSE Modified(Request(selected_app, num_chunks))
      BY <1>4, <2>1
    <3>4. \A i \in 1 .. Len(events) : events[i] = ConnComplete \/ IsRequest(events[i])
      BY <2>2 DEF Asking
    <3>5. QED
      BY <3>1, <3>2, <3>3, <3>4
  <2>4. Asking'
    BY <2>1, <2>2, <2>3 DEF Asking, Silent
  <2>5. QED
    BY <1>1, <1>2, <2>1, <2>2, <2>4 DEF UnaskedInv, Asking, Silent
<1>8. CASE GetResponse("SENDING_CRYPTO_DATA") /\ UNCHANGED secureVars
  <2>1. /\ ack_rcv /\ ack_rcv' = FALSE /\ UNCHANGED <<events, notes, msg_tampered>>
        /\ gui' \in {"CLOSING_PHASE", "SENDING_CRYPTO_DATA"}
    BY <1>8 DEF GetResponse, secureVars
  <2>2. msg_tampered /\ ~Asking
    BY <1>1, <2>1 DEF Asking
  <2>3. QED
    BY <1>1, <1>5, <2>1, <2>2
<1>9. CASE SendSecureChunk
  <2>1. /\ gui = "SENDING_CRYPTO_DATA" /\ UNCHANGED <<msg_tampered, notes>>
        /\ gui' # "INIT_CRYPTO_PHASE"
    BY <1>3, <1>9, ChunkWritten
  <2>2. msg_tampered /\ ~Asking
    BY <1>1, <2>1 DEF Asking
  <2>3. PICK iv \in Iv, num \in 0 .. Window - 1 :
            events' = Append(events, Modified(Firmware(iv, num, cont_chunck)))
    BY <1>3, <1>9, ChunkWritten
  <2>4. ~IsRequest(Modified(Firmware(iv, num, cont_chunck)))
    BY PacketKinds
  <2>5. QED
    BY <1>1, <1>5, <2>1, <2>2, <2>3, <2>4
<1>10. CASE ~msg_tampered /\ WindowAcked("SENDING_CRYPTO_DATA") /\ UNCHANGED secureVars
  BY <1>1, <1>10 DEF WindowAcked
<1>11. CASE SendNak
  <2>1. /\ gui = "WAIT_ACK" /\ gui' = "NAK_SENT" /\ msg_tampered
        /\ events' = Append(events, Modified(Nak)) /\ UNCHANGED <<notes, msg_tampered>>
    BY <1>3, <1>11 DEF SendNak, Write, Nak, secureVars
  <2>2. ~Asking /\ ~IsRequest(Modified(Nak))
    BY <2>1, PacketKinds DEF Asking
  <2>3. QED
    BY <1>1, <1>5, <2>1, <2>2
<1>12. CASE NakSent
  <2>1. /\ gui = "NAK_SENT" /\ gui' = "WAIT_ACK" /\ ack_rcv' = FALSE
        /\ UNCHANGED <<events, notes>>
    BY <1>12 DEF NakSent
  <2>2. ~Asking
    BY <2>1 DEF Asking
  <2>3. QED
    BY <1>1, <1>5, <2>1, <2>2
<1>13. CASE FinishSecure
  BY <1>3, <1>13 DEF FinishSecure, Finish, Hangup
<1>14. QED
  BY <1>6, <1>7, <1>8, <1>9, <1>10, <1>11, <1>12, <1>13 DEF send_new_fw

\* A window ends on both sides with the same packet, the last on its way.
LEMMA WindowEndsOnce ==
    ASSUME SecureImages, SendInv, count_pck \in Nat, total_pck = num_chunks,
           NEW n \in Nat, count_pck + (n + 1) <= cont_chunck,
           gui \in {"SENDING_CRYPTO_DATA", "WAIT_ACK"}, WindowEnds(Window),
           NEW lost \in Nat, (count_pck % Window) + (n + 1) + lost = Counted
    PROVE  /\ n = 0 /\ lost = 0 /\ gui = "WAIT_ACK"
           /\ cont_chunck < num_chunks =>
                 /\ cont_chunck % Window = 0 /\ CountUp % Window = 0
                 /\ SetBack(Window) % Window = 0
                 /\ CountUp # total_pck /\ SetBack(Window) # total_pck
<1> DEFINE c == count_pck % Window
<1>1. Window \in Nat \ {0} /\ cont_chunck \in Nat /\ cont_chunck <= num_chunks
      /\ num_chunks < CountMod /\ num_chunks \in Nat /\ CountMod \in Nat
  BY HandlerAssumption, ChunkNumbers DEF Window
<1>2. CountUp = count_pck + 1 /\ count_pck + 1 + n <= cont_chunck
  BY <1>1 DEF CountUp
<1>3. c \in Nat
  BY <1>1, StartFacts
<1>4. gui = "SENDING_CRYPTO_DATA" => cont_chunck < num_chunks
  BY DEF SendInv
<1>5. cont_chunck % Window \in Nat /\ cont_chunck % Window < Window
  BY <1>1, StartFacts
<1>6. CASE CountUp % Window = 0
  <2>1. c = Window - 1 /\ count_pck - c = count_pck + 1 - Window
    BY <1>1, <1>2, <1>6, WindowEnd
  <2>2. Window + n + lost = Counted
    <3>1. c + (n + 1) + lost = Counted
      OBVIOUS
    <3>2. QED
      BY <1>1, <1>3, <2>1, <3>1
  <2>3. gui = "WAIT_ACK" /\ cont_chunck % Window = 0 /\ n = 0 /\ lost = 0
    BY <1>1, <1>5, <2>2 DEF Counted
  <2>4. ASSUME cont_chunck < num_chunks
        PROVE  /\ SetBack(Window) % Window = 0
               /\ CountUp # total_pck /\ SetBack(Window) # total_pck
    <3>1. PICK s \in Nat : s = count_pck + 1 - Window /\ s % Window = 0
      <4>1. count_pck - c \in Nat /\ (count_pck - c) % Window = 0
        BY <1>1, StartFacts
      <4>2. QED
        BY <2>1, <4>1
    <3>2. s < CountMod /\ s < num_chunks /\ count_pck + 1 < num_chunks
      BY <1>1, <1>2, <2>3, <2>4, <3>1
    <3>3. SetBack(Window) = s
      BY <1>1, <1>2, <3>1, <3>2 DEF SetBack
    <3>4. QED
      BY <1>1, <1>2, <3>1, <3>2, <3>3
  <2>5. QED
    BY <1>6, <2>3, <2>4
<1>7. CASE CountUp % Window # 0
  <2>1. CountUp = num_chunks
    BY <1>7 DEF WindowEnds
  <2>2. n = 0 /\ cont_chunck = num_chunks /\ cont_chunck = count_pck + 1
    BY <1>1, <1>2, <2>1
  <2>3. gui = "WAIT_ACK"
    BY <1>1, <1>4, <2>2
  <2>4. cont_chunck % Window = c + 1
    BY <1>1, <1>2, <1>7, <2>2, ModStep
  <2>5. Counted = c + 1
    BY <1>3, <2>4 DEF Counted
  <2>6. lost = 0
    <3>1. c + (n + 1) + lost = Counted
      OBVIOUS
    <3>2. QED
      BY <1>3, <2>2, <2>5, <3>1
  <2>7. QED
    BY <1>1, <2>2, <2>3, <2>6
<1>8. QED
  BY <1>6, <1>7

\* The device takes a packet of a window on its way.
LEMMA FlowReceived ==
    ASSUME SecureImages, TypeOK, TypeOK', SendInv, total_pck = num_chunks,
           NEW n \in Nat, count_pck + (n + 1) <= cont_chunck, Flowing(n + 1),
           NEW p, p.cmd = "WRITE_SECURE_FLASH_PACKET", ReceiveSecure(p),
           link, Notify, UNCHANGED <<guiVars, gui_iv, gui_rand>>
    PROVE  Flowing(n)' \/ (n = 0 /\ (events' = <<>> => Answered'))
<1>1. /\ gui \in {"SENDING_CRYPTO_DATA", "WAIT_ACK"}
      /\ gui = "WAIT_ACK" => WindowSent
      /\ notes = <<>> /\ ~ack_rcv /\ gui_rand = rand_IV
      /\ connection_status = "RECEVEING_SECURE_FW"
  BY DEF Flowing, Silent
<1>2. PICK lost \in 0 .. used["lost"] :
          /\ (count_pck % Window) + (n + 1) + lost = Counted
          /\ gui_iv = IvAfter(IV, rand_IV, (n + 1) + lost)
  BY DEF Flowing
<1>3. /\ Window \in Nat \ {0} /\ count_pck \in Nat /\ CountMod \in Nat
      /\ IV \in Nat /\ rand_IV \in Nat /\ IvMod \in Nat \ {0} /\ used["lost"] \in Nat
      /\ cont_chunck \in Nat /\ cont_chunck <= num_chunks /\ num_chunks < CountMod
      /\ num_chunks \in Nat
  BY HandlerAssumption, ChunkNumbers
  DEF TypeOK, HandlerTypeOK, Count, Iv, Window, SendInv, Spendings
<1>4. UNCHANGED <<gui, cont_chunck, num_chunks, ack_rcv, gui_iv, gui_rand>>
  BY DEF guiVars, formVars, loopVars, ackVars
<1>5. IV' = (IV + rand_IV) % IvMod
  BY DEF ReceiveSecure, MoveIV, NextIV
<1>6. CountUp = count_pck + 1
  BY <1>3 DEF CountUp
<1>7. CASE ~WindowEnds(Window)
  <2>1. /\ count_pck' = CountUp /\ tx' = <<>>
        /\ UNCHANGED <<connection_status, rand_IV>>
    BY <1>7 DEF ReceiveSecure, AddToWindow, Window
  <2>2. notes' = <<>> /\ UNCHANGED used
    BY <1>1, <2>1 DEF Notify
  <2>3. count_pck' % Window = (count_pck % Window) + 1
    BY <1>3, <1>6, <1>7, <2>1, ModStep DEF WindowEnds
  <2>4. (count_pck' % Window) + n + lost = Counted
    <3>1. PICK c \in Nat : c = count_pck % Window
      BY <1>3, StartFacts
    <3>2. c + 1 + n + lost = c + (n + 1) + lost
      BY <1>3
    <3>3. QED
      BY <1>2, <2>3, <3>1, <3>2
  <2>5. gui_iv' = IvAfter(IV', rand_IV', n + lost)
    <3>1. PICK k \in Nat : k = n + lost /\ k + 1 = (n + 1) + lost
      BY <1>3
    <3>2. IvAfter((IV + rand_IV) % IvMod, rand_IV, k) = IvAfter(IV, rand_IV, k + 1)
      BY <1>3, IvMoves
    <3>3. QED
      BY <1>2, <1>4, <1>5, <2>1, <3>1, <3>2
  <2>6. Counted' = Counted /\ (gui' = "WAIT_ACK" => WindowSent') /\ Silent'
    BY <1>1, <1>4, <2>2 DEF Counted, WindowSent, Silent, Window
  <2>7. \E l \in 0 .. used'["lost"] :
           /\ (count_pck' % Window) + n + l = Counted'
           /\ gui_iv' = IvAfter(IV', rand_IV', n + l)
    BY <2>2, <2>4, <2>5, <2>6
  <2>8. /\ gui' \in {"SENDING_CRYPTO_DATA", "WAIT_ACK"} /\ gui_rand' = rand_IV'
        /\ connection_status' = "RECEVEING_SECURE_FW"
    BY <1>1, <1>4, <2>1
  <2>9. Flowing(n)'
    BY <2>6, <2>7, <2>8, Zenon DEF Flowing, Window
  <2>10. QED
    BY <2>9
<1>8. CASE WindowEnds(Window)
  <2>1. /\ n = 0 /\ lost = 0 /\ gui = "WAIT_ACK"
        /\ cont_chunck < num_chunks =>
              /\ cont_chunck % Window = 0 /\ CountUp % Window = 0
              /\ SetBack(Window) % Window = 0
              /\ CountUp # total_pck /\ SetBack(Window) # total_pck
    BY <1>1, <1>2, <1>3, <1>8, WindowEndsOnce
  <2>2. /\ \E ack \in BOOLEAN : send_secure_ack(ack, CountUp, IV')
        /\ count_pck' \in {CountUp, SetBack(Window)}
        /\ connection_status' = IF count_pck' = total_pck THEN "CLOSING_CONNECTION"
                                ELSE connection_status
    BY <1>8 DEF ReceiveSecure, RefuseWindow, WriteWindow, NewWindow, Window
  <2>3. gui_iv' = IV'
    <3>1. (0 + 1) + 0 = 1 /\ 1 * rand_IV = rand_IV
      BY <1>3
    <3>2. QED
      BY <1>2, <1>4, <1>5, <2>1, <3>1 DEF IvAfter
  <2>4. \/ notes' = <<>>
        \/ \E m \in Response :
              /\ notes' = <<m>> /\ m.type = "WRITE_SECURE_FLASH_PACKET_RESPONSE"
              /\ m.iv = IV' /\ m.rand = rand_IV'
    <3>1. PICK m : /\ tx' = <<m>> /\ m.type = "WRITE_SECURE_FLASH_PACKET_RESPONSE"
                   /\ m.iv = IV' /\ m.rand = rand_IV'
      BY <2>2 DEF send_secure_ack
    <3>2. m \in Response
      <4>1. tx' \in Seq(Response) /\ Len(tx') = 1 /\ tx'[1] = m
        BY <3>1 DEF TypeOK, HandlerTypeOK
      <4>2. \A S : \A q \in Seq(S) : Len(q) = 1 => q[1] \in S
        OBVIOUS
      <4>3. QED
        BY <4>1, <4>2
    <3>3. notes' = <<m>> \/ notes' = <<>>
      BY <1>1, <3>1, <3>2 DEF Notify
    <3>4. QED
      BY <3>1, <3>2, <3>3
  <2>5. cont_chunck' < num_chunks' =>
           /\ cont_chunck' % Window = 0 /\ count_pck' % Window = 0
           /\ connection_status' = "RECEVEING_SECURE_FW"
    BY <1>1, <1>4, <2>1, <2>2
  <2>6. events' = <<>> => Answered'
    BY <1>1, <1>4, <2>1, <2>3, <2>4, <2>5 DEF Answered, Silent, Window
  <2>7. QED
    BY <2>1, <2>6
<1>9. QED
  BY <1>7, <1>8

\* An event that is taken, and says nothing, leaves the rest as it was.
LEMMA UnaskedTaken ==
    ASSUME UnaskedInv, Unasked, events \in Seq(Event), events # <<>>, events' = Tail(events),
           UNCHANGED <<link, gui, notes, ack_rcv, msg_tampered, gui_iv, IV>>
    PROVE  UnaskedInv'
<1> SUFFICES ASSUME link, link' PROVE UnaskedInv'
  BY DEF UnaskedInv
<1>1. \A i \in 1 .. Len(events') : i + 1 \in 1 .. Len(events) /\ events'[i] = events[i + 1]
  BY Shorter
<1>2. /\ IV = 0 /\ notes \in Seq(RawResponse)
      /\ ack_rcv \/ gui = "SENDING_CRYPTO_DATA" => msg_tampered
      /\ gui = "INIT_CRYPTO_PHASE" \/ (\E i \in 1 .. Len(events) : IsRequest(events[i]))
            => Asking
  BY DEF UnaskedInv
<1>3. Asking => Asking'
  BY <1>1 DEF Asking, Silent
<1>4. (\E i \in 1 .. Len(events') : IsRequest(events'[i]))
         => \E i \in 1 .. Len(events) : IsRequest(events[i])
  BY <1>1
<1>5. QED
  BY <1>2, <1>3, <1>4 DEF UnaskedInv

\* The device hears the request, or a packet it has no session for.
LEMMA UnaskedHandled ==
    ASSUME SecureUpdates, TypeOK, TypeOK', SendInv, SessionInv, LinkInv, QueueInv, UnaskedInv,
           link, Unasked, HCI_Event_CB, UNCHANGED secureVars,
           NEW p \in Sent, Head(events) = Modified(p), Attribute_Modified_CB(p)
    PROVE  AskedInv' /\ UnaskedInv'
<1> USE EventKinds
<1>1. /\ IV = 0 /\ notes \in Seq(RawResponse)
      /\ ack_rcv \/ gui = "SENDING_CRYPTO_DATA" => msg_tampered
      /\ gui = "INIT_CRYPTO_PHASE" \/ (\E i \in 1 .. Len(events) : IsRequest(events[i]))
            => Asking
  BY DEF UnaskedInv
<1>2. /\ events \in Seq(Event) /\ events # <<>> /\ events' = Tail(events)
      /\ UNCHANGED <<link, gui, cont_chunck, num_chunks, ack_rcv, msg_tampered, gui_iv>>
      /\ Notify
  BY DEF SendInv, HCI_Event_CB, guiVars, loopVars, formVars, ackVars, secureVars
<1>3. /\ Len(events) \in Nat /\ 1 \in 1 .. Len(events) /\ events[1] = Modified(p)
      /\ \A i \in 1 .. Len(events') : /\ i + 1 \in 1 .. Len(events) /\ i + 1 # 1
                                      /\ events'[i] = events[i + 1]
  BY <1>2, Shorter
<1>4. gui # "INIT_CRYPTO_PHASE"
  BY <1>3 DEF QueueInv
<1>5. \A i \in 1 .. Len(events') : ~IsRequest(events'[i])
  <2> SUFFICES ASSUME NEW i \in 1 .. Len(events'), IsRequest(events'[i]) PROVE FALSE
    OBVIOUS
  <2>1. PICK k \in 1 .. Len(events) : k = i + 1 /\ k # 1 /\ IsRequest(events[k])
    BY <1>3
  <2>2. IsRequest(events[1])
    BY <1>1, <1>3, <2>1 DEF Asking
  <2>3. 1 >= k
    BY <1>3, <2>1, <2>2 DEF QueueInv
  <2>4. QED
    BY <2>1, <2>3
<1>6. ASSUME Unasked', IV' = 0, tx' \in Seq(RawResponse)
      PROVE  AskedInv' /\ UnaskedInv'
  <2>1. notes' \in Seq(RawResponse)
    <3>1. \A S : \A a, b \in Seq(S) : a \o b \in Seq(S)
      OBVIOUS
    <3>2. notes \o tx' \in Seq(RawResponse)
      BY <1>1, <1>6, <3>1
    <3>3. notes' = notes \o tx' \/ notes' = notes
      BY <1>2 DEF Notify
    <3>4. QED
      BY <1>1, <3>2, <3>3
  <2>2. QED
    BY <1>1, <1>2, <1>4, <1>5, <1>6, <2>1 DEF UnaskedInv, AskedInv
<1>7. /\ running = "bootloader" /\ data_handler(p)
      /\ p.cmd \in {"START_SECURE_FLASH_MODE", "WRITE_SECURE_FLASH_PACKET", "MASTER_NAK"}
  BY DEF Attribute_Modified_CB, SecureUpdates, Sent
<1>8. ASSUME NEW m, tx' = <<m>>, m.type = "WRITE_FLASH_PACKET_RESPONSE"
      PROVE  tx' \in Seq(RawResponse)
  <2>1. tx' \in Seq(Response) /\ Len(tx') = 1 /\ tx'[1] = m
    BY <1>8 DEF TypeOK, HandlerTypeOK
  <2>2. \A S : \A q \in Seq(S) : Len(q) = 1 => q[1] \in S
    OBVIOUS
  <2>3. m \in RawResponse
    BY <1>8, <2>1, <2>2 DEF RawResponse
  <2>4. QED
    BY <1>8, <2>3
<1>9. CASE IgnorePacket
  <2>1. tx' = <<>> /\ UNCHANGED <<connection_status, IV>>
    BY <1>9 DEF IgnorePacket, cryptoVars
  <2>2. Unasked' /\ IV' = 0 /\ tx' \in Seq(RawResponse)
    BY <1>1, <2>1 DEF Unasked
  <2>3. QED
    BY <1>6, <2>2
<1>10. CASE StartRefused(p)
  <2>1. /\ send_raw_ack(FALSE, count_pck) /\ UNCHANGED <<connection_status, IV>>
    BY <1>10 DEF StartRefused
  <2>2. Unasked' /\ IV' = 0 /\ tx' \in Seq(RawResponse)
    BY <1>1, <1>8, <2>1 DEF Unasked, send_raw_ack
  <2>3. QED
    BY <1>6, <2>2
<1>11. CASE StartSecure(p) /\ UNCHANGED running
  <2>1. /\ connection_status = "CONNECTED" /\ p.cmd = "START_SECURE_FLASH_MODE"
        /\ UNCHANGED <<count_pck, IV>>
        /\ \/ UNCHANGED connection_status /\ send_raw_ack(FALSE, count_pck)
           \/ /\ connection_status' = "RECEVEING_SECURE_FW"
              /\ send_secure_ack(TRUE, count_pck, IV)
    BY <1>11 DEF StartSecure, StartFlash, windowVars
  <2>2. CASE UNCHANGED connection_status /\ send_raw_ack(FALSE, count_pck)
    <3>1. Unasked' /\ IV' = 0 /\ tx' \in Seq(RawResponse)
      BY <1>1, <1>8, <2>1, <2>2 DEF Unasked, send_raw_ack
    <3>2. QED
      BY <1>6, <3>1
  <2>3. CASE /\ connection_status' = "RECEVEING_SECURE_FW"
             /\ send_secure_ack(TRUE, count_pck, IV)
    <3>1. IsRequest(events[1])
      BY <1>3, <2>1 DEF IsRequest
    <3>2. Asking
      BY <1>1, <1>3, <3>1
    <3>3. events' = <<>>
      <4>1. \A i \in 1 .. Len(events') : FALSE
        <5> SUFFICES ASSUME NEW i \in 1 .. Len(events') PROVE FALSE
          OBVIOUS
        <5>1. PICK k \in 1 .. Len(events) : k = i + 1 /\ k # 1 /\ ~IsRequest(events[k])
          BY <1>3, <1>5
        <5>2. events[k] = ConnComplete
          BY <3>2, <5>1 DEF Asking
        <5>3. QED
          BY <5>1, <5>2 DEF LinkInv
      <4>2. events' \in Seq(Event)
        BY <1>2, EventQueue
      <4>3. QED
        BY <4>1, <4>2
    <3>4. gui = "WAIT_RESPONSE" /\ notes = <<>> /\ ~ack_rcv /\ ~msg_tampered /\ gui_iv = 0
      BY <1>4, <3>2 DEF Asking, Silent
    <3>5. cont_chunck = 0 /\ count_pck = 0
      <4>1. num_chunks \in Nat /\ cont_chunck = 0
        BY <3>4, ChunkNumbers DEF SendInv
      <4>2. count_pck = 0
        BY <1>7, <2>1 DEF SessionInv
      <4>3. QED
        BY <4>1, <4>2
    <3>6. 0 % Window = 0
      BY HandlerAssumption DEF Window
    <3>7. \/ notes' = <<>>
          \/ \E m \in Response :
                /\ notes' = <<m>> /\ m.type = "WRITE_SECURE_FLASH_PACKET_RESPONSE"
                /\ m.iv = IV' /\ m.rand = rand_IV'
      <4>1. PICK m : /\ tx' = <<m>> /\ m.type = "WRITE_SECURE_FLASH_PACKET_RESPONSE"
                     /\ m.iv = IV' /\ m.rand = rand_IV'
        BY <2>1, <2>3 DEF send_secure_ack
      <4>2. m \in Response
        <5>1. tx' \in Seq(Response) /\ Len(tx') = 1 /\ tx'[1] = m
          BY <4>1 DEF TypeOK, HandlerTypeOK
        <5>2. \A S : \A q \in Seq(S) : Len(q) = 1 => q[1] \in S
          OBVIOUS
        <5>3. QED
          BY <5>1, <5>2
      <4>3. notes' = <<m>> \/ notes' = <<>>
        BY <1>2, <3>4, <4>1, <4>2 DEF Notify
      <4>4. QED
        BY <4>1, <4>2, <4>3
    <3>8. Answered'
      BY <1>1, <1>2, <2>1, <2>3, <3>3, <3>4, <3>5, <3>6, <3>7 DEF Answered, Silent, Window
    <3>9. \A i \in 1 .. Len(events') : IsSecure(events'[i])
      BY <3>3
    <3>10. ~Unasked'
      BY <2>3 DEF Unasked
    <3>11. QED
      BY <1>2, <3>4, <3>8, <3>9, <3>10 DEF AskedInv, UnaskedInv
  <2>4. QED
    BY <2>1, <2>2, <2>3
<1>12. QED
  BY <1>7, <1>9, <1>10, <1>11
  DEF data_handler, StartRaw, ReceiveRaw, ReceiveSecure, ResendAck, OverrunRaw, OverrunSecure,
      Unasked

\* The device takes a packet of an accepted session.
LEMMA AskedHandled ==
    ASSUME SecureUpdates, SecureImages, TypeOK, TypeOK', SecureInv, AskedInv, link, ~Unasked,
           HCI_Event_CB, UNCHANGED secureVars,
           NEW p \in Sent, Head(events) = Modified(p), Attribute_Modified_CB(p)
    PROVE  AskedInv' /\ UnaskedInv'
<1> USE EventKinds
<1>1. SendInv /\ QueueInv /\ PartInv
  BY DEF SecureInv
<1>2. /\ events \in Seq(Event) /\ events # <<>> /\ events' = Tail(events) /\ Notify
      /\ UNCHANGED <<link, guiVars, gui_iv, gui_rand, msg_tampered>>
  BY <1>1 DEF SendInv, HCI_Event_CB, secureVars
<1>3. /\ 1 \in 1 .. Len(events) /\ events[1] = Modified(p)
      /\ \A i \in 1 .. Len(events') : /\ i + 1 \in 1 .. Len(events)
                                      /\ events'[i] = events[i + 1]
  BY <1>2, Shorter
<1>4. running = "bootloader" /\ data_handler(p)
  BY DEF Attribute_Modified_CB
<1>5. ~Unasked'
  BY <1>1, <1>4
  DEF data_handler, StartRaw, StartSecure, StartRefused, ReceiveRaw, ReceiveSecure, ResendAck,
      IgnorePacket, OverrunRaw, OverrunSecure, Overrun, AddToWindow, RefuseWindow, WriteWindow,
      NewWindow, Unasked, QueueInv
<1>6. UnaskedInv'
  BY <1>5 DEF UnaskedInv
<1>7. SUFFICES ASSUME gui # "CLOSING_PHASE", running' = "bootloader"
               PROVE  AskedInv'
  BY <1>2, <1>6 DEF AskedInv, guiVars
<1>8. /\ ~msg_tampered
      /\ \A i \in 1 .. Len(events) : IsSecure(events[i])
      /\ Flowing(Left(events, 1)) \/ Answered
  BY <1>4, <1>7 DEF AskedInv
<1>9. IsSecure(Modified(p)) /\ p.cmd = "WRITE_SECURE_FLASH_PACKET"
  BY <1>3, <1>8 DEF IsSecure
<1>10. \A i \in 1 .. Len(events') : IsSecure(events'[i])
  BY <1>3, <1>8
<1>11. events' \in Seq(Event) /\ Left(events', 1) \in Nat
  BY <1>2, EventQueue, LeftCount
<1>12. PICK n \in Nat : n = Left(events', 1)
  BY <1>11
<1>13. Left(events, 1) = n + 1
  BY <1>2, <1>9, <1>12, LeftTaken
<1>14. Flowing(n + 1)
  BY <1>2, <1>8, <1>13 DEF Answered
<1>15. connection_status = "RECEVEING_SECURE_FW"
  BY <1>14 DEF Flowing
<1>16. ReceiveSecure(p)
  <2>1. ~StartRaw(p) /\ ~StartSecure(p) /\ ~StartRefused(p) /\ ~ReceiveRaw(p)
        /\ ~ResendAck(p) /\ ~IgnorePacket /\ ~OverrunRaw(p)
    BY <1>9, <1>15
    DEF StartRaw, StartSecure, StartRefused, ReceiveRaw, ResendAck, IgnorePacket, OverrunRaw
  <2>2. ~OverrunSecure(p)
    BY <1>7 DEF OverrunSecure, Overrun
  <2>3. QED
    BY <1>4, <2>1, <2>2 DEF data_handler
<1>17. total_pck = num_chunks /\ count_pck + (n + 1) <= cont_chunck
  <2>1. total_pck = num_chunks /\ Phase(n + 1)
    BY <1>1, <1>4, <1>13, <1>15 DEF PartInv
  <2>2. count_pck \in Nat /\ cont_chunck \in Nat
    BY <1>1, ChunkNumbers, HandlerAssumption DEF TypeOK, HandlerTypeOK, Count
  <2>3. QED
    BY <2>1, <2>2 DEF Phase
<1>18. Flowing(n)' \/ (n = 0 /\ (events' = <<>> => Answered'))
  BY <1>1, <1>2, <1>9, <1>14, <1>16, <1>17, FlowReceived
<1>19. CASE Flowing(n)'
  <2>1. Flowing(Left(events, 1))'
    BY <1>12, <1>19, Zenon DEF Flowing
  <2>2. QED
    BY <1>2, <1>8, <1>10, <2>1 DEF AskedInv
<1>20. CASE n = 0 /\ (events' = <<>> => Answered')
  <2>1. events' = <<>>
    <3>1. SUFFICES ASSUME events' # <<>> PROVE FALSE
      OBVIOUS
    <3>2. PICK q \in Seq(Event) : q = events' /\ q # <<>> /\ Left(q, 1) = 0
      BY <1>11, <1>12, <1>20, <3>1
    <3>3. IsSecure(Head(q)) /\ Tail(q) \in Seq(Event)
      <4>1. Len(q) \in Nat \ {0} /\ Head(q) = q[1] /\ Tail(q) \in Seq(Event)
        BY <3>2
      <4>2. QED
        BY <1>10, <3>2, <4>1
    <3>4. Left(q, 1) = Left(Tail(q), 1) + 1 /\ Left(Tail(q), 1) \in Nat
      BY <3>2, <3>3, LeftTaken, LeftCount
    <3>5. QED
      BY <3>2, <3>4
  <2>2. QED
    BY <1>2, <1>8, <1>10, <1>20, <2>1 DEF AskedInv
<1>21. QED
  BY <1>18, <1>19, <1>20

\* A packet of a window is lost.
LEMMA FlowLost ==
    ASSUME TypeOK, SendInv, NEW n \in Nat, Flowing(n + 1), used'["lost"] = used["lost"] + 1,
           UNCHANGED <<deviceVars, guiVars, notes, gui_iv, gui_rand>>
    PROVE  Flowing(n)'
<1>1. PICK lost \in 0 .. used["lost"] :
          /\ (count_pck % Window) + (n + 1) + lost = Counted
          /\ gui_iv = IvAfter(IV, rand_IV, (n + 1) + lost)
  BY DEF Flowing
<1>2. UNCHANGED <<connection_status, IV, rand_IV, count_pck, gui, cont_chunck, num_chunks,
                  ack_rcv>>
  BY DEF deviceVars, handlerVars, windowVars, cryptoVars, guiVars, formVars, loopVars, ackVars
<1>3. used["lost"] \in Nat /\ Window \in Nat \ {0} /\ count_pck \in Nat
  BY HandlerAssumption DEF SendInv, Spendings, TypeOK, HandlerTypeOK, Count, Window
<1>4. PICK l \in 0 .. used'["lost"] : l = lost + 1 /\ (n + 1) + lost = n + l
  BY <1>3
<1>5. (count_pck % Window) + n + l = Counted
  <2>1. PICK c \in Nat : c = count_pck % Window
    BY <1>3, StartFacts
  <2>2. c + n + l = c + (n + 1) + lost
    BY <1>3, <1>4
  <2>3. QED
    BY <1>1, <2>1, <2>2
<1>6. Counted' = Counted
  BY <1>2 DEF Counted, Window
<1>7. \E k \in 0 .. used'["lost"] :
         /\ (count_pck' % Window) + n + k = Counted'
         /\ gui_iv' = IvAfter(IV', rand_IV', n + k)
  BY <1>1, <1>2, <1>4, <1>5, <1>6
<1>8. /\ gui' \in {"SENDING_CRYPTO_DATA", "WAIT_ACK"} /\ (gui' = "WAIT_ACK" => WindowSent')
      /\ Silent' /\ gui_rand' = rand_IV'
      /\ connection_status' = "RECEVEING_SECURE_FW"
  BY <1>2 DEF Flowing, WindowSent, Silent, Window
<1>9. QED
  BY <1>7, <1>8, Zenon DEF Flowing, Window

\* An event of an accepted session is lost.
LEMMA AskedDropped ==
    ASSUME TypeOK, SecureInv, AskedInv, link, ~Unasked, DropEvent, UNCHANGED secureVars
    PROVE  AskedInv' /\ UnaskedInv'
<1>1. SendInv /\ LinkInv
  BY DEF SecureInv
<1>2. /\ events \in Seq(Event) /\ events # <<>> /\ events' = Tail(events)
      /\ UNCHANGED <<link, notes, guiVars, gui_iv, gui_rand, msg_tampered>>
  BY <1>1 DEF SendInv, DropEvent, secureVars
<1>3. /\ 1 \in 1 .. Len(events) /\ Head(events) = events[1]
      /\ \A i \in 1 .. Len(events') : /\ i + 1 \in 1 .. Len(events)
                                      /\ events'[i] = events[i + 1]
  BY <1>2, Shorter
<1>4. Head(events) # ConnComplete
  BY <1>1, <1>3 DEF LinkInv, Unasked
<1>5. UNCHANGED deviceVars
  BY <1>4 DEF DropEvent
<1>6. ~Unasked' /\ UNCHANGED <<gui, running>>
  BY <1>2, <1>5 DEF Unasked, deviceVars, handlerVars, guiVars
<1>7. SUFFICES ASSUME gui # "CLOSING_PHASE", InBootloader PROVE AskedInv'
  BY <1>6 DEF AskedInv, UnaskedInv
<1>8. /\ ~msg_tampered
      /\ \A i \in 1 .. Len(events) : IsSecure(events[i])
      /\ Flowing(Left(events, 1)) \/ Answered
  BY <1>7 DEF AskedInv
<1>9. \A i \in 1 .. Len(events') : IsSecure(events'[i])
  BY <1>3, <1>8
<1>10. PICK n \in Nat : n = Left(events', 1)
  <2>1. events' \in Seq(Event)
    BY <1>2, EventQueue
  <2>2. QED
    BY <2>1, LeftCount
<1>11. Left(events, 1) = n + 1
  BY <1>2, <1>3, <1>8, <1>10, LeftTaken
<1>12. Flowing(n + 1)
  BY <1>2, <1>8, <1>11 DEF Answered
<1>13. used'["lost"] = used["lost"] + 1
  BY <1>1, Spent DEF DropEvent, SendInv, Spendings
<1>14. Flowing(n)'
  BY <1>1, <1>2, <1>5, <1>12, <1>13, FlowLost
<1>15. Flowing(Left(events, 1))'
  BY <1>10, <1>14, Zenon DEF Flowing
<1>16. QED
  BY <1>2, <1>8, <1>9, <1>15 DEF AskedInv

\* Nothing that was spent of a bound comes back.
LEMMA SpendingsGrow ==
    ASSUME used \in [Spendings -> Nat], [SecureNext]_allSecureVars
    PROVE  \A w \in Spendings : used'[w] \in Nat /\ used[w] <= used'[w]
<1>1. \/ UNCHANGED used
      \/ \E what \in Spendings : \E bound : Spend(what, bound)
  <2>1. CASE BlueNRG_Process
    BY <2>1 DEF BlueNRG_Process, HCI_Event_CB, Notify, Spendings
  <2>2. CASE DropEvent \/ DeviceReset \/ LinkDrop
    BY <2>2 DEF DropEvent, DeviceReset, LinkDrop, Spendings
  <2>3. CASE read_response
    BY <2>3 DEF read_response, Altered, Spendings
  <2>4. ASSUME NEW app, NEW total, StartUpload(app, total, "INIT_CRYPTO_PHASE")
        PROVE  \E what \in Spendings : \E bound : Spend(what, bound)
    BY <2>4 DEF StartUpload, Spendings
  <2>5. CASE SendSecureChunk
    BY <2>5 DEF SendSecureChunk, Arrives, Altered, Raise, Spendings
  <2>6. CASE SendRequest("INIT_CRYPTO_PHASE", "START_SECURE_FLASH_MODE")
             \/ GetResponse("SENDING_CRYPTO_DATA") \/ WindowAcked("SENDING_CRYPTO_DATA")
             \/ SendNak \/ NakSent \/ FinishSecure
    BY <2>6 DEF SendRequest, GetResponse, WindowAcked, SendNak, NakSent, FinishSecure,
                Finish, Raise
  <2>7. CASE RestartSecureGui
    BY <2>7 DEF RestartSecureGui, RestartGui, Spendings
  <2>8. CASE UNCHANGED allSecureVars
    BY <2>8 DEF allSecureVars, allVars
  <2>9. QED
    BY <2>1, <2>2, <2>3, <2>4, <2>5, <2>6, <2>7, <2>8 DEF SecureNext, send_new_fw
<1>2. ASSUME NEW what \in Spendings, NEW bound, Spend(what, bound), NEW w \in Spendings
      PROVE  used'[w] \in Nat /\ used[w] <= used'[w]
  BY <1>2 DEF Spend
<1>3. QED
  BY <1>1, <1>2

\* Nothing is said before the first session.
LEMMA FreshStep ==
    ASSUME SendInv, Fresh, used["sessions"] = 0, used'["sessions"] = 0,
           [SecureNext]_allSecureVars
    PROVE  Fresh'
<1>1. /\ gui = "IDLE" /\ ~link /\ events = <<>> /\ Silent /\ ~msg_tampered
      /\ gui_iv = 0 /\ IV = 0 /\ Unasked
  BY DEF Fresh
<1>2. used \in [Spendings -> Nat]
  BY DEF SendInv
<1>3. CASE Enable_Advertising /\ UNCHANGED <<link, events, notes, guiVars, used>>
           /\ UNCHANGED secureVars
  BY <1>1, <1>3
  DEF Enable_Advertising, guiVars, ackVars, secureVars, cryptoVars, Fresh, Silent, Unasked
<1>4. CASE DeviceReset /\ UNCHANGED secureVars
  BY <1>1, <1>4 DEF DeviceReset, Reset, guiVars, ackVars, secureVars, Fresh, Silent, Unasked
<1>5. CASE UNCHANGED allSecureVars
  BY <1>1, <1>5
  DEF allSecureVars, allVars, deviceVars, handlerVars, cryptoVars, guiVars, ackVars,
      secureVars, Fresh, Silent, Unasked
<1>6. ASSUME NEW app, NEW total, StartUpload(app, total, "INIT_CRYPTO_PHASE") PROVE FALSE
  BY <1>2, <1>6 DEF StartUpload, Spend, Spendings
<1>7. ~HCI_Event_CB /\ ~DropEvent /\ ~LinkDrop /\ ~read_response /\ ~send_new_fw
      /\ ~RestartSecureGui
  BY <1>1
  DEF HCI_Event_CB, DropEvent, LinkDrop, read_response, Silent, send_new_fw, SendRequest,
      GetResponse, SendSecureChunk, WindowAcked, SendNak, NakSent, FinishSecure, Finish,
      RestartSecureGui, RestartGui
<1>8. QED
  BY <1>3, <1>4, <1>5, <1>6, <1>7 DEF SecureNext, BlueNRG_Process

\* What the device hears, and what it misses, in either half of a session.
LEMMA TalkHeard ==
    ASSUME SecureUpdates, SecureImages, TypeOK, TypeOK', SessionInv, SecureInv,
           AskedInv, UnaskedInv, link, link', UNCHANGED secureVars, HCI_Event_CB \/ DropEvent
    PROVE  AskedInv' /\ UnaskedInv'
<1>1. SendInv /\ LinkInv /\ QueueInv
  BY DEF SecureInv
<1>2. /\ events \in Seq(Event) /\ events # <<>> /\ events' = Tail(events)
      /\ UNCHANGED <<link, guiVars>>
  BY <1>1 DEF SendInv, HCI_Event_CB, DropEvent
<1>3. 1 \in 1 .. Len(events) /\ Head(events) = events[1]
  BY <1>2, Shorter
<1>4. UNCHANGED <<gui, ack_rcv, msg_tampered, gui_iv>>
  BY <1>2 DEF guiVars, ackVars, secureVars
<1>5. ASSUME Unasked, Unasked', UNCHANGED <<notes, IV>>
      PROVE  AskedInv' /\ UnaskedInv'
  <2>1. UnaskedInv'
    BY <1>2, <1>4, <1>5, UnaskedTaken
  <2>2. QED
    BY <1>5, <2>1 DEF AskedInv
<1>6. CASE HCI_Event_CB
  <2>1. CASE Head(events) = ConnComplete /\ GAP_ConnectionComplete_CB
    <3>1. Unasked
      BY <1>1, <1>3, <2>1 DEF LinkInv, Unasked
    <3>2. Unasked' /\ IV' = IV /\ tx' = <<>>
      BY <2>1 DEF GAP_ConnectionComplete_CB, cryptoVars, Unasked
    <3>3. notes' = notes
      <4>1. notes \in Seq(Response)
        BY <1>1 DEF SendInv
      <4>2. \A S : \A q \in Seq(S) : q \o <<>> = q
        OBVIOUS
      <4>3. QED
        BY <1>6, <3>2, <4>1, <4>2 DEF HCI_Event_CB, Notify
    <3>4. QED
      BY <1>5, <3>1, <3>2, <3>3
  <2>2. CASE Head(events) = DisconnComplete /\ GAP_DisconnectionComplete_CB
    BY <1>1, <1>3, <2>2 DEF LinkInv
  <2>3. ASSUME NEW p \in Sent, Head(events) = Modified(p), Attribute_Modified_CB(p)
        PROVE  AskedInv' /\ UnaskedInv'
    <3>1. CASE Unasked
      BY <1>1, <1>6, <2>3, <3>1, UnaskedHandled
    <3>2. CASE ~Unasked
      BY <1>6, <2>3, <3>2, AskedHandled
    <3>3. QED
      BY <3>1, <3>2
  <2>4. QED
    BY <1>2, <1>6, <2>1, <2>2, <2>3, HandledPacket
<1>7. CASE DropEvent
  <2>1. CASE Unasked
    <3>1. Unasked' /\ UNCHANGED <<notes, IV>>
      BY <1>7, <2>1
      DEF DropEvent, ConnectionMissed, deviceVars, handlerVars, cryptoVars, Unasked
    <3>2. QED
      BY <1>5, <2>1, <3>1
  <2>2. CASE ~Unasked
    BY <1>7, <2>2, AskedDropped
  <2>3. QED
    BY <2>1, <2>2
<1>8. QED
  BY <1>6, <1>7

\* Every step keeps the conversation what it is.
LEMMA TalkStep ==
    ASSUME SecureUpdates, SecureImages, TypeOK, TypeOK', SessionInv, SecureInv, TalkInv,
           [SecureNext]_allSecureVars
    PROVE  TalkInv'
<1>1. SendInv /\ LinkInv /\ QueueInv
  BY DEF SecureInv
<1>2. used \in [Spendings -> Nat] /\ events \in Seq(Event)
  BY <1>1 DEF SendInv
<1>3. SUFFICES ASSUME Clean' PROVE Fresh' /\ AskedInv' /\ UnaskedInv'
  BY DEF TalkInv
<1>4. /\ used'["sessions"] \in Nat /\ used["sessions"] <= used'["sessions"]
      /\ used'["noise"] \in Nat /\ used["noise"] <= used'["noise"]
  BY <1>2, SpendingsGrow DEF Spendings
<1>5. used["sessions"] \in Nat /\ used["noise"] \in Nat
  BY <1>2 DEF Spendings
<1>6. Clean /\ used'["noise"] = used["noise"] /\ used'["sessions"] <= 1
  BY <1>3, <1>4, <1>5 DEF Clean
<1>7. Fresh /\ AskedInv /\ UnaskedInv
  BY <1>6 DEF TalkInv
<1>8. Fresh'
  <2>1. CASE used'["sessions"] = 0
    <3>1. used["sessions"] = 0
      BY <1>4, <1>5, <2>1
    <3>2. QED
      BY <1>1, <1>7, <2>1, <3>1, FreshStep
  <2>2. CASE used'["sessions"] # 0
    BY <2>2 DEF Fresh
  <2>3. QED
    BY <2>1, <2>2
<1>9. SUFFICES ASSUME link' PROVE AskedInv' /\ UnaskedInv'
  BY <1>8 DEF AskedInv, UnaskedInv
<1>10. ASSUME NEW app \in Selections, NEW total \in Totals,
              StartUpload(app, total, "INIT_CRYPTO_PHASE"), UNCHANGED secureVars
       PROVE  AskedInv' /\ UnaskedInv'
  <2>1. used'["sessions"] = used["sessions"] + 1
    BY <1>2, <1>10 DEF StartUpload, Spend, Spendings
  <2>2. /\ Silent /\ ~msg_tampered /\ gui_iv = 0 /\ IV = 0 /\ Unasked /\ events = <<>>
    BY <1>5, <1>6, <1>7, <2>1 DEF Fresh
  <2>3. /\ gui' = "INIT_CRYPTO_PHASE" /\ events' = Append(events, ConnComplete)
        /\ UNCHANGED <<deviceVars, notes, ackVars>>
    BY <1>10 DEF StartUpload
  <2>4. UNCHANGED <<ack_rcv, msg_tampered, gui_iv, IV, connection_status>>
    BY <1>10, <2>3 DEF ackVars, secureVars, deviceVars, handlerVars, cryptoVars
  <2>5. \A i \in 1 .. Len(events') : events'[i] = ConnComplete
    <3>1. events' = <<ConnComplete>>
      BY <2>2, <2>3
    <3>2. QED
      BY <3>1
  <2>6. Asking'
    BY <2>2, <2>3, <2>4, <2>5 DEF Asking, Silent
  <2>7. notes' = <<>> /\ notes' \in Seq(RawResponse)
    BY <2>2, <2>3 DEF Silent
  <2>8. Unasked' /\ UnaskedInv'
    BY <2>2, <2>3, <2>4, <2>6, <2>7 DEF UnaskedInv, Unasked, Silent
  <2>9. QED
    BY <2>8 DEF AskedInv
<1>11. CASE (HCI_Event_CB \/ DropEvent) /\ UNCHANGED secureVars
  <2>1. link
    BY <1>9, <1>11 DEF HCI_Event_CB, DropEvent
  <2>2. QED
    BY <1>7, <1>9, <1>11, <2>1, TalkHeard
<1>12. CASE Enable_Advertising /\ UNCHANGED <<link, events, notes, guiVars, used>>
  BY <1>1, <1>9, <1>12 DEF Enable_Advertising, LinkInv
<1>13. CASE read_response \/ send_new_fw
  <2>1. UNCHANGED deviceVars
    BY <1>13
    DEF read_response, send_new_fw, SendRequest, GetResponse, SendSecureChunk, WindowAcked,
        SendNak, NakSent, FinishSecure, Finish
  <2>2. UNCHANGED <<connection_status, running>>
    BY <2>1 DEF deviceVars, handlerVars
  <2>3. link
    BY <1>9, <1>13
    DEF read_response, send_new_fw, SendRequest, GetResponse, SendSecureChunk, WindowAcked,
        SendNak, NakSent, FinishSecure, Finish, Arrives, Write, Raise, Hangup
  <2>4. CASE Unasked
    <3>1. Unasked'
      BY <2>2, <2>4 DEF Unasked
    <3>2. UnaskedInv'
      BY <1>1, <1>7, <1>9, <1>13, <2>1, <2>3, <2>4, UnaskedGui
    <3>3. QED
      BY <3>1, <3>2 DEF AskedInv
  <2>5. CASE ~Unasked
    <3>1. ~Unasked'
      BY <2>2, <2>5 DEF Unasked
    <3>2. AskedInv'
      <4>1. CASE InBootloader
        BY <1>1, <1>6, <1>7, <1>9, <1>13, <2>1, <2>3, <2>5, <4>1, AskedGui
      <4>2. CASE ~InBootloader
        BY <2>2, <4>2 DEF AskedInv
      <4>3. QED
        BY <4>1, <4>2
    <3>3. QED
      BY <3>1, <3>2 DEF UnaskedInv
  <2>6. QED
    BY <2>4, <2>5
<1>14. CASE DeviceReset \/ LinkDrop \/ RestartSecureGui
  BY <1>9, <1>14 DEF DeviceReset, LinkDrop, RestartSecureGui, RestartGui, Hangup
<1>15. CASE UNCHANGED allSecureVars
  <2>1. UNCHANGED <<link, events, notes, gui, cont_chunck, num_chunks, ack_rcv, used, running,
                    connection_status, count_pck, IV, rand_IV, gui_iv, gui_rand, msg_tampered>>
    BY <1>15
    DEF allSecureVars, allVars, deviceVars, handlerVars, windowVars, cryptoVars, guiVars,
        formVars, loopVars, ackVars, secureVars
  <2>2. PICK n : n = Left(events, 1) /\ n = Left(events', 1)
    BY <2>1
  <2>3. Flowing(n) <=> Flowing(n)'
    BY <2>1, Zenon DEF Flowing, WindowSent, Silent, Counted, Window
  <2>4. Answered <=> Answered'
    BY <2>1 DEF Answered, Silent, Window
  <2>5. Flowing(Left(events, 1)) <=> Flowing(Left(events, 1))'
    BY <2>2, <2>3, Zenon DEF Flowing
  <2>6. AskedInv'
    BY <1>7, <2>1, <2>4, <2>5 DEF AskedInv, Unasked
  <2>7. UnaskedInv'
    BY <1>7, <2>1 DEF UnaskedInv, Unasked, Asking, Silent
  <2>8. QED
    BY <2>6, <2>7
<1>16. QED
  BY <1>10, <1>11, <1>12, <1>13, <1>14, <1>15 DEF SecureNext, BlueNRG_Process

\* While the user runs a first upload, and no message is altered, the two IVs
\* differ by the packets on their way and those that were lost, for every image,
\* window, set of random bytes and pattern of losses, refusals, failed writes,
\* lost links and resets.
THEOREM IvsStayInStep ==
    ASSUME SecureUpdates, SecureImages
    PROVE  SecureSpec => [](Clean => IvInStep)
<1>1. SecureInit => TalkInv
  <2> SUFFICES ASSUME SecureInit PROVE TalkInv
    OBVIOUS
  <2>1. /\ gui = "IDLE" /\ ~link /\ events = <<>> /\ notes = <<>> /\ ~ack_rcv
        /\ ~msg_tampered /\ gui_iv = 0 /\ IV = 0 /\ connection_status = "IDLE"
    BY DEF SecureInit, UploadInit, Init, HandlerInit
  <2>2. QED
    BY <2>1 DEF TalkInv, Fresh, AskedInv, UnaskedInv, Silent, Unasked
<1>2. TypeOK /\ SecureInv /\ TalkInv => (Clean => IvInStep)
  <2> SUFFICES ASSUME TypeOK, SecureInv, TalkInv, Clean, Heard
               PROVE  /\ connection_status = "RECEVEING_SECURE_FW"
                      /\ gui_rand = rand_IV
                      /\ \E lost \in 0 .. used.lost :
                            gui_iv = (IV + (InFlight + lost) * rand_IV) % IvMod
    BY DEF IvInStep
  <2>1. SendInv /\ AskedInv /\ UnaskedInv
    BY DEF TalkInv, SecureInv
  <2>2. gui = "SENDING_CRYPTO_DATA" /\ ~msg_tampered /\ link /\ InBootloader
    BY DEF Heard
  <2>3. ~Unasked
    BY <2>1, <2>2 DEF UnaskedInv
  <2>4. Flowing(Left(events, 1))
    BY <2>1, <2>2, <2>3 DEF AskedInv, Answered
  <2>5. InFlight = Left(events, 1)
    BY <2>1, InFlightIsLeft DEF SendInv
  <2>6. Flowing(InFlight)
    BY <2>4, <2>5
  <2>7. QED
    BY <2>6 DEF Flowing, IvAfter
<1>3. QED
  BY <1>1, <1>2, TalkStep, SecureInductive, SecureDeviceIsDriven, SessionInductive, PTL
  DEF SecureSpec
=============================================================================
