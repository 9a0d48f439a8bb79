----------------------------- MODULE RandProofs -----------------------------
(***************************************************************************)
(* What the shift register does, from every start.                         *)
(***************************************************************************)
EXTENDS RandGenerator, TLAPS

\* The bit that is shifted out, what remains, and the bit that is shifted in.
Low(r)      == r - 2 * (r \div 2)
Half(r)     == r \div 2
Upper(r)    == r \div 32768 + r \div 8192 + r \div 16
Feedback(r) == (Upper(r) + r) % 2

IsReg(r) == r \in Int /\ 0 <= r /\ r <= 65535
IsBit(b) == b \in Int /\ 0 <= b /\ b <= 1

LEMMA RegIsReg == \A r : r \in Reg <=> IsReg(r)
<1>1. ASSUME NEW r \in Reg PROVE IsReg(r)
  BY <1>1 DEF Reg, IsReg
<1>2. \A a, b \in Int : \A r \in Int : a <= r /\ r <= b => r \in a .. b
  OBVIOUS
<1>3. ASSUME NEW r, IsReg(r) PROVE r \in Reg
  <2> DEFINE a == 0
             b == 65535
  <2>1. a \in Int /\ b \in Int /\ r \in Int /\ a <= r /\ r <= b
    BY <1>3 DEF IsReg
  <2> HIDE DEF a, b
  <2>2. r \in a .. b
    BY <1>2, <2>1
  <2>3. Reg = a .. b
    BY DEF Reg, a, b
  <2>4. QED
    BY <2>2, <2>3, Zenon
<1>4. QED
  BY <1>1, <1>3

LEMMA FeedbackIsBit == \A r : IsReg(r) => IsBit(Feedback(r))
<1>1. \A r \in Nat : Upper(r) + r \in Nat
  BY DEF Upper
<1>2. QED
  BY <1>1 DEF Feedback, IsReg, IsBit

LEMMA Halves ==
    ASSUME NEW r, IsReg(r)
    PROVE  /\ Half(r) \in Int /\ 0 <= Half(r) /\ Half(r) <= 32767
           /\ IsBit(Low(r)) /\ r = 2 * Half(r) + Low(r)
BY DEF Half, Low, IsReg, IsBit

LEMMA Shift == ASSUME NEW r PROVE NextReg(r) = Half(r) + 32768 * Feedback(r)
BY DEF Half, NextReg, Feedback, Upper

LEMMA LowIsMod == ASSUME NEW r, IsReg(r) PROVE r % 2 = Low(r)
BY DEF Low, IsReg

\* A half and a bit make a register, and can be told from it.
LEMMA Joined ==
    ASSUME NEW h \in Int, 0 <= h, h <= 32767, NEW f \in Int, 0 <= f, f <= 1
    PROVE  /\ h + 32768 * f \in Int /\ 0 <= h + 32768 * f /\ h + 32768 * f <= 65535
           /\ h + 32768 * f = 0 => h = 0 /\ f = 0
OBVIOUS

LEMMA Parted ==
    ASSUME NEW h \in Int, 0 <= h, h <= 32767, NEW f \in Int,
           NEW g \in Int, 0 <= g, g <= 32767, NEW e \in Int,
           h + 32768 * f = g + 32768 * e
    PROVE  h = g /\ f = e
OBVIOUS

-----------------------------------------------------------------------------
\* A register that is not 0 never becomes 0: the generator does not get stuck.
THEOREM NeverStuck == \A r \in Reg : NextReg(r) \in Reg /\ (r # 0 => NextReg(r) # 0)
<1> SUFFICES ASSUME NEW r \in Reg PROVE NextReg(r) \in Reg /\ (r # 0 => NextReg(r) # 0)
  OBVIOUS
<1> DEFINE h == Half(r)
           f == Feedback(r)
           n == NextReg(r)
<1>1. /\ h \in Int /\ 0 <= h /\ h <= 32767 /\ f \in Int /\ 0 <= f /\ f <= 1
      /\ n = h + 32768 * f
  BY RegIsReg, Halves, FeedbackIsBit, Shift DEF IsBit
<1>2. h = 0 /\ r # 0 => r = 1
  BY RegIsReg, Halves DEF IsBit
<1>3. r = 1 => f = 1
  BY DEF Feedback, Upper
<1> HIDE DEF h, f, n
<1>4. IsReg(n)
  BY <1>1, Joined DEF IsReg
<1>5. r # 0 => n # 0
  BY <1>1, <1>2, <1>3, Joined
<1>6. QED
  BY <1>4, <1>5, RegIsReg DEF n

\* No two registers have the same next one: every start is on a cycle.
THEOREM OneToOne == \A r, s \in Reg : NextReg(r) = NextReg(s) => r = s
<1> SUFFICES ASSUME NEW r \in Reg, NEW s \in Reg, NextReg(r) = NextReg(s) PROVE r = s
  OBVIOUS
<1>1. Half(r) = Half(s) /\ Feedback(r) = Feedback(s)
  <2> DEFINE h == Half(r)
             g == Half(s)
             f == Feedback(r)
             e == Feedback(s)
  <2>1. /\ h \in Int /\ 0 <= h /\ h <= 32767 /\ f \in Int
        /\ g \in Int /\ 0 <= g /\ g <= 32767 /\ e \in Int
        /\ h + 32768 * f = g + 32768 * e
    BY RegIsReg, Halves, FeedbackIsBit, Shift DEF IsBit
  <2> HIDE DEF h, g, f, e
  <2>2. h = g /\ f = e
    BY <2>1, Parted
  <2>3. QED
    BY <2>2 DEF h, g, f, e
<1>2. Upper(r) = Upper(s)
  <2>1. \A x : IsReg(x) => /\ x \div 32768 = Half(x) \div 16384
                           /\ x \div 8192 = Half(x) \div 4096
                           /\ x \div 16 = Half(x) \div 8
    BY DEF IsReg, Half
  <2>2. QED
    BY <1>1, <2>1, RegIsReg DEF Upper
<1>3. Low(r) = Low(s)
  <2> DEFINE u == Upper(r)
             h == Half(r)
             b == Low(r)
             c == Low(s)
  <2>1. /\ u \in Int /\ h \in Int /\ b \in Int /\ 0 <= b /\ b <= 1
        /\ c \in Int /\ 0 <= c /\ c <= 1
    BY RegIsReg, Halves DEF IsBit, Upper, IsReg
  <2>2. (u + (2 * h + b)) % 2 = (u + (2 * h + c)) % 2
    BY <1>1, <1>2, RegIsReg, Halves DEF Feedback
  <2> HIDE DEF u, h, b, c
  <2>3. b = c
    BY <2>1, <2>2
  <2>4. QED
    BY <2>3 DEF b, c
<1>4. QED
  BY <1>1, <1>3, RegIsReg, Halves

-----------------------------------------------------------------------------
\* An even register before one that ends in k zeros ends in k + 1.
LEMMA ZerosGrow ==
    ASSUME NEW r \in Reg, r % 2 = 0, NEW d \in Nat \ {0}, NEW m \in Nat, d * m = 32768,
           NextReg(r) % d = 0
    PROVE  r % (2 * d) = 0
<1> DEFINE h == Half(r)
           f == Feedback(r)
<1>1. /\ h \in Int /\ 0 <= h /\ h <= 32767 /\ f \in Int /\ 0 <= f /\ f <= 1
      /\ (h + 32768 * f) % d = 0 /\ r = 2 * h
  BY RegIsReg, Halves, FeedbackIsBit, Shift, LowIsMod DEF IsBit
<1> HIDE DEF h, f
<1>2. PICK k \in Int : h + 32768 * f = d * k
  BY <1>1
<1>3. h = d * (k - m * f)
  BY <1>1, <1>2
<1>4. 2 * h = (2 * d) * (k - m * f)
  BY <1>1, <1>3
<1>5. (2 * h) % (2 * d) = 0
  BY <1>1, <1>4
<1>6. QED
  BY <1>1, <1>5

\* No call returns eight zero bits twice running, unless the generator was started
\* at 0: sixteen even registers in a row begin with 0.
THEOREM ZerosFromZero ==
    ASSUME NEW reg \in [0 .. 15 -> Reg],
           \A i \in 0 .. 14 : reg[i + 1] = NextReg(reg[i]),
           \A i \in 0 .. 15 : reg[i] % 2 = 0
    PROVE  reg[0] = 0
<1> DEFINE Ends(i, d) == reg[i] % d = 0
<1>1. ASSUME NEW i \in 0 .. 14, NEW d \in Nat \ {0}, NEW m \in Nat, d * m = 32768,
             Ends(i + 1, d)
      PROVE  Ends(i, 2 * d)
  <2>1. reg[i] \in Reg /\ reg[i] % 2 = 0 /\ NextReg(reg[i]) % d = 0
    BY <1>1
  <2>2. QED
    BY <1>1, <2>1, ZerosGrow
<1>2. Ends(15, 2)
  OBVIOUS
<1> HIDE DEF Ends
<1>3. Ends(14, 4)
  <2>1. 14 \in 0 .. 14 /\ 14 + 1 = 15 /\ 2 \in Nat \ {0} /\ 16384 \in Nat
        /\ 2 * 16384 = 32768 /\ 2 * 2 = 4
    OBVIOUS
  <2>2. QED
    BY <1>1, <1>2, <2>1
<1>4. Ends(13, 8)
  <2>1. 13 \in 0 .. 14 /\ 13 + 1 = 14 /\ 4 \in Nat \ {0} /\ 8192 \in Nat
        /\ 4 * 8192 = 32768 /\ 2 * 4 = 8
    OBVIOUS
  <2>2. QED
    BY <1>1, <1>3, <2>1
<1>5. Ends(12, 16)
  <2>1. 12 \in 0 .. 14 /\ 12 + 1 = 13 /\ 8 \in Nat \ {0} /\ 4096 \in Nat
        /\ 8 * 4096 = 32768 /\ 2 * 8 = 16
    OBVIOUS
  <2>2. QED
    BY <1>1, <1>4, <2>1
<1>6. Ends(11, 32)
  <2>1. 11 \in 0 .. 14 /\ 11 + 1 = 12 /\ 16 \in Nat \ {0} /\ 2048 \in Nat
        /\ 16 * 2048 = 32768 /\ 2 * 16 = 32
    OBVIOUS
  <2>2. QED
    BY <1>1, <1>5, <2>1
<1>7. Ends(10, 64)
  <2>1. 10 \in 0 .. 14 /\ 10 + 1 = 11 /\ 32 \in Nat \ {0} /\ 1024 \in Nat
        /\ 32 * 1024 = 32768 /\ 2 * 32 = 64
    OBVIOUS
  <2>2. QED
    BY <1>1, <1>6, <2>1
<1>8. Ends(9, 128)
  <2>1. 9 \in 0 .. 14 /\ 9 + 1 = 10 /\ 64 \in Nat \ {0} /\ 512 \in Nat
        /\ 64 * 512 = 32768 /\ 2 * 64 = 128
    OBVIOUS
  <2>2. QED
    BY <1>1, <1>7, <2>1
<1>9. Ends(8, 256)
  <2>1. 8 \in 0 .. 14 /\ 8 + 1 = 9 /\ 128 \in Nat \ {0} /\ 256 \in Nat
        /\ 128 * 256 = 32768 /\ 2 * 128 = 256
    OBVIOUS
  <2>2. QED
    BY <1>1, <1>8, <2>1
<1>10. Ends(7, 512)
  <2>1. 7 \in 0 .. 14 /\ 7 + 1 = 8 /\ 256 \in Nat \ {0} /\ 128 \in Nat
        /\ 256 * 128 = 32768 /\ 2 * 256 = 512
    OBVIOUS
  <2>2. QED
    BY <1>1, <1>9, <2>1
<1>11. Ends(6, 1024)
  <2>1. 6 \in 0 .. 14 /\ 6 + 1 = 7 /\ 512 \in Nat \ {0} /\ 64 \in Nat
        /\ 512 * 64 = 32768 /\ 2 * 512 = 1024
    OBVIOUS
  <2>2. QED
    BY <1>1, <1>10, <2>1
<1>12. Ends(5, 2048)
  <2>1. 5 \in 0 .. 14 /\ 5 + 1 = 6 /\ 1024 \in Nat \ {0} /\ 32 \in Nat
        /\ 1024 * 32 = 32768 /\ 2 * 1024 = 2048
    OBVIOUS
  <2>2. QED
    BY <1>1, <1>11, <2>1
<1>13. Ends(4, 4096)
  <2>1. 4 \in 0 .. 14 /\ 4 + 1 = 5 /\ 2048 \in Nat \ {0} /\ 16 \in Nat
        /\ 2048 * 16 = 32768 /\ 2 * 2048 = 4096
    OBVIOUS
  <2>2. QED
    BY <1>1, <1>12, <2>1
<1>14. Ends(3, 8192)
  <2>1. 3 \in 0 .. 14 /\ 3 + 1 = 4 /\ 4096 \in Nat \ {0} /\ 8 \in Nat
        /\ 4096 * 8 = 32768 /\ 2 * 4096 = 8192
    OBVIOUS
  <2>2. QED
    BY <1>1, <1>13, <2>1
<1>15. Ends(2, 16384)
  <2>1. 2 \in 0 .. 14 /\ 2 + 1 = 3 /\ 8192 \in Nat \ {0} /\ 4 \in Nat
        /\ 8192 * 4 = 32768 /\ 2 * 8192 = 16384
    OBVIOUS
  <2>2. QED
    BY <1>1, <1>14, <2>1
<1>16. Ends(1, 32768)
  <2>1. 1 \in 0 .. 14 /\ 1 + 1 = 2 /\ 16384 \in Nat \ {0} /\ 2 \in Nat
        /\ 16384 * 2 = 32768 /\ 2 * 16384 = 32768
    OBVIOUS
  <2>2. QED
    BY <1>1, <1>15, <2>1
<1>17. Ends(0, 65536)
  <2>1. 0 \in 0 .. 14 /\ 0 + 1 = 1 /\ 32768 \in Nat \ {0} /\ 1 \in Nat
        /\ 32768 * 1 = 32768 /\ 2 * 32768 = 65536
    OBVIOUS
  <2>2. QED
    BY <1>1, <1>16, <2>1
<1>18. reg[0] % 65536 = 0
  BY <1>17 DEF Ends
<1>19. QED
  <2> DEFINE r == reg[0]
  <2>1. r \in Int /\ 0 <= r /\ r <= 65535 /\ r % 65536 = 0
    BY <1>18, RegIsReg DEF IsReg
  <2> HIDE DEF r
  <2>2. r = 0
    BY <2>1
  <2>3. QED
    BY <2>2 DEF r
=============================================================================
