--------------------------- MODULE RandGenerator ---------------------------
(***************************************************************************)
(* rand_generator.c: the 16-bit shift register behind the random bytes of  *)
(* the secure responses.  It is started from a timer, and may start at 0.  *)
(***************************************************************************)
EXTENDS Integers, FiniteSetsExt

Reg == 0 .. 65535

\* The update of reg: the term reg >> 16 & 1 is always 0 in a uint16_t, and the
\* exclusive or of the other four is their sum modulo 2.
NextReg(r) ==
    (r \div 2) + 32768 * ((r \div 32768 + r \div 8192 + r \div 16 + r) % 2)

\* The registers of the eight rounds of one call.
Rounds(r) == LET reg[i \in 0 .. 8] == IF i = 0 THEN r ELSE NextReg(reg[i - 1]) IN reg

\* The byte, low bit first, and the register the call leaves behind.
get_rand_byte(r) ==
    [byte |-> MapThenSumSet(LAMBDA i : (Rounds(r)[i] % 2) * 2 ^ i, 0 .. 7),
     reg  |-> Rounds(r)[8]]

-----------------------------------------------------------------------------
\* The reference: the bits of the seed, then each bit the sum, modulo 2, of
\* those 16, 12, 3 and 1 places earlier.
RandBits(seed, n) ==
    LET bit[i \in 0 .. n - 1] ==
            IF i < 16 THEN (seed \div 2 ^ i) % 2
            ELSE (bit[i - 16] + bit[i - 12] + bit[i - 3] + bit[i - 1]) % 2
    IN  bit

\* The first bytes of a session, bit by bit, are the reference's.
FollowsRecurrence(seed) ==
    LET call[k \in 0 .. 4] == IF k = 0 THEN get_rand_byte(seed)
                              ELSE get_rand_byte(call[k - 1].reg)
        bits == RandBits(seed, 40)
    IN  \A k \in 0 .. 4, i \in 0 .. 7 : (call[k].byte \div 2 ^ i) % 2 = bits[8 * k + i]
=============================================================================
