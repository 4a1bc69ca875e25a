-------------------------------- MODULE DES --------------------------------
(***************************************************************************)
(* The hand-written DES (crypto/modern/symmetric/block/DES.cpp): one       *)
(* cipher object that is keyed, enciphers a block and deciphers the        *)
(* result, one step per Feistel round.                                     *)
(*                                                                         *)
(* A block, a key, a half and a subkey are sequences of bits, the most     *)
(* significant first; byte strings are sequences of 0 .. 255.  permute()   *)
(* always counts its table's positions from bit 63 of a uint64_t, so a     *)
(* value narrower than 64 bits has zeros in front unless it is shifted up: *)
(* feistel() does that, keyExpansion() does not.                           *)
(***************************************************************************)
EXTENDS Naturals, Sequences

CONSTANTS Keys,     \* the byte strings given to setKey()
          Blocks    \* the byte strings given to encryptBlock()

Byte == 0 .. 255
Bit  == {0, 1}

----------------------------------------------------------------------------
(* The tables. *)

IP ==
    << 58, 50, 42, 34, 26, 18, 10, 2, 60, 52, 44, 36, 28, 20, 12, 4, 62, 54, 46, 38, 30, 22, 14, 6, 64, 56, 48, 40, 32, 24, 16, 8,
       57, 49, 41, 33, 25, 17, 9, 1, 59, 51, 43, 35, 27, 19, 11, 3, 61, 53, 45, 37, 29, 21, 13, 5, 63, 55, 47, 39, 31, 23, 15, 7 >>

FP ==
    << 40, 8, 48, 16, 56, 24, 64, 32, 39, 7, 47, 15, 55, 23, 63, 31, 38, 6, 46, 14, 54, 22, 62, 30, 37, 5, 45, 13, 53, 21, 61, 29,
       36, 4, 44, 12, 52, 20, 60, 28, 35, 3, 43, 11, 51, 19, 59, 27, 34, 2, 42, 10, 50, 18, 58, 26, 33, 1, 41, 9, 49, 17, 57, 25 >>

E ==
    << 32, 1, 2, 3, 4, 5, 4, 5, 6, 7, 8, 9, 8, 9, 10, 11, 12, 13, 12, 13, 14, 15, 16, 17, 16, 17, 18, 19, 20, 21, 20, 21,
       22, 23, 24, 25, 24, 25, 26, 27, 28, 29, 28, 29, 30, 31, 32, 1 >>

P ==
    << 16, 7, 20, 21, 29, 12, 28, 17, 1, 15, 23, 26, 5, 18, 31, 10, 2, 8, 24, 14, 32, 27, 3, 9, 19, 13, 30, 6, 22, 11, 4, 25 >>

PC1 ==
    << 57, 49, 41, 33, 25, 17, 9, 1, 58, 50, 42, 34, 26, 18, 10, 2, 59, 51, 43, 35, 27, 19, 11, 3, 60, 52, 44, 36, 63, 55, 47, 39,
       31, 23, 15, 7, 62, 54, 46, 38, 30, 22, 14, 6, 61, 53, 45, 37, 29, 21, 13, 5, 28, 20, 12, 4 >>

PC2 ==
    << 14, 17, 11, 24, 1, 5, 3, 28, 15, 6, 21, 10, 23, 19, 12, 4, 26, 8, 16, 7, 27, 20, 13, 2, 41, 52, 31, 37, 47, 55, 30, 40,
       51, 45, 33, 48, 44, 49, 39, 56, 34, 53, 46, 42, 50, 36, 29, 32 >>

Shifts == << 1, 1, 2, 2, 2, 2, 2, 2, 1, 2, 2, 2, 2, 2, 2, 1 >>

S == <<
    << 14, 4, 13, 1, 2, 15, 11, 8, 3, 10, 6, 12, 5, 9, 0, 7, 0, 15, 7, 4, 14, 2, 13, 1, 10, 6, 12, 11, 9, 5, 3, 8,
       4, 1, 14, 8, 13, 6, 2, 11, 15, 12, 9, 7, 3, 10, 5, 0, 15, 12, 8, 2, 4, 9, 1, 7, 5, 11, 3, 14, 10, 0, 6, 13 >>,
    << 15, 1, 8, 14, 6, 11, 3, 4, 9, 7, 2, 13, 12, 0, 5, 10, 3, 13, 4, 7, 15, 2, 8, 14, 12, 0, 1, 10, 6, 9, 11, 5,
       0, 14, 7, 11, 10, 4, 13, 1, 5, 8, 12, 6, 9, 3, 2, 15, 13, 8, 10, 1, 3, 15, 4, 2, 11, 6, 7, 12, 0, 5, 14, 9 >>,
    << 10, 0, 9, 14, 6, 3, 15, 5, 1, 13, 12, 7, 11, 4, 2, 8, 13, 7, 0, 9, 3, 4, 6, 10, 2, 8, 5, 14, 12, 11, 15, 1,
       13, 6, 4, 9, 8, 15, 3, 0, 11, 1, 2, 12, 5, 10, 14, 7, 1, 10, 13, 0, 6, 9, 8, 7, 4, 15, 14, 3, 11, 5, 2, 12 >>,
    << 7, 13, 14, 3, 0, 6, 9, 10, 1, 2, 8, 5, 11, 12, 4, 15, 13, 8, 11, 5, 6, 15, 0, 3, 4, 7, 2, 12, 1, 10, 14, 9,
       10, 6, 9, 0, 12, 11, 7, 13, 15, 1, 3, 14, 5, 2, 8, 4, 3, 15, 0, 6, 10, 1, 13, 8, 9, 4, 5, 11, 12, 7, 2, 14 >>,
    << 2, 12, 4, 1, 7, 10, 11, 6, 8, 5, 3, 15, 13, 0, 14, 9, 14, 11, 2, 12, 4, 7, 13, 1, 5, 0, 15, 10, 3, 9, 8, 6,
       4, 2, 1, 11, 10, 13, 7, 8, 15, 9, 12, 5, 6, 3, 0, 14, 11, 8, 12, 7, 1, 14, 2, 13, 6, 15, 0, 9, 10, 4, 5, 3 >>,
    << 12, 1, 10, 15, 9, 2, 6, 8, 0, 13, 3, 4, 14, 7, 5, 11, 10, 15, 4, 2, 7, 12, 9, 5, 6, 1, 13, 14, 0, 11, 3, 8,
       9, 14, 15, 5, 2, 8, 12, 3, 7, 0, 4, 10, 1, 13, 11, 6, 4, 3, 2, 12, 9, 5, 15, 10, 11, 14, 1, 7, 6, 0, 8, 13 >>,
    << 4, 11, 2, 14, 15, 0, 8, 13, 3, 12, 9, 7, 5, 10, 6, 1, 13, 0, 11, 7, 4, 9, 1, 10, 14, 3, 5, 12, 2, 15, 8, 6,
       1, 4, 11, 13, 12, 3, 7, 14, 10, 15, 6, 8, 0, 5, 9, 2, 6, 11, 13, 8, 1, 4, 10, 7, 9, 5, 0, 15, 14, 2, 3, 12 >>,
    << 13, 2, 8, 4, 6, 15, 11, 1, 10, 9, 3, 14, 5, 0, 12, 7, 1, 15, 13, 8, 10, 3, 7, 4, 12, 5, 6, 11, 0, 14, 9, 2,
       7, 11, 4, 1, 9, 12, 14, 2, 0, 6, 10, 13, 15, 3, 5, 8, 2, 1, 14, 7, 4, 10, 8, 13, 15, 12, 9, 0, 3, 5, 6, 11 >> >>

----------------------------------------------------------------------------
(* Bits and bytes. *)

Permute(input, table) == [i \in DOMAIN table |-> input[table[i]]]

Xor(a, b) == [i \in DOMAIN a |-> (a[i] + b[i]) % 2]

Zeros(n) == [i \in 1 .. n |-> 0]

Weight == << 128, 64, 32, 16, 8, 4, 2, 1 >>

\* Eight bytes as a uint64_t, and the way back.
ToBits(bytes) ==
    [i \in 1 .. 64 |-> (bytes[(i - 1) \div 8 + 1] \div Weight[((i - 1) % 8) + 1]) % 2]

ToBytes(bits) ==
    [j \in 1 .. 8 |-> LET b == 8 * (j - 1)
                      IN  128 * bits[b + 1] + 64 * bits[b + 2] + 32 * bits[b + 3]
                            + 16 * bits[b + 4] + 8 * bits[b + 5] + 4 * bits[b + 6]
                            + 2 * bits[b + 7] + bits[b + 8]]

----------------------------------------------------------------------------
(* The key schedule.  A rotation by one place, done as often as the shifts *)
(* of the rounds so far add up to.                                         *)

Turned[round \in 0 .. 16] == IF round = 0 THEN 0 ELSE Turned[round - 1] + Shifts[round]

RotateLeft(half, n) == [i \in 1 .. 28 |-> half[((i - 1 + n) % 28) + 1]]

\* permute() counts from bit 63 of the 56-bit value.
Schedule(C, D) ==
    [round \in 1 .. 16 |->
        Permute(Zeros(8) \o RotateLeft(C, Turned[round]) \o RotateLeft(D, Turned[round]), PC2)]

KeyExpansion(key) ==
    LET bits == Permute(ToBits(key), PC1)
    IN  Schedule(SubSeq(bits, 1, 28), SubSeq(bits, 29, 56))

----------------------------------------------------------------------------
(* One round. *)

\* What S-box i makes of the six bits x[6i-5 .. 6i].
SBox(i, x) ==
    LET c == 6 * (i - 1)
        row == 2 * x[c + 1] + x[c + 6]
        col == 8 * x[c + 2] + 4 * x[c + 3] + 2 * x[c + 4] + x[c + 5]
    IN  S[i][16 * row + col + 1]

SBoxes(x) == [i \in 1 .. 32 |-> (SBox((i - 1) \div 4 + 1, x) \div Weight[((i - 1) % 4) + 5]) % 2]

Feistel(R, subkey) == Permute(SBoxes(Xor(Permute(R, E), subkey)), P)

Round(h, subkey) == [L |-> h.R, R |-> Xor(h.L, Feistel(h.R, subkey))]

\* The halves a block starts with, and the block the last halves make.
Split(block) ==
    LET permuted == Permute(ToBits(block), IP)
    IN  [L |-> SubSeq(permuted, 1, 32), R |-> SubSeq(permuted, 33, 64)]

\* The halves put together without the swap.
Join_Unswapped(h) == ToBytes(Permute(h.L \o h.R, FP))

Join(h) == ToBytes(Permute(h.R \o h.L, FP))

----------------------------------------------------------------------------
(* The cipher object and its calls. *)

VARIABLES key,      \* history: the last key accepted, << >> before any
          subkeys,  \* m_subkeys
          text,     \* the block being enciphered, << >> between calls
          enc,      \* the halves before round 1, after round 1, ... of encryptBlock()
          dec       \* the same of decryptBlock()

vars == << key, subkeys, text, enc, dec >>

Init ==
    /\ key = << >>
    /\ subkeys = [round \in 1 .. 16 |-> Zeros(48)]
    /\ text = << >>
    /\ enc = << >>
    /\ dec = << >>

\* setKey() refuses a key that is not eight bytes long.
SetKey(k) ==
    /\ enc = << >>
    /\ Len(k) = 8
    /\ key' = k
    /\ subkeys' = KeyExpansion(k)
    /\ UNCHANGED << text, enc, dec >>

EncryptBlock(b) ==
    /\ enc = << >>
    /\ Len(b) = 8
    /\ text' = b
    /\ enc' = << Split(b) >>
    /\ UNCHANGED << key, subkeys, dec >>

EncryptRound ==
    /\ Len(enc) \in 1 .. 16
    /\ enc' = Append(enc, Round(enc[Len(enc)], subkeys[Len(enc)]))
    /\ UNCHANGED << key, subkeys, text, dec >>

\* The caller hands the ciphertext back.
DecryptBlock ==
    /\ Len(enc) = 17
    /\ dec = << >>
    /\ dec' = << Split(Join(enc[17])) >>
    /\ UNCHANGED << key, subkeys, text, enc >>

\* The subkeys in the order encryption used them.
DecryptRound_Ascending ==
    /\ Len(dec) \in 1 .. 16
    /\ dec' = Append(dec, Round(dec[Len(dec)], subkeys[Len(dec)]))
    /\ UNCHANGED << key, subkeys, text, enc >>

DecryptRound ==
    /\ Len(dec) \in 1 .. 16
    /\ dec' = Append(dec, Round(dec[Len(dec)], subkeys[17 - Len(dec)]))
    /\ UNCHANGED << key, subkeys, text, enc >>

Return ==
    /\ Len(dec) = 17
    /\ text' = << >>
    /\ enc' = << >>
    /\ dec' = << >>
    /\ UNCHANGED << key, subkeys >>

Next ==
    \/ \E k \in Keys : SetKey(k)
    \/ \E b \in Blocks : EncryptBlock(b)
    \/ EncryptRound
    \/ DecryptBlock
    \/ DecryptRound
    \/ Return

Spec == Init /\ [][Next]_vars

----------------------------------------------------------------------------
Swap(h) == [L |-> h.R, R |-> h.L]

\* Deciphering walks the halves of enciphering backwards, the two swapped: after
\* j rounds decryptBlock() stands where encryptBlock() stood before its last j.
Mirror == \A j \in DOMAIN dec : dec[j] = Swap(enc[18 - j])

HalvesOfBits == [L : [1 .. 32 -> Bit], R : [1 .. 32 -> Bit]]

\* Each of encryption's halves is a round further than the one before, under the subkeys
\* as they are, and decryption has begun only on all of them.
Inv ==
    /\ subkeys \in [1 .. 16 -> [1 .. 48 -> Bit]]
    /\ enc \in Seq(HalvesOfBits) /\ Len(enc) <= 17
    /\ enc # << >> => text \in Seq(Byte) /\ Len(text) = 8 /\ enc[1] = Split(text)
    /\ \A i \in 1 .. Len(enc) - 1 : enc[i + 1] = Round(enc[i], subkeys[i])
    /\ dec \in Seq(HalvesOfBits) /\ Len(dec) <= 17
    /\ dec # << >> => Len(enc) = 17
    /\ Mirror

\* decryptBlock() gives back the very bytes encryptBlock() was called with,
\* whatever the key, and with the all-zero subkeys of an object never keyed.
RoundTrip == Len(dec) = 17 => Join(dec[17]) = text

\* The low bit of a key byte is a parity bit: keys that differ in nothing else
\* give the same subkeys.
ParityIgnored ==
    \A k \in Keys :
        Len(k) = 8 /\ Len(key) = 8 /\ (\A i \in 1 .. 8 : k[i] \div 2 = key[i] \div 2)
            => KeyExpansion(k) = subkeys

\* The test's standard vector: this key turns "Now is t" into this ciphertext.
VectorKey    == << 1, 35, 69, 103, 137, 171, 205, 239 >>
VectorText   == << 78, 111, 119, 32, 105, 115, 32, 116 >>
VectorCipher == << 63, 164, 14, 138, 152, 77, 72, 21 >>

KnownAnswer == key = VectorKey /\ text = VectorText /\ Len(enc) = 17 => Join(enc[17]) = VectorCipher

=============================================================================
