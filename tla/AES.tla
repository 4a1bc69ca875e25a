-------------------------------- MODULE AES --------------------------------
(***************************************************************************)
(* The hand-written AES (crypto/modern/symmetric/block/AES.cpp): one       *)
(* cipher object of a key size, its key schedule built word by word, a     *)
(* block enciphered and the result deciphered, one step per round.         *)
(*                                                                         *)
(* Byte strings are sequences of 0 .. 255.  The State is s[row][column],   *)
(* rows and columns 1 .. 4, and a schedule word is a sequence of 4 bytes.  *)
(***************************************************************************)
EXTENDS Naturals, Sequences

CONSTANTS KeySizes,  \* the sizes a cipher object is built for
          Keys,      \* the byte strings given to setKey()
          Blocks     \* the byte strings given to encryptBlock()

Byte == 0 .. 255

SBOX ==
    << 99, 124, 119, 123, 242, 107, 111, 197, 48, 1, 103, 43, 254, 215, 171, 118, 202, 130, 201, 125, 250, 89, 71, 240, 173, 212, 162, 175, 156, 164, 114, 192,
       183, 253, 147, 38, 54, 63, 247, 204, 52, 165, 229, 241, 113, 216, 49, 21, 4, 199, 35, 195, 24, 150, 5, 154, 7, 18, 128, 226, 235, 39, 178, 117,
       9, 131, 44, 26, 27, 110, 90, 160, 82, 59, 214, 179, 41, 227, 47, 132, 83, 209, 0, 237, 32, 252, 177, 91, 106, 203, 190, 57, 74, 76, 88, 207,
       208, 239, 170, 251, 67, 77, 51, 133, 69, 249, 2, 127, 80, 60, 159, 168, 81, 163, 64, 143, 146, 157, 56, 245, 188, 182, 218, 33, 16, 255, 243, 210,
       205, 12, 19, 236, 95, 151, 68, 23, 196, 167, 126, 61, 100, 93, 25, 115, 96, 129, 79, 220, 34, 42, 144, 136, 70, 238, 184, 20, 222, 94, 11, 219,
       224, 50, 58, 10, 73, 6, 36, 92, 194, 211, 172, 98, 145, 149, 228, 121, 231, 200, 55, 109, 141, 213, 78, 169, 108, 86, 244, 234, 101, 122, 174, 8,
       186, 120, 37, 46, 28, 166, 180, 198, 232, 221, 116, 31, 75, 189, 139, 138, 112, 62, 181, 102, 72, 3, 246, 14, 97, 53, 87, 185, 134, 193, 29, 158,
       225, 248, 152, 17, 105, 217, 142, 148, 155, 30, 135, 233, 206, 85, 40, 223, 140, 161, 137, 13, 191, 230, 66, 104, 65, 153, 45, 15, 176, 84, 187, 22 >>

INV_SBOX ==
    << 82, 9, 106, 213, 48, 54, 165, 56, 191, 64, 163, 158, 129, 243, 215, 251, 124, 227, 57, 130, 155, 47, 255, 135, 52, 142, 67, 68, 196, 222, 233, 203,
       84, 123, 148, 50, 166, 194, 35, 61, 238, 76, 149, 11, 66, 250, 195, 78, 8, 46, 161, 102, 40, 217, 36, 178, 118, 91, 162, 73, 109, 139, 209, 37,
       114, 248, 246, 100, 134, 104, 152, 22, 212, 164, 92, 204, 93, 101, 182, 146, 108, 112, 72, 80, 253, 237, 185, 218, 94, 21, 70, 87, 167, 141, 157, 132,
       144, 216, 171, 0, 140, 188, 211, 10, 247, 228, 88, 5, 184, 179, 69, 6, 208, 44, 30, 143, 202, 63, 15, 2, 193, 175, 189, 3, 1, 19, 138, 107,
       58, 145, 17, 65, 79, 103, 220, 234, 151, 242, 207, 206, 240, 180, 230, 115, 150, 172, 116, 34, 231, 173, 53, 133, 226, 249, 55, 232, 28, 117, 223, 110,
       71, 241, 26, 113, 29, 41, 197, 137, 111, 183, 98, 14, 170, 24, 190, 27, 252, 86, 62, 75, 198, 210, 121, 32, 154, 219, 192, 254, 120, 205, 90, 244,
       31, 221, 168, 51, 136, 7, 199, 49, 177, 18, 16, 89, 39, 128, 236, 95, 96, 81, 127, 169, 25, 181, 74, 13, 45, 229, 122, 159, 147, 201, 156, 239,
       160, 224, 59, 77, 174, 42, 245, 176, 200, 235, 187, 60, 131, 83, 153, 97, 23, 43, 4, 126, 186, 119, 214, 38, 225, 105, 20, 99, 85, 33, 12, 125 >>

RCON == << 141, 1, 2, 4, 8, 16, 32, 64, 128, 27, 54 >>

----------------------------------------------------------------------------
(* Arithmetic on bytes. *)

XorNibble ==
    [a \in 0 .. 15 |-> [b \in 0 .. 15 |->
        8 * ((a \div 8 + b \div 8) % 2) + 4 * ((a \div 4 + b \div 4) % 2)
            + 2 * ((a \div 2 + b \div 2) % 2) + ((a + b) % 2)]]

Xor(a, b) == 16 * XorNibble[a \div 16][b \div 16] + XorNibble[a % 16][b % 16]

Xor4(a, b, c, d) == Xor(Xor(a, b), Xor(c, d))

XorWord(v, w) == [i \in 1 .. 4 |-> Xor(v[i], w[i])]

xtime(x) == Xor((2 * x) % 256, (x \div 128) * 27)

\* x times y, one bit of y after the other.
multiply[y \in 0 .. 15] ==
    [x \in Byte |-> IF y = 0 THEN 0 ELSE Xor((y % 2) * x, multiply[y \div 2][xtime(x)])]

----------------------------------------------------------------------------
(* The steps of a round. *)

Cell(f(_, _)) == [r \in 1 .. 4 |-> [c \in 1 .. 4 |-> f(r, c)]]

\* Row or column i of 1 .. 4, taken round.
At(i) == ((i - 1) % 4) + 1

subBytes(s) == Cell(LAMBDA r, c : SBOX[s[r][c] + 1])
invSubBytes(s) == Cell(LAMBDA r, c : INV_SBOX[s[r][c] + 1])
shiftRows(s) == Cell(LAMBDA r, c : s[r][At(c + r - 1)])

invShiftRows(s) == Cell(LAMBDA r, c : s[r][At(c + 5 - r)])

mixColumns(s) ==
    Cell(LAMBDA r, c : LET x == s[At(r)][c]
                           y == s[At(r + 1)][c]
                       IN  Xor4(xtime(x), Xor(xtime(y), y), s[At(r + 2)][c], s[At(r + 3)][c]))

invMixColumns(s) ==
    Cell(LAMBDA r, c : Xor4(multiply[14][s[At(r)][c]], multiply[11][s[At(r + 1)][c]],
                            multiply[13][s[At(r + 2)][c]], multiply[9][s[At(r + 3)][c]]))

addRoundKey(s, words, round) == Cell(LAMBDA r, c : Xor(s[r][c], words[4 * round + c][r]))

\* A block fills the State column by column.
Load(block) == Cell(LAMBDA r, c : block[4 * (c - 1) + r])
Store(s) == [i \in 1 .. 16 |-> s[At(i)][((i - 1) \div 4) + 1]]

----------------------------------------------------------------------------
VARIABLES size,   \* m_keySizeBytes
          key,    \* history: the last key accepted, << >> before any
          words,  \* m_roundKeys, as far as it has been filled
          text,   \* the block being enciphered, << >> between calls
          enc,    \* encryptBlock()'s State after addRoundKey 0, round 1, ...
          dec     \* decryptBlock()'s State after addRoundKey Nr, round Nr - 1, ...

vars == << size, key, words, text, enc, dec >>

Nk == size \div 4
Nr == Nk + 6
Expanded == Len(words) = 4 * (Nr + 1)

\* The round keys of an object that was never keyed are all zero.
Init ==
    /\ size \in KeySizes
    /\ key = << >>
    /\ words = [i \in 1 .. 4 * (Nr + 1) |-> << 0, 0, 0, 0 >>]
    /\ text = << >>
    /\ enc = << >>
    /\ dec = << >>

\* setKey() refuses a key of another size; keyExpansion() loads the first Nk words.
SetKey(k) ==
    /\ Expanded
    /\ enc = << >>
    /\ Len(k) = size
    /\ key' = k
    /\ words' = [i \in 1 .. Nk |-> SubSeq(k, 4 * i - 3, 4 * i)]
    /\ UNCHANGED << size, text, enc, dec >>

RotWord(w) == << w[2], w[3], w[4], w[1] >>
SubWord(w) == [j \in 1 .. 4 |-> SBOX[w[j] + 1]]

\* What word i, counted from 0, is made of besides the word Nk before it.
\* AES-256's extra substitution left out:
Temp_Short(i) ==
    LET w == words[i]
    IN  IF i % Nk = 0 THEN XorWord(SubWord(RotWord(w)), << RCON[i \div Nk + 1], 0, 0, 0 >>) ELSE w

Temp(i) ==
    LET w == words[i]
    IN  CASE i % Nk = 0           -> XorWord(SubWord(RotWord(w)), << RCON[i \div Nk + 1], 0, 0, 0 >>)
          [] Nk > 6 /\ i % Nk = 4 -> SubWord(w)
          [] OTHER                -> w

ExpandWord ==
    /\ ~Expanded
    /\ LET i == Len(words)
       IN  words' = Append(words, XorWord(words[i - Nk + 1], Temp(i)))
    /\ UNCHANGED << size, key, text, enc, dec >>

EncryptBlock(b) ==
    /\ Expanded
    /\ enc = << >>
    /\ Len(b) = 16
    /\ text' = b
    /\ enc' = << addRoundKey(Load(b), words, 0) >>
    /\ UNCHANGED << size, key, words, dec >>

EncryptRound ==
    LET round == Len(enc)
        shifted == shiftRows(subBytes(enc[round]))
    IN  /\ round \in 1 .. Nr
        /\ enc' = Append(enc, addRoundKey(IF round < Nr THEN mixColumns(shifted) ELSE shifted,
                                          words, round))
        /\ UNCHANGED << size, key, words, text, dec >>

\* The caller hands the ciphertext back.
DecryptBlock ==
    /\ Len(enc) = Nr + 1
    /\ dec = << >>
    /\ dec' = << addRoundKey(Load(Store(enc[Nr + 1])), words, Nr) >>
    /\ UNCHANGED << size, key, words, text, enc >>

DecryptRound ==
    LET round == Nr - Len(dec)
        keyed == addRoundKey(invSubBytes(invShiftRows(dec[Len(dec)])), words, round)
    IN  /\ Len(dec) \in 1 .. Nr
        /\ dec' = Append(dec, IF round > 0 THEN invMixColumns(keyed) ELSE keyed)
        /\ UNCHANGED << size, key, words, text, enc >>

Return ==
    /\ Len(dec) = Nr + 1
    /\ text' = << >>
    /\ enc' = << >>
    /\ dec' = << >>
    /\ UNCHANGED << size, key, words >>

Next ==
    \/ \E k \in Keys : SetKey(k)
    \/ ExpandWord
    \/ \E b \in Blocks : EncryptBlock(b)
    \/ EncryptRound
    \/ DecryptBlock
    \/ DecryptRound
    \/ Return

Spec == Init /\ [][Next]_vars

----------------------------------------------------------------------------
\* Deciphering undoes enciphering round by round: until its last round,
\* decryptBlock() stands in the middle of a round encryptBlock() went through.
Mirror ==
    \A j \in DOMAIN dec :
        j <= Nr => dec[j] = shiftRows(subBytes(enc[Nr + 1 - j]))

\* decryptBlock() gives back the very bytes encryptBlock() was called with, for
\* every key size, and with the all-zero round keys of an object never keyed.
RoundTrip == Len(dec) = Nr + 1 => Store(dec[Nr + 1]) = text

\* The NIST vectors (the test has that of 128 bits): the key 00 01 02 .. turns
\* 00 11 22 .. ff into these ciphertexts.
VectorKey(n) == [i \in 1 .. n |-> i - 1]
VectorText   == [i \in 1 .. 16 |-> 17 * (i - 1)]
VectorCipher ==
    CASE size = 16 -> << 105, 196, 224, 216, 106, 123, 4, 48, 216, 205, 183, 128, 112, 180, 197, 90 >>
      [] size = 24 -> << 221, 169, 124, 164, 134, 76, 223, 224, 110, 175, 112, 160, 236, 13, 113, 145 >>
      [] size = 32 -> << 142, 162, 183, 202, 81, 103, 69, 191, 234, 252, 73, 144, 75, 73, 96, 137 >>

KnownAnswer ==
    key = VectorKey(size) /\ text = VectorText /\ Len(enc) = Nr + 1 => Store(enc[Nr + 1]) = VectorCipher

----------------------------------------------------------------------------
State == [1 .. 4 -> [1 .. 4 -> Byte]]

\* What a round makes of the State before its key is added.
Stirred(s, round) ==
    LET shifted == shiftRows(subBytes(s))
    IN  IF round < Nr THEN mixColumns(shifted) ELSE shifted

Inv ==
    /\ size \in {16, 24, 32}
    /\ words \in Seq([1 .. 4 -> Byte]) /\ Len(words) \in Nk .. 4 * (Nr + 1)
    /\ enc \in Seq(State) /\ Len(enc) <= Nr + 1
    /\ enc # << >> =>
          /\ Expanded /\ text \in Seq(Byte) /\ Len(text) = 16
          /\ enc[1] = addRoundKey(Load(text), words, 0)
    /\ \A i \in 1 .. Len(enc) - 1 : enc[i + 1] = addRoundKey(Stirred(enc[i], i), words, i)
    /\ dec \in Seq(State) /\ Len(dec) <= Nr + 1
    /\ dec # << >> => Len(enc) = Nr + 1
    /\ Mirror
    /\ RoundTrip

=============================================================================
