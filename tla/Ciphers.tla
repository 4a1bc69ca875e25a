------------------------------ MODULE Ciphers ------------------------------
(***************************************************************************)
(* The library's hand-written ciphers side by side: a program takes one of *)
(* them, gives it keys and texts, and has what came out deciphered again.  *)
(* Each cipher is a module of its own; here are the object in use and what *)
(* is expected of it.                                                      *)
(***************************************************************************)
EXTENDS Integers, Sequences

CONSTANTS
    DESKeys, DESBlocks,
    AESKeySizes, AESKeys, AESBlocks,
    LetterCiphers, LetterTexts,      \* Caesar, Affine and Vigenere
    MaxInt,                          \* the largest int
    HillKeys, HillTexts,
    PlayfairKeys, PlayfairTexts,
    RSAWords, RSAKeyPairs, RSABytes, HeapWords, NoKeys, Failed,
    BlockTexts, BlockKeys, KeySize, BlockSize, MaxPadding, HeapBytes,
    Enc, Dec,                        \* a block cipher and its inverse
    SSLObjects, SSLTexts, IntLimit

\* What the proofs take of the keys and texts, and of the machine's limits.
ASSUME TextAssumption ==
    /\ BlockTexts \subseteq Seq(0 .. 255) /\ HeapBytes \subseteq 0 .. 255
    /\ BlockSize \in 1 .. 255 /\ MaxPadding = BlockSize
    /\ BlockKeys \subseteq Seq(0 .. 18)

\* An object around a substitution; no sum it makes of its
\* constructor's arguments leaves an int.
ASSUME LettersAssumption ==
    /\ \A c \in LetterCiphers :
          \/ c.kind = "Caesar" /\ c.shift \in 25 - MaxInt .. MaxInt - 25
          \/ c.kind = "Affine" /\ {c.a, c.b} \subseteq -(MaxInt \div 52) .. MaxInt \div 52
          \/ c.kind = "Vigenere" /\ c.key \in Seq(-128 .. 127) \ {<< >>}
    /\ LetterTexts \subseteq Seq(-128 .. 127)

ASSUME PlayfairAssumption ==
    PlayfairKeys \subseteq Seq(-128 .. 127) /\ PlayfairTexts \subseteq Seq(-128 .. 127)

ASSUME DESAssumption == DESKeys \subseteq Seq(0 .. 255) /\ DESBlocks \subseteq Seq(0 .. 255)

ASSUME AESAssumption ==
    /\ AESKeySizes \subseteq {16, 24, 32}
    /\ AESKeys \subseteq Seq(0 .. 255) /\ AESBlocks \subseteq Seq(0 .. 255)

ASSUME SSLAssumption ==
    /\ \A o \in SSLObjects :
          /\ o.class \in {"AESCBC", "DES", "RSA"} /\ o.size \in Nat
          /\ o.class = "RSA" => o.size \div 8 <= 2 * IntLimit
    /\ SSLTexts \subseteq Nat
    /\ IntLimit \in Nat \ {0}

VARIABLES
    which,     \* the cipher in use
    key,       \* its key
    schedule,  \* what the object made of the key
    phase,     \* how far a call has come, where the cipher keeps track of it
    text,      \* the input
    sent,      \* what enciphering has made of it so far
    back,      \* what deciphering has made of that so far
    local1, local2, local3, local4, local5  \* the locals of the call that runs

vars == << which, key, schedule, phase, text, sent, back, local1, local2, local3, local4, local5 >>

des == INSTANCE DES WITH Keys <- DESKeys, Blocks <- DESBlocks,
                         subkeys <- schedule, enc <- sent, dec <- back
aes == INSTANCE AES WITH KeySizes <- AESKeySizes, Keys <- AESKeys, Blocks <- AESBlocks,
                         size <- phase, words <- schedule, enc <- sent, dec <- back
subst == INSTANCE Substitution WITH Ciphers <- LetterCiphers, Texts <- LetterTexts,
                         cipher <- key, keyIndex <- local1
hill == INSTANCE Hill WITH Keys <- HillKeys, Texts <- HillTexts,
                         object <- phase, matrix <- schedule, inverse <- local1
playfair == INSTANCE Playfair WITH Keys <- PlayfairKeys, Texts <- PlayfairTexts,
                         matrix <- schedule, letters <- text, rest <- local1, plain <- local2
rsa == INSTANCE RSA WITH Words <- RSAWords, KeyPairs <- RSAKeyPairs, Messages <- RSABytes,
                         Junk <- HeapWords, generated <- schedule, pair <- key, m <- text,
                         base <- local1, exp <- local2, result <- local3,
                         base0 <- local4, exp0 <- local5
blocks == INSTANCE BlockText WITH Texts <- BlockTexts, Keys <- BlockKeys, Junk <- HeapBytes,
                         under <- schedule, data <- sent, out <- back, hex <- local1,
                         edited <- local2, overran <- local3
ssl == INSTANCE OpenSSL WITH Objects <- SSLObjects, Texts <- SSLTexts,
                         object <- key, keys <- schedule, cipher <- sent, plain <- back,
                         fn <- phase, given <- local1, next <- local2, held <- local3,
                         total <- local4, outcome <- local5

\* What BlockText takes of the block cipher: under any key it inverts.
ASSUME CipherAssumption ==
    \A k \in blocks!KeyBytes : \A b \in [1 .. BlockSize -> 0 .. 255] :
        /\ Enc[k][b] \in [1 .. BlockSize -> 0 .. 255]
        /\ Dec[k][b] \in [1 .. BlockSize -> 0 .. 255]
        /\ Dec[k][Enc[k][b]] = b

\* A key pair is two halves of one key.
ASSUME RSAAssumption ==
    /\ RSAWords \in Nat \ {0} /\ RSABytes \subseteq 0 .. 255
    /\ \A k \in RSAKeyPairs :
          /\ k.n \in 2 .. RSAWords - 1 /\ {k.e, k.d} \subseteq 0 .. RSAWords - 1
          /\ rsa!BelongTogether(k)

Init ==
    \/ which = "DES" /\ des!Init /\ phase = 0
        /\ local1 = 0 /\ local2 = 0 /\ local3 = 0 /\ local4 = 0 /\ local5 = 0
    \/ which = "AES" /\ aes!Init
        /\ local1 = 0 /\ local2 = 0 /\ local3 = 0 /\ local4 = 0 /\ local5 = 0
    \/ which = "letters" /\ subst!Init /\ schedule = 0 /\ phase = 0
        /\ local2 = 0 /\ local3 = 0 /\ local4 = 0 /\ local5 = 0
    \/ which = "Hill" /\ hill!Init /\ local2 = 0 /\ local3 = 0 /\ local4 = 0 /\ local5 = 0
    \/ which = "Playfair" /\ playfair!Init /\ key = 0 /\ local3 = 0 /\ local4 = 0 /\ local5 = 0
    \/ which = "RSA" /\ rsa!Init /\ sent = 0 /\ back = 0
    \/ which = "text" /\ blocks!Init /\ local4 = 0 /\ local5 = 0
    \/ which = "OpenSSL" /\ ssl!Init

from4 == << local4, local5 >>
from3 == << local3, from4 >>
from2 == << local2, from3 >>

UseDES == which = "DES" /\ des!Next /\ UNCHANGED << which, phase, local1, from2 >>
UseAES == which = "AES" /\ aes!Next /\ UNCHANGED << which, local1, from2 >>
UseLetters == which = "letters" /\ subst!Next /\ UNCHANGED << which, schedule, phase, from2 >>
UseHill == which = "Hill" /\ hill!Next /\ UNCHANGED << which, from2 >>
UsePlayfair == which = "Playfair" /\ playfair!Next /\ UNCHANGED << which, key, from3 >>
UseRSA == which = "RSA" /\ rsa!Next /\ UNCHANGED << which, sent, back >>
UseText == which = "text" /\ blocks!Next /\ UNCHANGED << which, from4 >>
UseOpenSSL == which = "OpenSSL" /\ ssl!Next /\ UNCHANGED which

Next == UseDES \/ UseAES \/ UseLetters \/ UseHill \/ UsePlayfair \/ UseRSA \/ UseText
        \/ UseOpenSSL

Spec == Init /\ [][Next]_vars

----------------------------------------------------------------------------
\* Whatever the key, the ciphers of crypto/modern give back the block or the byte they
\* were given, and RSA's square-and-multiply loop keeps the residue on its way, while
\* twice the modulus fits the word.
ModernRoundTrip ==
    /\ which = "DES" => des!RoundTrip
    /\ which = "AES" => aes!RoundTrip
    /\ which = "RSA" => rsa!NothingLost /\ rsa!RoundTrip

\* DES and AES undo enciphering round by round, not only at the end: each round of
\* decryptBlock() stands where a round of encryptBlock() stood.
Mirror ==
    /\ which = "DES" => des!Mirror
    /\ which = "AES" => aes!Mirror

\* Caesar, Affine, Vigenere and Playfair give back the text, the first three with
\* capitals, small letters and all else in place.  Playfair's square holds every letter
\* but J once, whatever the key, and it cuts the text into pairs of unlike letters that
\* hold all of it.
ClassicRoundTrip ==
    /\ which = "letters" => subst!RoundTrip /\ subst!SameShape
    /\ which = "Playfair" => playfair!MatrixIsAlphabet /\ playfair!WellCut /\ playfair!RoundTrip

\* What becomes of a key before the first letter or block: AES gives the standard's
\* ciphertexts for the standard's vectors at all three key sizes; the parity bits of a
\* DES key do not count; Hill refuses the keys whose matrix has no inverse modulo 26
\* and no others, keeps the inverse of the rest, and gives back what it enciphers.
KeyRight ==
    /\ which = "AES" => aes!KnownAnswer
    /\ which = "DES" => des!ParityIgnored
    /\ which = "Hill" => hill!RefusedRightly /\ hill!InverseInverts /\ hill!RoundTrip

\* The window's text comes back through padding, blocks and hex under the same key,
\* however it was typed.  Only hex a user has changed makes the block loop read behind
\* its data, and hex cut at a block's end deciphers to a beginning of the text.
TextReturns ==
    which = "text" => blocks!RoundTrip /\ blocks!OverrunOnlyByEdit /\ blocks!PrefixSurvives

\* What the classes around OpenSSL do with any lengths and any failures: a ciphertext
\* comes back as the text, or as so much of it as an int counts; no call writes past its
\* buffer; and what a call leaves allocated when it throws is known, call by call.
LibraryAccounted ==
    which = "OpenSSL" => ssl!RoundTrip /\ ssl!Lengths /\ ssl!FitsBuffer /\ ssl!LeftBehind

=============================================================================
