-------------------------------- MODULE RSA --------------------------------
(***************************************************************************)
(* The hand-written RSA (crypto/modern/asymmetric/RSA.cpp) and the number  *)
(* helpers it uses: a key pair is generated, a caller's key enciphers one  *)
(* byte and deciphers the result, one step per turn of modPow()'s loop.    *)
(*                                                                         *)
(* uint64_t is a word that wraps.  A key is a pair of words.               *)
(***************************************************************************)
EXTENDS Integers

CONSTANTS Words,     \* 2^64: how many values a uint64_t has
          KeyPairs,  \* the [n, e, d] callers hand to encrypt() and decrypt()
          Messages,  \* the bytes enciphered
          Junk,      \* words that may lie behind a vector on the heap
          NoKeys, Failed  \* before generateKeyPair(), and when it throws

Word == 0 .. Words - 1
Wrap(x) == x % Words

----------------------------------------------------------------------------
(* crypto/core/utils.cpp. *)

gcd[a, b \in Nat] == IF b = 0 THEN a ELSE gcd[b, a % b]

modInverse(a, m) ==
    LET inverses == {x \in 1 .. m - 1 : ((a % m) * x) % m = 1}
    IN  IF inverses = {} THEN -1 ELSE CHOOSE x \in inverses : \A y \in inverses : x <= y

----------------------------------------------------------------------------
(* mulMod()'s loop: double and add, each sum a word before it is reduced. *)

Doubling[b \in Word] ==
    [a \in Word |-> [res \in Word |-> [m \in Word \ {0} |->
        IF b = 0 THEN res
        ELSE Doubling[b \div 2][Wrap(a * 2) % m][IF b % 2 = 1 THEN Wrap(res + a) % m ELSE res][m]]]]

\* The final doubling's bit never added.
mulMod_LosesLast(a, b, m) == Doubling[b - (b % 2)][a % m][0][m]

mulMod(a, b, m) == Doubling[b][a % m][0][m]

----------------------------------------------------------------------------
VARIABLES generated, \* what generateKeyPair() returned: NoKeys, Failed or a key pair
          pair,      \* the key pair a caller uses
          m,         \* the byte being sent
          phase,     \* "idle", "encrypt", "sent" (a ciphertext exists), "decrypt", "done"
          base, exp, result,  \* modPow()'s locals
          base0, exp0         \* history: what modPow() was called with

vars == << generated, pair, m, phase, base, exp, result, base0, exp0 >>

Init ==
    /\ generated = NoKeys
    /\ pair \in KeyPairs
    /\ m = 0
    /\ phase = "idle"
    /\ base = 0 /\ exp = 0 /\ result = 0
    /\ base0 = 0 /\ exp0 = 0

p == 61
q == 53
e == 17
phi == (p - 1) * (q - 1)
d == modInverse(e, phi)

\* insert() gets its two iterators from two different vectors, so what it copies
\* is undefined: it throws because their distance is negative, or copies more
\* than eight bytes, and the word decodeUint64() finds at offset 8 is whatever
\* the heap held.
generateKeyPair ==
    /\ generated = NoKeys
    /\ phase = "idle"
    /\ gcd[e, phi] = 1
    /\ d # -1
    /\ \/ generated' = Failed
       \/ \E x, y \in Junk : generated' = [n |-> p * q, e |-> x, d |-> y]
    /\ UNCHANGED << pair, m, phase, base, exp, result, base0, exp0 >>

Call(b, x) ==
    /\ base' = b % pair.n /\ exp' = x /\ result' = 1
    /\ base0' = b /\ exp0' = x

\* encrypt() refuses a byte that is no smaller than n.
encrypt(byte) ==
    /\ phase = "idle"
    /\ byte < pair.n
    /\ m' = byte
    /\ phase' = "encrypt"
    /\ Call(byte, pair.e)
    /\ UNCHANGED << generated, pair >>

\* One turn of modPow()'s loop.
modPow ==
    /\ phase \in {"encrypt", "decrypt"}
    /\ exp > 0
    /\ result' = IF exp % 2 = 1 THEN mulMod(result, base, pair.n) ELSE result
    /\ base' = mulMod(base, base, pair.n)
    /\ exp' = exp \div 2
    /\ UNCHANGED << generated, pair, m, phase, base0, exp0 >>

Return ==
    /\ phase \in {"encrypt", "decrypt"}
    /\ exp = 0
    /\ phase' = IF phase = "encrypt" THEN "sent" ELSE "done"
    /\ UNCHANGED << generated, pair, m, base, exp, result, base0, exp0 >>

decrypt ==
    /\ phase = "sent"
    /\ phase' = "decrypt"
    /\ Call(result, pair.d)
    /\ UNCHANGED << generated, pair, m >>

Next ==
    \/ generateKeyPair
    \/ \E byte \in Messages : encrypt(byte)
    \/ modPow
    \/ Return
    \/ decrypt

Spec == Init /\ [][Next]_vars

----------------------------------------------------------------------------
\* b to the power x modulo n, in unbounded arithmetic: PowerMod[x][n][b].
PowerMod[x \in Word] ==
    [n \in Word \ {0} |-> [b \in Word |->
        IF x = 0 THEN 1 % n
        ELSE IF x % 2 = 0 THEN PowerMod[x \div 2][n][(b * b) % n]
             ELSE (b * PowerMod[x - 1][n][b]) % n]]

\* What makes e and d the two halves of one key.
BelongTogether(k) ==
    \A byte \in Messages :
        byte < k.n => PowerMod[k.d][k.n][PowerMod[k.e][k.n][byte]] = byte

\* What modPow() has gathered times what is left to do is the power it was asked
\* for, as long as twice the modulus fits the word.
NothingLost ==
    phase \in {"encrypt", "decrypt"} /\ 2 * pair.n <= Words
        => (result * PowerMod[exp][pair.n][base]) % pair.n = PowerMod[exp0][pair.n][base0]

\* decrypt() gives back the byte, which is the low byte of its result, for a key
\* pair that belongs together.
RoundTrip == phase = "done" /\ 2 * pair.n <= Words => result % 256 = m

Inv ==
    /\ pair \in KeyPairs
    /\ phase \in {"idle", "encrypt", "sent", "decrypt", "done"}
    /\ phase # "idle" /\ 2 * pair.n <= Words =>
          /\ m \in Messages /\ m < pair.n
          /\ {base, result, base0} \subseteq 0 .. pair.n - 1 /\ {exp, exp0} \subseteq Word
          /\ NothingLost
          /\ phase = "encrypt" => base0 = m /\ exp0 = pair.e
          /\ phase = "sent" => result = PowerMod[pair.e][pair.n][m]
          /\ phase = "decrypt" => base0 = PowerMod[pair.e][pair.n][m] /\ exp0 = pair.d
          /\ phase = "done" => result = m

=============================================================================
