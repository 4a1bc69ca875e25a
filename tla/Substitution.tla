---------------------------- MODULE Substitution ----------------------------
(***************************************************************************)
(* The classic ciphers that replace one letter at a time: Caesar, Vigenere *)
(* and Affine (crypto/classic).  A cipher object enciphers a text and      *)
(* deciphers what came out, one character per step.                        *)
(*                                                                         *)
(* A character is its code, a text a sequence of codes.  C++'s % rounds    *)
(* towards zero: Rem(-1, 26) is -1.                                        *)
(***************************************************************************)
EXTENDS Integers, Sequences, FiniteSets

CONSTANTS Ciphers,  \* [kind |-> "Caesar", shift], [kind |-> "Affine", a, b], [kind |-> "Vigenere", key]
          Texts     \* the texts enciphered

Abs(n) == IF n < 0 THEN -n ELSE n
Rem(x, n) == IF x >= 0 THEN x % Abs(n) ELSE -((-x) % Abs(n))

IsUpper(ch) == ch \in 65 .. 90
IsAlpha(ch) == IsUpper(ch) \/ ch \in 97 .. 122
ToUpper(ch) == IF ch \in 97 .. 122 THEN ch - 32 ELSE ch
Base(ch) == IF IsUpper(ch) THEN 65 ELSE 97

gcd[a \in Int] == [b \in Int |-> IF b = 0 THEN a ELSE gcd[b][Rem(a, b)]]

modInverse(a, n) ==
    LET inverses == {x \in 1 .. n - 1 : Rem(Rem(a, n) * x, n) = 1}
    IN  IF inverses = {} THEN -1 ELSE CHOOSE x \in inverses : \A y \in inverses : x <= y

\* Affine's constructor throws for an a that shares a factor with 26.
Constructible(c) == c.kind = "Affine" => gcd[c.a][26] = 1

----------------------------------------------------------------------------
(* What becomes of the letter x of 0 .. 25; k counts the letters before it. *)

Wrap(x) == IF Rem(x, 26) < 0 THEN Rem(x, 26) + 26 ELSE Rem(x, 26)

CaesarEncrypt(c, x) == Wrap(x + c.shift)
CaesarDecrypt(c, x) == Wrap(x - c.shift)

AffineEncrypt(c, x) == Rem(c.a * x + c.b, 26)
AffineDecrypt(c, x) == Rem(modInverse(c.a, 26) * Rem(x - c.b + 26, 26), 26)

Shift(c, k) == ToUpper(c.key[(k % Len(c.key)) + 1]) - 65

VigenereEncrypt(c, k, x) == Rem(x + Shift(c, k), 26)
VigenereDecrypt(c, k, x) == Rem(x - Shift(c, k) + 26, 26)

Encipher(c, k, x) ==
    CASE c.kind = "Caesar"   -> CaesarEncrypt(c, x)
      [] c.kind = "Affine"   -> AffineEncrypt(c, x)
      [] c.kind = "Vigenere" -> VigenereEncrypt(c, k, x)

Decipher(c, k, x) ==
    CASE c.kind = "Caesar"   -> CaesarDecrypt(c, x)
      [] c.kind = "Affine"   -> AffineDecrypt(c, x)
      [] c.kind = "Vigenere" -> VigenereDecrypt(c, k, x)

----------------------------------------------------------------------------
VARIABLES cipher, text,
          sent,      \* the ciphertext, as far as it has been written
          back,      \* what decrypt() made of it, as far as it has
          keyIndex   \* letters met in the loop that runs

vars == << cipher, text, sent, back, keyIndex >>

Init ==
    /\ cipher \in {c \in Ciphers : Constructible(c)}
    /\ text \in Texts
    /\ sent = << >>
    /\ back = << >>
    /\ keyIndex = 0

\* What is not a letter is passed on and does not move the key.
encrypt ==
    /\ Len(sent) < Len(text)
    /\ LET ch == text[Len(sent) + 1]
       IN  IF IsAlpha(ch)
           THEN /\ sent' = Append(sent, Base(ch) + Encipher(cipher, keyIndex, ch - Base(ch)))
                /\ keyIndex' = keyIndex + 1
           ELSE /\ sent' = Append(sent, ch)
                /\ UNCHANGED keyIndex
    /\ UNCHANGED << cipher, text, back >>

decrypt ==
    /\ Len(sent) = Len(text)
    /\ Len(back) < Len(sent)
    /\ LET ch == sent[Len(back) + 1]
           k  == IF back = << >> THEN 0 ELSE keyIndex
       IN  IF IsAlpha(ch)
           THEN /\ back' = Append(back, Base(ch) + Decipher(cipher, k, ch - Base(ch)))
                /\ keyIndex' = k + 1
           ELSE /\ back' = Append(back, ch)
                /\ keyIndex' = k
    /\ UNCHANGED << cipher, text, sent >>

Next == encrypt \/ decrypt

Spec == Init /\ [][Next]_vars

----------------------------------------------------------------------------
\* The keys the ciphers are meant for: any shift, a factor above zero and an offset
\* of at most one turn, a key of letters.
GoodKey ==
    CASE cipher.kind = "Caesar"   -> TRUE
      [] cipher.kind = "Affine"   -> cipher.a > 0 /\ cipher.b \in 0 .. 26
      [] cipher.kind = "Vigenere" -> \A i \in DOMAIN cipher.key : IsAlpha(cipher.key[i])

\* Every character comes back, in step with the key over blanks and digits and
\* whatever the sign or size of a shift.
RoundTrip == GoodKey => back = SubSeq(text, 1, Len(back))

\* The ciphertext has capitals, small letters and everything else exactly where
\* the plaintext has them; otherwise decrypt() would skip or count other places.
SameShape ==
    GoodKey =>
        \A i \in DOMAIN sent :
            /\ IsUpper(sent[i]) <=> IsUpper(text[i])
            /\ IsAlpha(sent[i]) <=> IsAlpha(text[i])
            /\ ~IsAlpha(text[i]) => sent[i] = text[i]

----------------------------------------------------------------------------
\* The letters among the first n characters: how far the key has moved.
LettersIn(n) == Cardinality({i \in 1 .. n : IsAlpha(text[i])})

Enciphered(i) ==
    IF IsAlpha(text[i])
    THEN Base(text[i]) + Encipher(cipher, LettersIn(i - 1), text[i] - Base(text[i]))
    ELSE text[i]

\* With a good key either loop stands where its output ends, and so does the key.
Inv ==
    /\ cipher \in Ciphers /\ Constructible(cipher) /\ text \in Texts
    /\ GoodKey =>
          /\ sent \in Seq(Int) /\ Len(sent) <= Len(text)
          /\ \A i \in 1 .. Len(sent) : sent[i] = Enciphered(i)
          /\ back \in Seq(Int) /\ Len(back) <= Len(text)
          /\ back # << >> => Len(sent) = Len(text)
          /\ \A i \in 1 .. Len(back) : back[i] = text[i]
          /\ keyIndex = LettersIn(IF back = << >> THEN Len(sent) ELSE Len(back))

=============================================================================
