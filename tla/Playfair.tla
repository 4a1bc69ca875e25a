------------------------------ MODULE Playfair ------------------------------
(***************************************************************************)
(* The Playfair cipher (crypto/classic/Playfair.cpp): a text is cut into   *)
(* pairs of letters, the pairs are enciphered and deciphered again, one    *)
(* turn of each loop per step.                                             *)
(*                                                                         *)
(* A character is its code: 65 .. 90 capitals, 97 .. 122 small letters.    *)
(***************************************************************************)
EXTENDS Integers, Sequences, Functions

CONSTANTS Keys, Texts  \* sequences of character codes

X == 88

Alphabet == (65 .. 90) \ {74}

Upper(ch) == IF ch \in 97 .. 122 THEN ch - 32 ELSE ch
IsAlpha(ch) == Upper(ch) \in 65 .. 90

\* What a loop over the characters of s makes of nothing; a step is what it makes of a
\* sequence and one character.
Steps == [Seq(Int) -> [Int -> Seq(Int)]]
Loop(s, step) ==
    LET after[i \in 0 .. Len(s)] == IF i = 0 THEN << >> ELSE step[after[i - 1]][s[i]]
    IN  after[Len(s)]

\* Capitals only, and I for J.
Capital(ch) == IF Upper(ch) = 74 THEN 73 ELSE Upper(ch)
Keep == [q \in Seq(Int) |-> [ch \in Int |-> IF IsAlpha(ch) THEN Append(q, Capital(ch)) ELSE q]]
Letters(s) == Loop(s, Keep)

\* The key's letters and then the alphabet, each letter once, row by row.
KeepNew == [q \in Seq(Int) |-> [ch \in Int |-> IF ch \in Range(q) THEN q ELSE Append(q, ch)]]
generateKeyMatrix(key) == Loop(Letters(key \o [i \in 1 .. 26 |-> 64 + i]), KeepNew)

\* Enciphers for n = 1 and deciphers for n = 4.
Substitute(matrix, pair, n) ==
    LET at(k) == CHOOSE i \in 0 .. 24 : matrix[i + 1] = pair[k]
        cell(r, c) == matrix[5 * (r % 5) + (c % 5) + 1]
        r1 == at(1) \div 5   c1 == at(1) % 5
        r2 == at(2) \div 5   c2 == at(2) % 5
    IN  CASE r1 = r2 -> << cell(r1, c1 + n), cell(r2, c2 + n) >>
          [] r1 # r2 /\ c1 = c2 -> << cell(r1 + n, c1), cell(r2 + n, c2) >>
          [] OTHER -> << cell(r1, c2), cell(r2, c1) >>

----------------------------------------------------------------------------
VARIABLES matrix,
          letters,  \* history: the letters of the text
          rest,     \* those preprocessPlaintext() has not looked at
          plain,    \* adjustedText so far
          sent,     \* the ciphertext so far
          back,     \* what decrypt() made of it so far
          phase     \* "preprocess", "encrypt", "decrypt" or "done"

vars == << matrix, letters, rest, plain, sent, back, phase >>

Init ==
    /\ matrix \in {generateKeyMatrix(key) : key \in Keys}
    /\ letters \in {Letters(text) : text \in Texts}
    /\ rest = letters
    /\ plain = << >> /\ sent = << >> /\ back = << >>
    /\ phase = "preprocess"

\* Both of two equal letters are taken.
TakePair_SkipsBoth ==
    /\ phase = "preprocess"
    /\ Len(rest) > 1
    /\ plain' = plain \o (IF rest[1] = rest[2] THEN << rest[1], X >> ELSE << rest[1], rest[2] >>)
    /\ rest' = SubSeq(rest, 3, Len(rest))
    /\ UNCHANGED << matrix, letters, sent, back, phase >>

\* The second of two equal letters is kept for the next pair.
TakePair ==
    /\ phase = "preprocess"
    /\ Len(rest) > 1
    /\ IF rest[1] = rest[2]
       THEN plain' = plain \o << rest[1], X >> /\ rest' = Tail(rest)
       ELSE plain' = plain \o << rest[1], rest[2] >> /\ rest' = SubSeq(rest, 3, Len(rest))
    /\ UNCHANGED << matrix, letters, sent, back, phase >>

\* The last letter alone gets an X beside it.
Pad ==
    /\ phase = "preprocess"
    /\ Len(rest) < 2
    /\ plain' = IF rest = << >> THEN plain ELSE plain \o << rest[1], X >>
    /\ rest' = << >>
    /\ phase' = "encrypt"
    /\ UNCHANGED << matrix, letters, sent, back >>

Next2(s, done) == SubSeq(s, Len(done) + 1, Len(done) + 2)

encrypt ==
    /\ phase = "encrypt"
    /\ IF Len(sent) < Len(plain)
       THEN /\ sent' = sent \o Substitute(matrix, Next2(plain, sent), 1)
            /\ UNCHANGED phase
       ELSE /\ phase' = "decrypt"
            /\ UNCHANGED sent
    /\ UNCHANGED << matrix, letters, rest, plain, back >>

\* The ciphertext is even and made of capitals, so decrypt()'s own filter and
\* padding leave it as it is; a last X goes.
decrypt ==
    /\ phase = "decrypt"
    /\ IF Len(back) < Len(sent)
       THEN /\ back' = back \o Substitute(matrix, Next2(sent, back), 4)
            /\ UNCHANGED phase
       ELSE /\ back' = IF back # << >> /\ back[Len(back)] = X THEN SubSeq(back, 1, Len(back) - 1) ELSE back
            /\ phase' = "done"
    /\ UNCHANGED << matrix, letters, rest, plain, sent >>

Next == TakePair \/ Pad \/ encrypt \/ decrypt

Spec == Init /\ [][Next]_vars

----------------------------------------------------------------------------
\* Whatever the key, findPosition() finds every letter but J, in one place.
MatrixIsAlphabet == Len(matrix) = 25 /\ Range(matrix) = (65 .. 90) \ {74}

\* What the text was cut into is even once it is complete, has two letters alike
\* in a pair only when they are X, and without the X put in is the text.
DropX == [q \in Seq(Int) |-> [ch \in Int |-> IF ch = X THEN q ELSE Append(q, ch)]]
PairsUnlike ==
    /\ Len(plain) % 2 = 0
    /\ \A i \in 1 .. Len(plain) \div 2 : plain[2 * i - 1] = plain[2 * i] => plain[2 * i] = X
WellCut ==
    phase # "preprocess" => PairsUnlike /\ Loop(plain, DropX) = Loop(letters, DropX)

\* decrypt() gives back what was enciphered, pair for pair, and at the end without
\* the X it ends in, if it does.
RoundTrip ==
    /\ phase = "decrypt" => back = SubSeq(plain, 1, Len(back))
    /\ phase = "done" => \/ back = plain
                         \/ plain = Append(back, X)

\* What every step keeps: rest is what is left of the text, plain holds the letters
\* before it, sent its pairs enciphered, back those deciphered.
Inv ==
    /\ {matrix, letters, rest, plain, sent, back} \subseteq Seq(Alphabet)
    /\ MatrixIsAlphabet
    /\ phase \in {"preprocess", "encrypt", "decrypt", "done"}
    /\ PairsUnlike
    /\ LET done == Len(letters) - Len(rest)
       IN  /\ done >= 0
           /\ rest = SubSeq(letters, done + 1, Len(letters))
           /\ Loop(plain, DropX) = Loop(SubSeq(letters, 1, done), DropX)
    /\ phase # "preprocess" => rest = << >>
    /\ phase = "preprocess" => sent = << >>
    /\ phase \in {"preprocess", "encrypt"} => back = << >>
    /\ phase \in {"decrypt", "done"} => Len(sent) = Len(plain)
    /\ Len(sent) % 2 = 0 /\ Len(sent) <= Len(plain)
    /\ \A i \in 1 .. Len(sent) \div 2 :
          << sent[2 * i - 1], sent[2 * i] >>
              = Substitute(matrix, << plain[2 * i - 1], plain[2 * i] >>, 1)
    /\ phase # "done" => Len(back) % 2 = 0 /\ Len(back) <= Len(sent)
    /\ RoundTrip

=============================================================================
