----------------------------- MODULE MCCiphers -----------------------------
(* Small instances of the ciphers. *)
EXTENDS Ciphers, SequencesExt

\* DES: the test's key, the same with other parity bits, another, one too short.
SomeDESKeys == { << 1, 35, 69, 103, 137, 171, 205, 239 >>, << 0, 34, 68, 102, 136, 170, 204, 238 >>,
                 << 254, 220, 186, 152, 118, 84, 50, 16 >>, << 1, 35, 69, 103, 137, 171, 205 >> }
SomeDESBlocks == { << 78, 111, 119, 32, 105, 115, 32, 116 >>, << 0, 0, 0, 0, 0, 0, 0, 0 >>,
                   << 255, 0, 128, 1, 2, 3, 254, 127 >>, << 65 >> }

\* AES: for each size the vector's key and one of high bytes; one fits no object.
SomeAESKeys ==
    {[i \in 1 .. n |-> i - 1] : n \in {15, 16, 24, 32}}
        \cup {[i \in 1 .. n |-> 255 - 7 * (i - 1)] : n \in {16, 24, 32}}
SomeAESBlocks ==
    {[i \in 1 .. 16 |-> 17 * (i - 1)], [i \in 1 .. 16 |-> 255], [i \in 1 .. 16 |-> (83 * i) % 256],
     [i \in 1 .. 15 |-> 1]}

\* Shifts around the turns, every a with small and large offsets, keys of both
\* cases; an Affine a that is even or zero is refused, -5 is not.
SomeLetterCiphers ==
    {[kind |-> "Caesar", shift |-> s] : s \in {-53, -26, -1, 0, 1, 13, 25, 26, 53}}
        \cup {[kind |-> "Affine", a |-> a, b |-> b] : a \in -5 .. 28, b \in {0, 10, 25, 26}}
        \cup {[kind |-> "Vigenere", key |-> k] :
                k \in {<<75, 69, 89>>, <<107, 101, 121>>, <<65>>, <<90, 122>>}}

\* "Az 9B", the alphabet's ends, and nothing.
SomeLetterTexts == {<<65, 122, 32, 57, 66>>, <<97, 90, 122, 65>>, << >>}

\* Hill: every matrix of two rows over a few letters; the tests' matrices of three
\* rows; one of four; singular ones, one whose determinant is 13, keys too short.
HillKey(s, n) == [letters |-> s, size |-> n]
SomeHillKeys ==
    {HillKey(s, 2) : s \in [1 .. 4 -> {0, 1, 2, 3, 13}]}
        \cup {HillKey(<<6, 24, 1, 13, 16, 10, 20, 17, 15>>, 3),
              HillKey(<<13, 0, 0, 0, 1, 0, 0, 0, 1>>, 3), HillKey(<<1, 2, 3, 4, 5, 6, 7, 8, 9>>, 3),
              HillKey(<<3, 3, 2, 5>>, 2), HillKey(<<0, 1, 2, 3>>, 3),
              HillKey(<<1, 2, 0, 1, 0, 1, 3, 2, 2, 0, 1, 1, 1, 1, 0, 2>>, 4),
              HillKey(<<3>>, 1), HillKey(<<2>>, 1)}

\* Whole and broken blocks, one text with a blank and a small letter.
SomeHillTexts == {<<7, 4, 11, 15>>, <<0, 2, 19>>, <<25>>, <<1, -33, 40, 25, 13, 2>>}

\* "KEYWORD", "Jungle" (a J, small letters), one with blanks and repetitions, none.
SomePlayfairKeys == {<<75, 69, 89, 87, 79, 82, 68>>, <<74, 117, 110, 103, 108, 101>>,
                     <<88, 32, 120, 65, 49, 65>>, << >>}

\* Texts over A, small j, K, X and a blank, and "BALLOON".
SomePlayfairTexts == SeqOf({65, 106, 75, 88, 32}, 4) \cup {<<66, 65, 76, 76, 79, 79, 78>>}

\* The pair generateKeyPair() is written to return, and two smaller ones.
SomeKeyPairs == { [n |-> 3233, e |-> 17, d |-> 2753], [n |-> 253, e |-> 3, d |-> 147],
                  [n |-> 3127, e |-> 3, d |-> 2011] }

\* Small bytes, the test's letter, the sign bit, the largest.
SomeBytes == {0, 1, 2, 3, 75, 127, 128, 252, 253, 254, 255}

\* Texts of up to three blocks over bytes that look like paddings and one that does not.
SomeBlockTexts == SeqOf({0, 1, 2, 3}, 3) \cup SeqOf({2, 65}, 5)

\* Keys of a byte: 7, the same with a digit too many and behind a blank, 171; one of no
\* byte, one of two.
SomeBlockKeys == {<<0, 7>>, <<0, 7, 9>>, <<17, 7>>, <<10, 11>>, <<7>>, <<0, 7, 0, 7>>}

\* A cipher in which each byte of a block moves with the key, the second also with the
\* first.
ByteBlocks == [1 .. 2 -> 0 .. 255]
SomeEnc == [k \in [1 .. 1 -> 0 .. 255] |-> [b \in ByteBlocks |->
              <<(b[1] + k[1]) % 256, (b[1] + b[2] + k[1]) % 256>>]]
SomeDec == [k \in [1 .. 1 -> 0 .. 255] |-> [b \in ByteBlocks |->
              <<(b[1] + 256 - k[1]) % 256, (b[2] + 256 - b[1]) % 256>>]]

\* An object of each class and size; RSA with too few bits to generate, with too
\* few for OAEP and with enough.
SomeSSLObjects ==
    {[class |-> "AESCBC", size |-> n] : n \in {16, 24, 32}} \cup {[class |-> "DES", size |-> 8]}
        \cup {[class |-> "RSA", size |-> n] : n \in {256, 512, 1024}}

\* Around the blocks, OAEP's limit, and the ends of an int of seven bits.
SomeSSLTexts == {0, 1, 8, 15, 16, 17, 47, 48, 62, 63, 64, 128, 144, 145}

=============================================================================
