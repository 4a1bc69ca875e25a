----------------------------- MODULE BlockText -----------------------------
(***************************************************************************)
(* What the cipher window does with AES (app/crypto/Window.cpp, process()) *)
(* and the helpers of crypto/core/utils.cpp it does it with: a text is     *)
(* padded, enciphered block by block and shown in hex; the hex, as the     *)
(* user left it, is read back, deciphered block by block and unpadded.     *)
(* The key is hex too, as it was typed.                                    *)
(*                                                                         *)
(* The block cipher is any one that inverts: module AES has the real one.  *)
(***************************************************************************)
EXTENDS Integers, Sequences

CONSTANTS Texts,      \* the input texts, sequences of bytes
          Keys,       \* what may be typed for a key, in hex
          KeySize,    \* the bytes of a key, for AES 16, 24 or 32
          BlockSize,  \* 16 in the window
          MaxPadding, \* 16: the longest padding unpad() takes off
          Junk,       \* bytes that may lie behind a vector on the heap
          Enc, Dec    \* encryptBlock() and decryptBlock(), of a key and of a block

\* The characters of hex: the digits 0 .. 15, a blank or plus, a minus, any other.
Bad == 16
Blank == 17
Minus == 18
Digits(hex) == \A i \in 1 .. Len(hex) : hex[i] < Bad

----------------------------------------------------------------------------
Repeat(x, n) == [i \in 1 .. n |-> x]

pad(data) == LET n == BlockSize - (Len(data) % BlockSize) IN data \o Repeat(n, n)

\* The data, shorter if its end is padding.
unpad(data) ==
    LET n == data[Len(data)]
    IN  IF data = << >> \/ n = 0 \/ n > MaxPadding THEN data
        ELSE IF \E i \in 1 .. n : data[Len(data) + 1 - i] # n THEN data
        ELSE SubSeq(data, 1, Len(data) - n)

\* A byte below 16 written with one digit.
toHex_NoFill(bytes) ==
    LET after[n \in 0 .. Len(bytes)] ==
            IF n = 0 THEN << >>
            ELSE after[n - 1] \o (IF bytes[n] < 16 THEN << bytes[n] >>
                                  ELSE << bytes[n] \div 16, bytes[n] % 16 >>)
    IN  after[Len(bytes)]

toHex(bytes) == [i \in 1 .. 2 * Len(bytes) |->
                    IF i % 2 = 1 THEN bytes[(i + 1) \div 2] \div 16 ELSE bytes[i \div 2] % 16]

\* strtol() skips a blank, takes a sign and reads up to the first character that is
\* no digit; a byte is cut out of its result.
ReadPair(high, low) ==
    CASE high < Bad /\ low < Bad -> 16 * high + low
      [] high < Bad /\ low >= Bad -> high
      [] high = Blank /\ low < Bad -> low
      [] high = Minus /\ low < Bad -> (256 - low) % 256
      [] OTHER -> 0

\* An odd last digit is left out.
fromHex(hex) == [i \in 1 .. Len(hex) \div 2 |-> ReadPair(hex[2 * i - 1], hex[2 * i])]

\* What std::copy() puts into the block.
BlockAt(bytes, from) == [i \in 1 .. BlockSize |-> bytes[from + i]]

----------------------------------------------------------------------------
VARIABLES text,
          key,      \* the hex in the key's field
          phase,    \* "ready", "encrypt", "shown", "decrypt", "done" or "refused"
          under,    \* the key the text was enciphered with
          data,     \* the blocks the loop takes
          out,      \* the blocks it has made
          hex,      \* the text in the output, then in the input
          edited,   \* the user changed it
          overran   \* std::copy() read behind the data

vars == << text, key, phase, under, data, out, hex, edited, overran >>

Init ==
    /\ text \in Texts /\ key \in Keys
    /\ phase = "ready"
    /\ under = << >> /\ data = << >> /\ out = << >> /\ hex = << >>
    /\ edited = FALSE /\ overran = FALSE

\* "Key hex length mismatch"
KeyFits == Len(fromHex(key)) = KeySize
Refuse ==
    /\ phase \in {"ready", "shown"} /\ ~KeyFits
    /\ phase' = "refused"
    /\ UNCHANGED << text, key, under, data, out, hex, edited, overran >>

Encrypt ==
    /\ phase = "ready" /\ KeyFits
    /\ phase' = "encrypt"
    /\ under' = fromHex(key)
    /\ data' = pad(text)
    /\ UNCHANGED << text, key, out, hex, edited, overran >>

EncryptNext ==
    /\ phase = "encrypt"
    /\ IF Len(out) < Len(data)
       THEN /\ out' = out \o Enc[under][BlockAt(data, Len(out))]
            /\ UNCHANGED << phase, hex >>
       ELSE /\ hex' = toHex(out)
            /\ phase' = "shown"
            /\ UNCHANGED out
    /\ UNCHANGED << text, key, under, data, edited, overran >>

\* The user pastes the output as input, whole, short of some digits, or mistyped,
Edit ==
    /\ phase = "shown" /\ ~edited
    /\ \/ \E k \in 1 .. Len(hex) : hex' = SubSeq(hex, 1, Len(hex) - k)
       \/ \E i \in 1 .. Len(hex), x \in Bad .. Minus : hex' = [hex EXCEPT ![i] = x]
    /\ edited' = TRUE
    /\ UNCHANGED << text, key, phase, under, data, out, overran >>

\* and types a key.
TypeKey ==
    /\ phase = "shown"
    /\ key' \in Keys
    /\ UNCHANGED << text, phase, under, data, out, hex, edited, overran >>

Decrypt ==
    /\ phase = "shown" /\ KeyFits
    /\ data' = fromHex(hex)
    /\ out' = << >>
    /\ phase' = "decrypt"
    /\ UNCHANGED << text, key, under, hex, edited, overran >>

\* The last copy takes a whole block, whatever is left.
DecryptNext ==
    /\ phase = "decrypt"
    /\ IF Len(out) < Len(data)
       THEN /\ \E j \in Junk :
                  out' = out \o Dec[fromHex(key)][BlockAt(data \o Repeat(j, BlockSize), Len(out))]
            /\ overran' = (overran \/ Len(data) < Len(out) + BlockSize)
            /\ UNCHANGED phase
       ELSE /\ out' = unpad(out)
            /\ phase' = "done"
            /\ UNCHANGED overran
    /\ UNCHANGED << text, key, under, data, hex, edited >>

Next == Refuse \/ Encrypt \/ EncryptNext \/ Edit \/ TypeKey \/ Decrypt \/ DecryptNext

Spec == Init /\ [][Next]_vars

----------------------------------------------------------------------------
\* The text comes back byte for byte, also one that ends like a padding, as long as
\* nobody touches the hex and the key has the same bytes, however it was typed.
RoundTrip == phase = "done" /\ ~edited /\ fromHex(key) = under => out = text

\* Only hex that was changed can make the block loop read behind its data, whatever
\* the key, and even then the result is no longer than the blocks begun.
OverrunOnlyByEdit ==
    /\ overran => edited /\ Len(data) % BlockSize # 0
    /\ Len(out) <= Len(data) + BlockSize

\* Under the same key, shortening the hex by whole blocks loses text from the end and
\* changes none: what comes back begins like the text, padded, and at most a padding is
\* missing.
PrefixSurvives ==
    phase = "done" /\ Len(data) % BlockSize = 0 /\ Digits(hex) /\ fromHex(key) = under =>
        /\ out = SubSeq(pad(text), 1, Len(out))
        /\ Len(out) >= Len(data) - BlockSize

\* The bytes of a key that is not refused.
KeyBytes == {bytes \in {fromHex(k) : k \in Keys} : Len(bytes) = KeySize}

\* What the blocks of a padded text become; the block of p begins behind From(p).
From(p) == (p - 1) - ((p - 1) % BlockSize)
Enciphered(bytes) == [p \in DOMAIN bytes |-> Enc[under][BlockAt(bytes, From(p))][p - From(p)]]

TypeOK ==
    /\ text \in Texts /\ key \in Keys
    /\ phase \in {"ready", "encrypt", "shown", "decrypt", "done", "refused"}
    /\ phase \in {"encrypt", "shown", "decrypt", "done"} => under \in KeyBytes
    /\ phase \in {"decrypt", "done"} => fromHex(key) \in KeyBytes
    /\ edited \in BOOLEAN /\ overran \in BOOLEAN

Enciphering ==
    /\ phase = "ready" => data = << >> /\ out = << >>
    /\ phase \in {"ready", "encrypt"} => ~edited
    /\ phase = "encrypt" =>
          /\ data = pad(text)
          /\ out \in Seq(0 .. 255) /\ Len(out) % BlockSize = 0 /\ Len(out) <= Len(data)
          /\ \A p \in 1 .. Len(out) : out[p] = Enciphered(pad(text))[p]

Shown ==
    phase \in {"shown", "decrypt", "done"} =>
        /\ hex \in Seq(0 .. Minus) /\ Len(hex) <= 2 * Len(pad(text))
        /\ ~edited => Len(hex) = 2 * Len(pad(text))
        /\ \A i \in 1 .. Len(hex) :
              hex[i] = toHex(Enciphered(pad(text)))[i] \/ (edited /\ hex[i] >= Bad)

Deciphering ==
    /\ phase \in {"ready", "encrypt", "shown"} => ~overran
    /\ phase \in {"decrypt", "done"} => data = fromHex(hex)
    /\ phase = "decrypt" =>
          /\ out \in Seq(0 .. 255) /\ Len(out) % BlockSize = 0 /\ Len(out) < Len(data) + BlockSize
          /\ Len(data) % BlockSize = 0 /\ Digits(hex) /\ fromHex(key) = under =>
                \A p \in 1 .. Len(out) : out[p] = pad(text)[p]

\* Wherever the loops stand, what they have made agrees with the padded text, byte by
\* byte, unless the hex between them or the key was changed.
Inv == /\ TypeOK /\ Enciphering /\ Shown /\ Deciphering
       /\ OverrunOnlyByEdit /\ PrefixSurvives /\ RoundTrip

=============================================================================
