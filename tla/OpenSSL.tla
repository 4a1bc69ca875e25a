------------------------------ MODULE OpenSSL ------------------------------
(***************************************************************************)
(* The classes around OpenSSL (src/crypto/standard/openssl): AESCBC, DES   *)
(* and RSA.  Every function is a row of library calls each of which may    *)
(* fail, and then the function throws; what the calls allocate is held by  *)
(* raw pointers.  One step is one library call with the code up to the     *)
(* next.                                                                   *)
(*                                                                         *)
(* A text is its length: what the library makes of the bytes is right, and *)
(* the wrapper's part is to hand over the right keys, lengths and buffers. *)
(***************************************************************************)
EXTENDS Integers, Sequences

CONSTANTS Objects,  \* [class, size]: the key's bytes for AESCBC and DES, the bits for RSA
          Texts,    \* lengths of the texts
          IntLimit  \* 2^31: the lengths the library takes are ints below it

None == -1     \* no text yet
Garbage == -2  \* a text, but not the one that was enciphered

VARIABLES object,
          keys,     \* m_key and m_iv, by number, 0 when empty; for RSA the pair, 1 once made
          text,
          cipher,   \* what encrypt() returned: the keys, how much of the text, its length
          plain,    \* what decrypt() returned
          fn,       \* the function that runs, or ran last
          given,    \* the key a caller of RSA passes: 1 its own, 2 another's, 0 no key at all
          next,     \* the number of the library call fn is about to make, 0 when it is over
          held,     \* what fn allocated and has not freed
          total,    \* bytes written so far
          outcome   \* of the last call: "none" yet, "returned", "refused" before the
                    \* first library call, or the library call that failed

vars == << object, keys, text, cipher, plain, fn, given, next, held, total, outcome >>

NoCipher == [keys |-> [key |-> 0, iv |-> 0], taken |-> None, len |-> 0]

Init ==
    /\ object \in Objects
    /\ keys = [key |-> 0, iv |-> 0]
    /\ text \in Texts
    /\ cipher = NoCipher
    /\ plain = None
    /\ fn = "none" /\ given = 1 /\ next = 0
    /\ held = {} /\ total = 0
    /\ outcome = "none"

----------------------------------------------------------------------------
blockSize == IF object.class = "DES" THEN 8 ELSE 16
KeyBytes == IF object.class = "DES" THEN 8 ELSE object.size

\* static_cast<int>() of a size.
AsInt(n) == ((n + IntLimit) % (2 * IntLimit)) - IntLimit

Input == IF fn = "encrypt" THEN text ELSE cipher.len

\* The library calls of a function, in the order of the code.
Calls ==
    CASE object.class # "RSA" -> << "ctx_new", "init", "update", "final" >>
      [] object.class = "RSA" /\ fn = "generateKeyPair" ->
            << "ctx_new", "init", "bits", "keygen", "bios", "write_public", "write_private" >>
      [] OTHER -> << "load", "ctx_new", "init", "query", "crypt" >>

Call == Calls[next]

\* What is held once a call has succeeded.
HeldAfter(call) ==
    CASE call = "ctx_new" -> held \cup {"ctx"}
      [] call = "load" -> held \cup {"pkey"}
      [] call = "keygen" -> (held \ {"ctx"}) \cup {"pkey"}
      [] call = "bios" -> held \cup {"pub_bio", "priv_bio"}
      [] call = "write_private" -> held \ {"pkey"}
      [] OTHER -> held

\* What a function frees before it returns,
FreedAtEnd ==
    CASE object.class # "RSA" -> {"ctx"}
      [] object.class = "RSA" /\ fn = "generateKeyPair" -> {"pub_bio", "priv_bio"}
      [] OTHER -> {"ctx", "pkey"}

\* DES throws from its update with the context allocated.
FreedOnThrow_NotInUpdate == IF object.class = "DES" /\ Call # "update" THEN {"ctx"} ELSE {}

\* and before it throws: DES alone frees its context.
FreedOnThrow == IF object.class = "DES" THEN {"ctx"} ELSE {}

\* What the library wants of a call; any may fail for reasons of its own besides.
\* Another key or IV can go unnoticed in the padding of CBC, but not in OAEP.
Acceptable(call) ==
    CASE call = "load" -> given # 0
      [] call = "bits" -> object.size >= 512
      [] call = "update" -> AsInt(Input) >= 0
      [] call = "final" /\ fn = "decrypt" -> AsInt(Input) > 0 /\ AsInt(Input) % blockSize = 0
      [] call = "crypt" /\ fn = "encrypt" -> text <= object.size \div 8 - 66
      [] call = "crypt" /\ fn = "decrypt" -> given = cipher.keys.key
      [] OTHER -> TRUE

\* An update for decryption keeps the last whole block back for final.
Written(call) ==
    LET n == AsInt(Input)
    IN  CASE call = "update" /\ fn = "encrypt" -> n - (n % blockSize)
          [] call = "update" /\ fn = "decrypt" ->
                n - (n % blockSize) - (IF n % blockSize = 0 /\ n > 0 THEN blockSize ELSE 0)
          [] call = "final" /\ fn = "encrypt" -> blockSize
          [] call = "crypt" /\ fn = "encrypt" -> object.size \div 8
          [] OTHER -> 0

----------------------------------------------------------------------------
\* setKey() and setIV(): the wrong size is refused and the old one stays.
SetKey(id, size) ==
    /\ next = 0 /\ object.class # "RSA"
    /\ IF size = KeyBytes
       THEN keys' = [keys EXCEPT !.key = id] /\ outcome' = "returned"
       ELSE outcome' = "refused" /\ UNCHANGED keys
    /\ fn' = "setKey" /\ held' = {}
    /\ UNCHANGED << object, text, cipher, plain, given, next, total >>

SetIV(id, size) ==
    /\ next = 0 /\ object.class # "RSA"
    /\ IF size = blockSize
       THEN keys' = [keys EXCEPT !.iv = id] /\ outcome' = "returned"
       ELSE outcome' = "refused" /\ UNCHANGED keys
    /\ fn' = "setIV" /\ held' = {}
    /\ UNCHANGED << object, text, cipher, plain, given, next, total >>

\* A program deciphers only what it has enciphered, and with RSA has keys to do
\* either; AESCBC and DES look whether theirs are set.
Begin(f, key) ==
    /\ next = 0
    /\ CASE f = "generateKeyPair" -> object.class = "RSA" /\ keys.key = 0
         [] f = "encrypt" -> cipher = NoCipher
         [] f = "decrypt" -> cipher # NoCipher
    /\ object.class = "RSA" /\ f # "generateKeyPair" => keys.key = 1
    /\ object.class # "RSA" => key = 1
    /\ fn' = f /\ given' = key
    /\ IF object.class # "RSA" /\ (keys.key = 0 \/ keys.iv = 0)
       THEN outcome' = "refused" /\ UNCHANGED next
       ELSE next' = 1 /\ outcome' = "none"
    /\ held' = {} /\ total' = 0
    /\ UNCHANGED << object, keys, text, cipher, plain >>

Succeed ==
    /\ next # 0 /\ Acceptable(Call) /\ next < Len(Calls)
    /\ held' = HeldAfter(Call)
    /\ total' = total + Written(Call)
    /\ next' = next + 1
    /\ UNCHANGED << object, keys, text, cipher, plain, fn, given, outcome >>

\* The last call succeeds: the function frees, cuts its buffer and returns it.
Return ==
    /\ next # 0 /\ next = Len(Calls) /\ Acceptable(Call)
    /\ held' = HeldAfter(Call) \ FreedAtEnd
    /\ LET inUse == IF object.class = "RSA" THEN [key |-> given, iv |-> 0] ELSE keys
           right == cipher.keys = inUse
       IN  /\ keys' = IF fn = "generateKeyPair" THEN [keys EXCEPT !.key = 1] ELSE keys
           /\ cipher' = IF fn # "encrypt" THEN cipher
                        ELSE [keys |-> inUse, len |-> total + Written(Call),
                              taken |-> IF object.class = "RSA" THEN text ELSE AsInt(text)]
           /\ plain' = CASE fn = "decrypt" /\ right -> cipher.taken
                         [] fn = "decrypt" /\ ~right -> Garbage
                         [] OTHER -> plain
    /\ next' = 0 /\ outcome' = "returned"
    /\ UNCHANGED << object, text, fn, given, total >>

\* A call fails: the function throws.  The size query's result is not looked at, and
\* the call behind it fails for the same reason; so does the writing to a memory BIO
\* that could not be made.
Throw ==
    /\ next # 0 /\ Call \notin {"query", "bios"}
    /\ \E missing \in SUBSET {"pub_bio", "priv_bio"} : held' = held \ (FreedOnThrow \cup missing)
    /\ next' = 0 /\ outcome' = Call
    /\ UNCHANGED << object, keys, text, cipher, plain, fn, given, total >>

Next ==
    \/ \E id \in 1 .. 2, size \in {7, 8, 16, 24, 32} : SetKey(id, size)
    \/ \E id \in 1 .. 2, size \in {8, 15, 16} : SetIV(id, size)
    \/ \E f \in {"encrypt", "decrypt", "generateKeyPair"}, key \in 0 .. 2 : Begin(f, key)
    \/ Succeed
    \/ Return
    \/ Throw

Spec == Init /\ [][Next]_vars

----------------------------------------------------------------------------
\* What a call leaves allocated: nothing when it returns or is refused, and nothing
\* ever with DES.  AESCBC loses its context to every failure behind its allocation; RSA
\* loses key and context, before the pair is generated the context alone, and behind
\* that the pair and its BIOs.
LeftBehind ==
    next = 0 =>
        /\ "ctx" \in held <=> outcome \in
              CASE object.class = "DES" -> {}
                [] object.class = "AESCBC" -> {"init", "update", "final"}
                [] object.class = "RSA" /\ fn = "generateKeyPair" -> {"init", "bits", "keygen"}
                [] OTHER -> {"init", "crypt"}
        /\ "pkey" \in held <=> outcome \in
              CASE object.class # "RSA" -> {}
                [] object.class = "RSA" /\ fn = "generateKeyPair" -> {"write_public", "write_private"}
                [] OTHER -> {"ctx_new", "init", "crypt"}
        /\ held \subseteq {"ctx", "pkey"} \/ outcome \in {"write_public", "write_private"}

\* A ciphertext of AESCBC or DES holds the bytes an int counts of the text's length, all
\* of them only if the text is shorter than IntLimit, in whole blocks and with a padding;
\* one of RSA is as long as the modulus and holds the whole text.
Lengths ==
    cipher # NoCipher =>
        IF object.class = "RSA"
        THEN cipher.taken = text /\ cipher.len = object.size \div 8 /\ text <= cipher.len - 66
        ELSE /\ cipher.taken = text % (2 * IntLimit) /\ cipher.taken < IntLimit
             /\ cipher.len = cipher.taken - (cipher.taken % blockSize) + blockSize

\* What encrypt() returned comes back under the same keys, as far as the lengths
\* fit an int; a longer text comes back as so much of it as the int counted.  RSA
\* never returns anything but the text.
RoundTrip ==
    next = 0 /\ fn = "decrypt" /\ outcome = "returned" =>
        /\ object.class = "RSA" => plain = text
        /\ cipher.keys = keys /\ text < IntLimit => plain = text
        /\ plain # Garbage => plain = text % (2 * IntLimit)

\* What the library writes fits the vector it was given: a block more than the text,
\* or as much as the cipher.
FitsBuffer ==
    next # 0 /\ object.class # "RSA" =>
        total + Written(Call) <= (IF fn = "encrypt" THEN text + blockSize ELSE cipher.len)

----------------------------------------------------------------------------
\* What the function that runs holds before its next library call.
Holds ==
    CASE next = 1 -> {}
      [] next > 1 /\ object.class # "RSA" -> {"ctx"}
      [] next > 1 /\ object.class = "RSA" /\ fn = "generateKeyPair" ->
            IF next < 5 THEN {"ctx"} ELSE IF next = 5 THEN {"pkey"} ELSE {"pkey", "pub_bio", "priv_bio"}
      [] OTHER -> IF next = 2 THEN {"pkey"} ELSE {"ctx", "pkey"}

\* Where a call stands: what it holds, how much it has written, and that a ciphertext
\* it deciphers is what some call has made of the text.
Inv ==
    /\ object \in Objects /\ text \in Texts
    /\ keys \in [key : 0 .. 2, iv : 0 .. 2] /\ given \in 0 .. 2
    /\ object.class = "RSA" => keys.iv = 0
    /\ cipher \in [keys : [key : 0 .. 2, iv : 0 .. 2], taken : Int, len : Nat]
    /\ cipher # NoCipher =>
          /\ cipher.taken = (IF object.class = "RSA" THEN text ELSE AsInt(text))
          /\ cipher.taken \in 0 .. 2 * IntLimit - 1
          /\ object.class = "RSA" => cipher.keys.iv = 0
    /\ next \in 0 .. Len(Calls)
    /\ next # 0 =>
          /\ fn \in {"encrypt", "decrypt", "generateKeyPair"}
          /\ fn = "generateKeyPair" => object.class = "RSA"
          /\ fn = "decrypt" => cipher # NoCipher
          /\ held = Holds
          /\ object.class # "RSA" /\ next = 4 => AsInt(Input) >= 0
          /\ total = IF object.class # "RSA" /\ next = 4
                     THEN LET n == AsInt(Input)
                          IN  n - (n % blockSize)
                                - (IF fn = "decrypt" /\ n % blockSize = 0 /\ n > 0 THEN blockSize ELSE 0)
                     ELSE 0
    /\ LeftBehind
    /\ Lengths
    /\ RoundTrip

=============================================================================
