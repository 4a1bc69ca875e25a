-------------------------------- MODULE Hill --------------------------------
(***************************************************************************)
(* The Hill cipher (crypto/classic/Hill.cpp): a constructor that turns a   *)
(* key string into a matrix and its inverse modulo 26, or throws; then a   *)
(* text is enciphered block by block and what came out deciphered.         *)
(*                                                                         *)
(* A character is its code minus that of 'A': letters are 0 .. 25, small   *)
(* letters 32 .. 57, a blank -33.                                          *)
(***************************************************************************)
EXTENDS Integers, Sequences, FiniteSets, Functions

CONSTANTS Keys,   \* [letters |-> a string of capitals, size |-> the matrix size]
          Texts

Sigma(n, f(_)) == FoldFunctionOnSet(+, 0, [i \in 1 .. n |-> f(i)], 1 .. n)

mod26(x) == ((x % 26) + 26) % 26

Matrix(n, f(_, _)) == [i \in 1 .. n |-> [j \in 1 .. n |-> f(i, j)]]

Times(A, v) == [i \in DOMAIN A |-> mod26(Sigma(Len(v), LAMBDA j : A[i][j] * v[j]))]

\* The matrix without row i and column j.
SubMatrix(A, i, j) ==
    LET r(x) == IF x < i THEN x ELSE x + 1
        c(x) == IF x < j THEN x ELSE x + 1
    IN  Matrix(Len(A) - 1, LAMBDA x, y : A[r(x)][c(y)])

Sign(k) == IF k % 2 = 0 THEN 1 ELSE -1

\* Of the empty matrix it is 0, not 1.
determinant[A \in Seq(Seq(Int))] ==
    CASE Len(A) = 1 -> A[1][1]
      [] Len(A) = 2 -> mod26(A[1][1] * A[2][2] - A[1][2] * A[2][1])
      [] OTHER      -> mod26(Sigma(Len(A), LAMBDA k :
                                Sign(k - 1) * A[1][k] * determinant[SubMatrix(A, 1, k)]))

\* The cofactors left where they are.
adjugate_NoTranspose(A) ==
    Matrix(Len(A), LAMBDA i, j : mod26(Sign(i + j) * determinant[SubMatrix(A, i, j)]))

adjugate(A) ==
    Matrix(Len(A), LAMBDA i, j : mod26(Sign(i + j) * determinant[SubMatrix(A, j, i)]))

\* Every inverse there is; modInverse() throws when there is none.
Inverses(a, m) == {x \in 1 .. m - 1 : ((a % m) * x) % m = 1}

----------------------------------------------------------------------------
VARIABLES key, text,
          object,          \* "none", "refused" or "built"
          matrix, inverse, \* m_keyMatrix, m_inverseKeyMatrix
          sent,            \* the ciphertext so far
          back             \* what decrypt() made of it so far

vars == << key, text, object, matrix, inverse, sent, back >>

Init ==
    /\ key \in Keys
    /\ text \in Texts
    /\ object = "none"
    /\ matrix = << >> /\ inverse = << >>
    /\ sent = << >>
    /\ back = << >>

LongEnough == Len(key.letters) >= key.size * key.size

KeyMatrix == Matrix(key.size, LAMBDA i, j : key.letters[(i - 1) * key.size + j])

Refuse ==
    /\ object = "none"
    /\ LongEnough => Inverses(determinant[KeyMatrix], 26) = {}
    /\ object' = "refused"
    /\ UNCHANGED << key, text, matrix, inverse, sent, back >>

Construct ==
    /\ object = "none"
    /\ LongEnough
    /\ \E detInv \in Inverses(determinant[KeyMatrix], 26) :
          inverse' = Matrix(key.size, LAMBDA i, j : mod26(adjugate(KeyMatrix)[i][j] * detInv))
    /\ matrix' = KeyMatrix
    /\ object' = "built"
    /\ UNCHANGED << key, text, sent, back >>

\* Block k of a text; what is missing of the last one is 'A'.
Block(t, k) ==
    [j \in 1 .. key.size |-> IF (k - 1) * key.size + j <= Len(t) THEN t[(k - 1) * key.size + j] ELSE 0]

encrypt ==
    /\ object = "built"
    /\ Len(sent) < Len(text)
    /\ sent' = sent \o Times(matrix, Block(text, Len(sent) \div key.size + 1))
    /\ UNCHANGED << key, text, object, matrix, inverse, back >>

decrypt ==
    /\ object = "built"
    /\ Len(sent) >= Len(text)
    /\ Len(back) < Len(sent)
    /\ back' = back \o Times(inverse, Block(sent, Len(back) \div key.size + 1))
    /\ UNCHANGED << key, text, object, matrix, inverse, sent >>

Next == Refuse \/ Construct \/ encrypt \/ decrypt

Spec == Init /\ [][Next]_vars

----------------------------------------------------------------------------
\* The determinant by permutations: an independent definition.
Leibniz(A) ==
    LET P == {f \in [1 .. Len(A) -> 1 .. Len(A)] : \A i, j \in DOMAIN f : f[i] = f[j] => i = j}
        Swaps(f) == Cardinality({c \in (DOMAIN f) \X (DOMAIN f) : c[1] < c[2] /\ f[c[1]] > f[c[2]]})
        Product(f) == FoldFunctionOnSet(LAMBDA x, y : x * y, 1, [i \in DOMAIN f |-> A[i][f[i]]], DOMAIN f)
    IN  FoldFunctionOnSet(+, 0, [f \in P |-> Sign(Swaps(f)) * Product(f)], P)

\* A key is refused when it is too short or its matrix has no inverse modulo 26,
\* and for no other reason.
RefusedRightly ==
    /\ object = "refused" /\ LongEnough =>
          Leibniz(KeyMatrix) % 2 = 0 \/ Leibniz(KeyMatrix) % 13 = 0
    /\ object = "built" => Leibniz(KeyMatrix) % 2 # 0 /\ Leibniz(KeyMatrix) % 13 # 0

\* From two rows on, what the constructor keeps is the inverse of its matrix.  For
\* one row it is 0, since adjugate() takes the determinant of an empty matrix, and
\* everything deciphers to 'A'.
InverseInverts ==
    object = "built" /\ key.size > 1 =>
        \A i, j \in 1 .. key.size :
            mod26(Sigma(key.size, LAMBDA k : matrix[i][k] * inverse[k][j])) = IF i = j THEN 1 ELSE 0

\* Deciphering gives back the text, filled up with 'A', as far as it has come;
\* other characters come back as the capital of the same remainder modulo 26.
RoundTrip ==
    key.size > 1 =>
        \A i \in DOMAIN back : back[i] = IF i <= Len(text) THEN mod26(text[i]) ELSE 0

=============================================================================
