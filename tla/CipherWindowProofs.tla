-------------------------- MODULE CipherWindowProofs --------------------------
(***************************************************************************)
(* Proofs about CipherWindow for every set of ciphers, texts and key sizes *)
(* and however often the user edits: what the settled window shows is the  *)
(* result of what is on the screen.                                        *)
(***************************************************************************)
EXTENDS CipherWindow, TLAPS

\* The list of key sizes shows one of its entries.  SelectCipher and ToggleMode
\* compute with it, so Settled alone is not inductive.
IInv == keySize \in KeySizes /\ Settled

\* process() leaves the result of the screen it was given, or no program.
LEMMA ProcessSettles ==
    ASSUME NEW c, NEW m, NEW f, NEW i, process(c, m, f, i), keySize \in KeySizes
    PROVE  alive' => \E n \in KeySizes : output' = Shows(c, m, f, n, i)
BY DEF process

\* A step that changes nothing Settled reads, except that it may start the timer.
LEMMA Undisturbed ==
    ASSUME Settled, UNCHANGED <<cipher, mode, field, input, output, alive>>,
           timer' = timer \/ timer'
    PROVE  Settled'
<1> SUFFICES ASSUME alive', ~timer'
             PROVE  \E n \in KeySizes : output' = Shows(cipher', mode', field', n, input')
  BY DEF Settled
<1>1. PICK n \in KeySizes : output = Shows(cipher, mode, field, n, input)
  BY DEF Settled
<1> QED
  BY <1>1

LEMMA InvStep == IInv /\ [Next]_vars => IInv'
<1> SUFFICES ASSUME keySize \in KeySizes, Settled, [Next]_vars
             PROVE  keySize' \in KeySizes /\ Settled'
  BY DEF IInv
<1>1. ASSUME SelectCipher PROVE keySize' \in KeySizes /\ Settled'
  <2>1. PICK c \in Ciphers : cipher' = c /\ process(c, mode, field, input)
    BY <1>1 DEF SelectCipher
  <2>2. UNCHANGED <<mode, input, field, keySize>>
    BY <1>1 DEF SelectCipher
  <2>3. alive' => \E n \in KeySizes : output' = Shows(c, mode, field, n, input)
    BY <2>1, ProcessSettles
  <2> QED
    BY <2>1, <2>2, <2>3 DEF Settled
<1>2. ASSUME ToggleMode PROVE keySize' \in KeySizes /\ Settled'
  <2>1. PICK m \in Modes : mode' = m /\ process(cipher, m, field, input)
    BY <1>2 DEF ToggleMode
  <2>2. UNCHANGED <<cipher, input, field, keySize>>
    BY <1>2 DEF ToggleMode
  <2>3. alive' => \E n \in KeySizes : output' = Shows(cipher, m, field, n, input)
    BY <2>1, ProcessSettles
  <2> QED
    BY <2>1, <2>2, <2>3 DEF Settled
<1>3. ASSUME EditField PROVE keySize' \in KeySizes /\ Settled'
  BY <1>3 DEF EditField, Settled
<1>4. ASSUME SelectKeySize PROVE keySize' \in KeySizes /\ Settled'
  <2>1. Settled'
    BY <1>4, Undisturbed DEF SelectKeySize
  <2> QED
    BY <1>4, <2>1 DEF SelectKeySize
<1>5. ASSUME EditInput PROVE keySize' \in KeySizes /\ Settled'
  BY <1>5 DEF EditInput, Settled
<1>6. ASSUME Click PROVE keySize' \in KeySizes /\ Settled'
  BY <1>6, Undisturbed DEF Click, screen
<1>7. ASSUME CloseDialog PROVE keySize' \in KeySizes /\ Settled'
  BY <1>7, Undisturbed DEF CloseDialog, screen
<1>8. ASSUME OpenFile PROVE keySize' \in KeySizes /\ Settled'
  BY <1>8 DEF OpenFile, Settled
<1>9. ASSUME Timeout PROVE keySize' \in KeySizes /\ Settled'
  <2>1. alive' => \E n \in KeySizes : output' = Shows(cipher, mode, field, n, input)
    BY <1>9, ProcessSettles DEF Timeout
  <2> QED
    BY <1>9, <2>1 DEF Timeout, screen, Settled
<1>10. CASE UNCHANGED vars
  BY <1>10, Undisturbed DEF vars
<1> QED
  BY <1>1, <1>2, <1>3, <1>4, <1>5, <1>6, <1>7, <1>8, <1>9, <1>10 DEF Next

\* The window shows the result of what is on the screen, up to the AES key size,
\* whenever its timer does not run: no order of edits, clicks and dialogs leaves
\* the result of a cipher, a mode, a key or an input that is no longer there.
THEOREM WindowSettles == Spec => []Settled
<1>1. Init => IInv
  BY DEF Init, IInv, Settled
<1>2. IInv => Settled
  BY DEF IInv
<1> QED
  BY <1>1, <1>2, InvStep, PTL DEF Spec

=============================================================================
