---------------------------- MODULE CipherWindow ----------------------------
(***************************************************************************)
(* The cipher window (app/crypto): the panels with the fields the user     *)
(* edits, the timer that collects edits, the file dialogs, and process(),  *)
(* which shows the result of the selected cipher.                          *)
(*                                                                         *)
(* A result is named by what it was computed from; the ciphers themselves  *)
(* are modules of their own.  A file dialog runs an event loop of its own: *)
(* the user cannot reach the window behind it, the timer can.              *)
(***************************************************************************)
EXTENDS Naturals

CONSTANTS Stacked,       \* the ciphers whose panel is in the stack
          Caesar,        \* the first of them, whose key is a number
          Vigenere,      \* the one that divides by the length of its key
          Default, Text, \* key texts: the field's at the start, another, besides ""
          Inputs,        \* texts of the input with a letter in them
          KeySizes,      \* of the AES panel's list
          MaxEdits       \* bound on the user's actions

ASSUME WindowAssumption ==
    /\ {Caesar, Vigenere} \subseteq Stacked /\ {"AES", "RSA"} \cap Stacked = {}
    /\ {"", "zero"} \cap {Default, Text} = {} /\ "" \notin Inputs

\* The list has two entries more than the stack has panels: theirs are children of
\* the stack that were never added to it, and lie open behind the others.
Loose == {"AES", "RSA"}
Ciphers == Stacked \cup Loose

Modes == {"encrypt", "decrypt"}

VARIABLES cipher, mode, input,
          panel,    \* what the stack shows
          field,    \* the key field or fields of each panel
          keySize,  \* the AES panel's list
          timer,    \* updateTimer is running
          dialog,   \* "none", "open" or "save": the file dialog on the screen
          output,   \* what the shown result was computed from
          alive,    \* FALSE once process() has divided by zero
          edits

vars == << cipher, mode, input, panel, field, keySize, timer, dialog, output, alive, edits >>
screen == << cipher, mode, input, panel, field, keySize >>

\* What the validators leave: digits within bounds or letters; an empty field is
\* Intermediate, which is reported like any other change.  AES and RSA have none.
Typed == {"", Default, Text}

\* What a panel returns of its field: toInt() makes 0 of an empty text.
Reads(c, f) == IF c = Caesar /\ f[c] = "" THEN "zero" ELSE f[c]

\* Nothing is computed for RSA.
Shows(c, m, f, n, i) ==
    IF c = "RSA" THEN [cipher |-> "RSA", mode |-> "", key |-> "", size |-> 0, input |-> ""]
    ELSE [cipher |-> c, mode |-> m, key |-> Reads(c, f), size |-> IF c = "AES" THEN n ELSE 0,
          input |-> i]

\* An exception of a cipher, or of a key that does not fit the key size, is caught
\* and its text shown; the division is not.
process(c, m, f, i) ==
    IF c = Vigenere /\ f[c] = "" /\ i # ""
    THEN /\ alive' = FALSE
         /\ UNCHANGED output
    ELSE /\ output' = Shows(c, m, f, keySize, i)
         /\ UNCHANGED alive

\* The constructor connects the fields, sets the defaults, which starts the timer,
\* and processes the empty input.
Init ==
    /\ cipher = Caesar /\ panel = Caesar
    /\ mode = "encrypt"
    /\ input = ""
    /\ field = [c \in Ciphers |-> IF c \in Loose THEN "" ELSE Default]
    /\ keySize \in KeySizes /\ \A n \in KeySizes : keySize <= n
    /\ timer = TRUE
    /\ dialog = "none"
    /\ output = Shows(cipher, mode, field, keySize, input)
    /\ alive = TRUE
    /\ edits = 0

User == alive /\ dialog = "none" /\ edits < MaxEdits /\ edits' = edits + 1

\* Only the panel changes with the selection.
SelectCipher_PanelOnly ==
    /\ User
    /\ \E c \in Ciphers \ {cipher} :
          /\ cipher' = c
          /\ panel' = IF c \in Stacked THEN c ELSE panel
    /\ UNCHANGED << mode, input, field, keySize, timer, dialog, output, alive >>

\* An index the stack does not have leaves its panel as it is.
SelectCipher ==
    /\ User
    /\ \E c \in Ciphers \ {cipher} :
          /\ cipher' = c
          /\ panel' = IF c \in Stacked THEN c ELSE panel
          /\ process(c, mode, field, input)
    /\ UNCHANGED << mode, input, field, keySize, timer, dialog >>

\* encryptRadio is toggled by either button, the two are in one group.
ToggleMode ==
    /\ User
    /\ \E m \in Modes \ {mode} :
          /\ mode' = m
          /\ process(cipher, m, field, input)
    /\ UNCHANGED << cipher, input, panel, field, keySize, timer, dialog >>

\* Every line edit is connected, whichever cipher is selected.
EditField ==
    /\ User
    /\ \E c \in Loose \cup {panel}, t \in Typed :
          /\ t # field[c]
          /\ field' = [field EXCEPT ![c] = t]
    /\ timer' = TRUE
    /\ UNCHANGED << cipher, mode, input, panel, keySize, dialog, output, alive >>

\* Nobody listens to the list of key sizes.
SelectKeySize ==
    /\ User
    /\ \E n \in KeySizes \ {keySize} : keySize' = n
    /\ UNCHANGED << cipher, mode, input, panel, field, timer, dialog, output, alive >>

\* Only the input can be edited; the output is read-only.
EditInput ==
    /\ User
    /\ \E i \in (Inputs \cup {""}) \ {input} : input' = i
    /\ timer' = TRUE
    /\ UNCHANGED << cipher, mode, panel, field, keySize, dialog, output, alive >>

Click ==
    /\ User
    /\ dialog' \in {"open", "save"}
    /\ UNCHANGED << screen, timer, output, alive >>

\* The dialog is cancelled or the file cannot be opened; or the output is written,
\* which changes nothing here.
CloseDialog ==
    /\ alive /\ dialog # "none"
    /\ dialog' = "none"
    /\ UNCHANGED << screen, timer, output, alive, edits >>

\* setPlainText() starts the timer as well, openFile() does not wait for it.
OpenFile ==
    /\ alive /\ dialog = "open"
    /\ dialog' = "none"
    /\ \E i \in Inputs :
          /\ input' = i
          /\ process(cipher, mode, field, i)
    /\ timer' = TRUE
    /\ UNCHANGED << cipher, mode, panel, field, keySize, edits >>

Timeout ==
    /\ alive /\ timer
    /\ timer' = FALSE
    /\ process(cipher, mode, field, input)
    /\ UNCHANGED << screen, dialog, edits >>

Next ==
    \/ SelectCipher
    \/ ToggleMode
    \/ EditField
    \/ SelectKeySize
    \/ EditInput
    \/ Click
    \/ CloseDialog
    \/ OpenFile
    \/ Timeout

Spec == Init /\ [][Next]_vars

----------------------------------------------------------------------------
\* With no timer running the output - on the screen and in a file that is saved now
\* - belongs to the cipher, the mode, the key and the input on the screen, whatever
\* order they were changed in and whatever a dialog delayed.  Only the key size can
\* be another than the list's, and only for AES.
Settled ==
    alive /\ ~timer =>
        \E n \in KeySizes : output = Shows(cipher, mode, field, n, input)

=============================================================================
