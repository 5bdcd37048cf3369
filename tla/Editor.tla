-------------------------------- MODULE Editor --------------------------------
(***************************************************************************)
(* The editor of secret values: SecureEditor (src/ui/editor.rs), opened,   *)
(* filled by the generator, saved and closed by src/ui/mod.rs.             *)
(*                                                                         *)
(* The buffer has a fixed number of bytes and is edited in place, at its   *)
(* end.  It knows nothing of characters: a backspace steps back over UTF-8 *)
(* continuation bytes.  A byte is a number; the lock on the memory is left *)
(* out.                                                                    *)
(***************************************************************************)
EXTENDS Naturals, SequencesExt

CONSTANTS Capacity,  \* CAPACITY
          Values,    \* the secrets there are, as sequences of bytes
          Keys       \* characters that are typed, as sequences of bytes

Byte == 0..255

VARIABLES stored,    \* the value in the vault
          editing,   \* EditValue is the mode
          buf, len,  \* the fields of SecureEditor
          text       \* history: the characters the user sees, and types

vars == <<stored, editing, buf, len, text>>

Zeros(n) == [i \in 1..n |-> 0]

(* A new buffer, with as much of the value as fits.                        *)
Seed(v) ==
  LET n == IF Len(v) < Capacity THEN Len(v) ELSE Capacity
  IN  buf' = SubSeq(v, 1, n) \o Zeros(Capacity - n) /\ len' = n

IsContinuation(b) == b \div 64 = 2

(* The UTF-8 bytes of one character.                                       *)
IsCharacter(c) ==
  /\ c # <<>> /\ ~IsContinuation(c[1])
  /\ \A i \in 2..Len(c) : IsContinuation(c[i])

(* What the constants may be: values need not be UTF-8, keys are.          *)
InputsAreSound ==
  /\ Capacity \in Nat
  /\ Values \subseteq Seq(Byte) /\ Keys \subseteq Seq(Byte)
  /\ \A c \in Keys : IsCharacter(c)

as_bytes == SubSeq(buf, 1, len)

(* The characters of a sequence of bytes, each a sequence of bytes: a new  *)
(* one starts at every byte that continues none.                           *)
AddByte(chars, b) ==
  IF chars # <<>> /\ IsContinuation(b)
    THEN [chars EXCEPT ![Len(chars)] = Append(@, b)]
    ELSE Append(chars, <<b>>)

CharactersOf(bytes) ==
  LET chars[i \in 0..Len(bytes)] ==
        IF i = 0 THEN <<>> ELSE AddByte(chars[i - 1], bytes[i])
  IN  chars[Len(bytes)]

Init ==
  /\ stored \in Values
  /\ editing = FALSE /\ buf = Zeros(Capacity) /\ len = 0 /\ text = <<>>

-----------------------------------------------------------------------------
(* begin_edit.                                                             *)
Open ==
  /\ ~editing /\ editing' = TRUE
  /\ Seed(stored)
  /\ text' = CharactersOf(SubSeq(stored, 1, len'))
  /\ UNCHANGED stored

push_char(c) ==
  /\ editing
  /\ IF len + Len(c) > Capacity
       THEN UNCHANGED <<buf, len, text>>
       ELSE /\ buf' = [i \in 1..Capacity |-> IF i - len \in 1..Len(c) THEN c[i - len] ELSE buf[i]]
            /\ len' = len + Len(c)
            /\ text' = Append(text, c)
  /\ UNCHANGED <<stored, editing>>

(* Where the last character begins.                                        *)
LastStart ==
  CHOOSE k \in 0..(len - 1) :
    /\ k = 0 \/ ~IsContinuation(buf[k + 1])
    /\ \A j \in (k + 1)..(len - 1) : IsContinuation(buf[j + 1])

(* Mutated: the bytes that are freed are left in the buffer.               *)
BackspaceUnwiped ==
  /\ editing /\ len > 0
  /\ len' = LastStart
  /\ text' = Front(text)
  /\ UNCHANGED <<stored, editing, buf>>

backspace ==
  /\ editing /\ len > 0
  /\ len' = LastStart
  /\ buf' = [i \in 1..Capacity |-> IF i \in (len' + 1)..len THEN 0 ELSE buf[i]]
  /\ text' = Front(text)
  /\ UNCHANGED <<stored, editing>>

(* The generator puts a value in place of all there was.                   *)
Generate(v) ==
  /\ editing
  /\ Seed(v)
  /\ text' = CharactersOf(SubSeq(v, 1, len'))
  /\ UNCHANGED <<stored, editing>>

(* Ctrl-S that succeeds, and Esc.                                          *)
Close ==
  /\ editing /\ editing' = FALSE
  /\ Seed(<<>>) /\ text' = <<>>
Save == stored' = as_bytes /\ Close
Cancel == UNCHANGED stored /\ Close

Next ==
  \/ Open \/ backspace \/ Save \/ Cancel
  \/ \E c \in Keys : push_char(c)
  \/ \E v \in Values : Generate(v)

Spec == Init /\ [][Next]_vars

-----------------------------------------------------------------------------
(* The buffer holds the characters the user sees and nothing else: what is *)
(* saved is the value that was opened, as far as it fits, with what was    *)
(* typed after it; no character is ever cut in two by typing or deleting;  *)
(* and of what was deleted, replaced or closed no byte is left.            *)
TypedIsKept == buf = FlattenSeq(text) \o Zeros(Capacity - len) /\ len = Len(FlattenSeq(text))
=============================================================================
