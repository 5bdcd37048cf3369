-------------------------------- MODULE Limits --------------------------------
(***************************************************************************)
(* How long a secret may be, and where: the editor's buffer                *)
(* (src/ui/editor.rs), the frames between commands and agent               *)
(* (src/cli/protocol.rs), the bundles between devices                      *)
(* (src/network/transfer.rs, src/cli/pairing.rs) and names                 *)
(* (src/core/name.rs) each have a limit of their own.                      *)
(*                                                                         *)
(* A secret is its length and that of its name.  It is put or typed into a *)
(* vault, and passes from one device to the next by pair-send and          *)
(* pair-receive, as often as one likes.  Lengths of messages are those of  *)
(* bincode (8 bytes before a sequence or string, 4 for a variant, 1 for an *)
(* Option) and of base64 without padding.                                  *)
(***************************************************************************)
EXTENDS Naturals

CONSTANTS Sizes, NameSizes,  \* the lengths tried
          SealOverhead       \* what the AEAD adds

(* What the constants may be.                                              *)
InputsAreSound == Sizes \cup NameSizes \subseteq Nat /\ SealOverhead \in 0..1024

VARIABLES where,   \* "outside", "vault", "bundle" or "lost"
          size, nameSize,
          typed    \* the secret was typed in the editor
vars == <<where, size, nameSize, typed>>

CAPACITY == 64 * 1024
MAX_FRAME == 16 * 1024 * 1024
MAX_NAME_LEN == 256
MAX_BUNDLE_LEN == 1024 * 1024
(* Mutated: as small as the editor.                                        *)
LanReadOfEditor == 64 * 1024
MAX_LAN_READ == 256 * 1024

NameIsValid == nameSize \in 1..MAX_NAME_LEN

(* The body of a Put with its token, and of the answer to a Get.           *)
PutLen(n) == 4 + (8 + 32) + (8 + nameSize) + (8 + n)
SecretLen(n) == 4 + 1 + (8 + n)

(* The bundle: the ML-KEM ciphertext, and name and secret sealed.          *)
Base64(n) == (4 * n + 2) \div 3
BundleLen(n) == 23 + Base64((8 + 1088) + (8 + SealOverhead + (8 + nameSize) + (8 + n)))

Init ==
  /\ where = "outside"
  /\ size \in Sizes /\ nameSize \in NameSizes /\ typed = FALSE

-----------------------------------------------------------------------------
(* put: the frame is checked by both ends, the name by the store.          *)
Put ==
  /\ where = "outside" /\ NameIsValid /\ PutLen(size) <= MAX_FRAME
  /\ where' = "vault"
  /\ UNCHANGED <<size, nameSize, typed>>

(* The editor takes what fits, and the store the name.                     *)
TypeAndSave ==
  /\ where = "outside" /\ NameIsValid
  /\ size' = IF size > CAPACITY THEN CAPACITY ELSE size
  /\ where' = "vault" /\ typed' = TRUE
  /\ UNCHANGED nameSize

(* pair-send gets the secret, and seals it whatever its length.            *)
PairSend ==
  /\ where = "vault" /\ SecretLen(size) <= MAX_FRAME
  /\ where' = "bundle"
  /\ UNCHANGED <<size, nameSize, typed>>

(* read_line_bounded gives up when it has read MAX_LAN_READ bytes and no   *)
(* end of line.                                                            *)
ArrivesByLan == BundleLen(size) < MAX_LAN_READ
Opens == BundleLen(size) <= MAX_BUNDLE_LEN /\ NameIsValid

(* pair-receive, which has the agent store, and the UI's import.           *)
Receive ==
  /\ where = "bundle"
  /\ where' \in {IF ArrivesByLan /\ Opens /\ PutLen(size) <= MAX_FRAME THEN "vault" ELSE "lost",
                 IF Opens /\ PutLen(size) <= MAX_FRAME THEN "vault" ELSE "lost",
                 IF Opens THEN "vault" ELSE "lost"}
  /\ UNCHANGED <<size, nameSize, typed>>

Next == Put \/ TypeAndSave \/ PairSend \/ Receive

Spec == Init /\ [][Next]_vars

-----------------------------------------------------------------------------
(* Whatever way a secret came into a vault, the agent can hand it out, and *)
(* what was typed in the editor reaches every other device by every way.   *)
LimitsAgree ==
  /\ where = "vault" => SecretLen(size) <= MAX_FRAME
  /\ typed => where # "lost"
=============================================================================
