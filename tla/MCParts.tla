------------------------------- MODULE MCParts -------------------------------
(***************************************************************************)
(* The algorithms and the parts of the program that stand alone, for TLC.  *)
(* They share no state: in a behaviour one of them runs, `part` says       *)
(* which, and the others stay in one initial state.                        *)
(* The field of Shamir's scheme is that of Gf256.                          *)
(***************************************************************************)
EXTENDS Gf256, Parts

VARIABLE part
clipboard == vars
allVars == <<part, shamir, generation, totp, clipboard, editor, header, limits>>

(* No byte, one, and two; 141 and 2 are inverse to each other.             *)
MCSecrets == {<<>>, <<1>>, <<202, 255>>}
MCCoeffs == {0, 141, 255}

(* Charsets at and beyond the limits of a byte and of usual sizes; word    *)
(* lists of powers of two, the bundled 2048 words, and other lengths.      *)
MCCharsets == {0, 1, 2, 3, 10, 62, 94, 128, 129, 255, 256, 257}
MCListLengths == {0, 1, 3, 2, 8, 32, 2048}

(* Secrets with their low bits set and not, one with a separator (32), one *)
(* with a foreign character (33) and one too short for a byte; numbers in  *)
(* and out of range; an unknown algorithm, a field that is not read.       *)
Field(key, txt, num, name) == [key |-> key, text |-> txt, num |-> num, name |-> name]
MCTexts == {<<31, 31, 31, 16>>, <<10, 21, 32, 0, 31, 1, 30, 8, 17>>, <<4, 33>>, <<7>>}
MCFields ==
  {Field("secret", t, 0, "") : t \in MCTexts}
    \cup {Field("digits", <<>>, d, "") : d \in {0, 1, 9, 10}}
    \cup {Field("period", <<>>, p, "") : p \in {0, 2, 7}}
    \cup {Field("algorithm", <<>>, 0, a) : a \in {"SHA256", "SHA512", "MD5"}}
    \cup {Field("issuer", <<>>, 0, "")}

(* Bare seeds of 15 and 16 characters; random secrets of every length that *)
(* leaves other bits over.                                                 *)
MCSeeds == {[i \in 1..n |-> (7 * i) % 32] : n \in {15, 16}} \cup {[i \in 1..16 |-> 33]}
MCFresh == {<<255>>, <<1, 128>>, <<0, 0, 0>>, <<255, 1, 254, 7>>, [i \in 1..20 |-> (13 * i) % 256]}
(* Characters of one, two and three bytes; values longer than the buffer,  *)
(* cut within a character, and one that is not UTF-8.                      *)
MCKeys == {<<97>>, <<195, 169>>, <<226, 130, 172>>}
MCValues == {<<>>, <<97>>, <<97, 195, 169>>, <<195, 169, 226, 130, 172, 97>>, <<130, 130, 97>>}
(* Salts that are not all alike, so that a shift by one byte shows.        *)
MCSalts == {[i \in 1..32 |-> 0], [i \in 1..32 |-> 255 - i]}

ASSUME InputsAssumption ==
  /\ InputsAreSound /\ Sh!InputsAreSound /\ G!InputsAreSound /\ T!InputsAreSound
  /\ E!InputsAreSound /\ H!InputsAreSound /\ L!InputsAreSound

-----------------------------------------------------------------------------
FirstShamir == Sh!Init /\ secret = <<>> /\ threshold = 2
FirstGeneration == what = "words" /\ size = 2 /\ count = 1 /\ random = <<>> /\ out = <<>>
FirstTotp == T!Init /\ now = 0
FirstClipboard == Init /\ tool = [t \in 1..NTools |-> "works"]
FirstEditor == E!Init /\ value = <<>>
FirstLimits == L!Init /\ length = 0 /\ nameSize = 0

PartsInit ==
  /\ part \in {"shamir", "generation", "totp", "clipboard", "editor", "header", "limits"}
  /\ IF part = "shamir" THEN Sh!Init ELSE FirstShamir
  /\ IF part = "generation" THEN G!Init ELSE FirstGeneration
  /\ IF part = "totp" THEN T!Init ELSE FirstTotp
  /\ IF part = "clipboard" THEN Init ELSE FirstClipboard
  /\ IF part = "editor" THEN E!Init ELSE FirstEditor
  /\ H!Init
  /\ IF part = "limits" THEN L!Init ELSE FirstLimits

PartsNext ==
  /\ UNCHANGED part
  /\ \/ /\ part = "shamir" /\ Sh!Next
        /\ UNCHANGED <<generation, totp, clipboard, editor, header, limits>>
     \/ /\ part = "generation" /\ G!Next
        /\ UNCHANGED <<shamir, totp, clipboard, editor, header, limits>>
     \/ /\ part = "totp" /\ T!Next
        /\ UNCHANGED <<shamir, generation, clipboard, editor, header, limits>>
     \/ /\ part = "clipboard" /\ Next
        /\ UNCHANGED <<shamir, generation, totp, editor, header, limits>>
     \/ /\ part = "editor" /\ E!Next
        /\ UNCHANGED <<shamir, generation, totp, clipboard, header, limits>>
     \/ /\ part = "header" /\ H!Next
        /\ UNCHANGED <<shamir, generation, totp, clipboard, editor, limits>>
     \/ /\ part = "limits" /\ L!Next
        /\ UNCHANGED <<shamir, generation, totp, clipboard, editor, header>>

PartsSpec == PartsInit /\ [][PartsNext]_allVars

-----------------------------------------------------------------------------
(* gf_mul and gf_inv are the field's, for all bytes (looked at once).      *)
ArithmeticIsGF256 == (part = "shamir" /\ FirstShamir) => FieldIsGF256
=============================================================================
