-------------------------------- MODULE Parts --------------------------------
(***************************************************************************)
(* The parts of the program that stand alone, side by side, and what is    *)
(* checked and proved about each.  Clipboard is extended: its names stand  *)
(* for themselves.                                                         *)
(***************************************************************************)
EXTENDS Clipboard

CONSTANTS Add(_, _), Multiply(_, _), Invert(_), Secrets, Coeffs, MaxN, Thresholds,
          ListLengths, Counts, Charsets, Lengths, RandomBytes,
          Fields, MaxFields, Seeds, Fresh, Starts, MaxWait, HashEnds,
          Capacity, Values, Keys,
          Times, Memories, Threads, Iterations, Salts,
          Sizes, NameSizes, SealOverhead,
          None, Err

VARIABLES secret, threshold, shares, used, result,
          what, size, count, random, out,
          meant, stored, shown, now, left,
          value, editing, buf, len, text,
          made, file, read,
          where, length, nameSize, typed

shamir == <<secret, threshold, shares, used, result>>
generation == <<what, size, count, random, out>>
totp == <<meant, stored, shown, now, left>>
editor == <<value, editing, buf, len, text>>
header == <<made, file, read>>
limits == <<where, length, nameSize, typed>>

Sh == INSTANCE Shamir WITH m <- threshold
G == INSTANCE Generation
T == INSTANCE Totp
E == INSTANCE Editor WITH stored <- value
H == INSTANCE VaultHeader
L == INSTANCE Limits WITH size <- length

-----------------------------------------------------------------------------
(* Any m shares or more, in any order, give the secret back.               *)
EnoughSharesReconstruct == Sh!EnoughSharesReconstruct

(* Any m - 1 shares are as likely for one secret as for another.           *)
FewSharesHide == Sh!FewSharesHide

(* generate_password favours no character and wastes no byte it could use. *)
CharactersAreUnbiased == G!CharactersAreUnbiased

(* generate_passphrase draws as many bytes as select_words needs, which    *)
(* uses every bit once, and in order.                                      *)
WordsReadTheStream == G!WordsReadTheStream

(* What otp-add stores, otp reads back.                                    *)
StoredReadsBack == T!StoredReadsBack

(* A code otp prints is the current one for as long as it says.            *)
ValidForAsLongAsShown == T!ValidForAsLongAsShown

(* The editor holds what the user sees, and nothing of what was deleted.   *)
TypedIsKept == E!TypedIsKept

(* The vault create writes is one that open derives the same key for.      *)
WrittenHeaderOpens == H!WrittenHeaderOpens

(* No secret gets past one limit of length only to be stuck at the next.   *)
LimitsAgree == L!LimitsAgree
=============================================================================
