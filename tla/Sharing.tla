------------------------------- MODULE Sharing -------------------------------
(***************************************************************************)
(* share and reconstruct (src/cli/sharing.rs) over the commitments, keys   *)
(* and tag of src/sharing/multisig.rs.                                     *)
(*                                                                         *)
(* A run of share splits the secret and writes one file per share into a   *)
(* directory, each under a name that must not exist; runs for one secret   *)
(* name, or for names with one safe_stem, use the same file names.  The    *)
(* files are handed out or thrown away at any time.  Whoever has some of   *)
(* them may reconstruct.                                                   *)
(*                                                                         *)
(* Abstracted: a split, with its keys and commitments, is named by its     *)
(* run; a share's data by its split and index, so that it opens and meets  *)
(* the commitment of its own split only; interpolation over enough shares  *)
(* by the secret (Shamir), over too few by Garbage, which fails the tag.   *)
(***************************************************************************)
EXTENDS Naturals, SequencesExt

CONSTANTS Runs,             \* runs of share
          Secrets, Garbage,
          MaxN,             \* shares, at most 255
          NoFile, Torn, Err

ASSUME SharesAssumption == MaxN \in 1..255
ASSUME ResultsAssumption ==
  /\ Secrets \cap {Garbage, Err} = {} /\ Garbage # Err /\ NoFile # Torn

Tokens == [split : Runs, index : 1..MaxN]
ASSUME FilesAssumption == Tokens \cap {NoFile, Torn} = {}

VARIABLES secret, m, n,  \* of a run: its secret, threshold and shares
          next,          \* of a run: the share it writes next
          out,           \* how it ended
          dir,           \* the share files of the directory
          custody,       \* the files that were handed out
          lost           \* the tokens that were thrown away
vars == <<secret, m, n, next, out, dir, custody, lost>>
asked == <<secret, m, n>>

TypeOK ==
  /\ secret \in [Runs -> Secrets] /\ m \in [Runs -> 0..MaxN] /\ n \in [Runs -> 0..MaxN]
  /\ next \in [Runs -> 0..MaxN]
  /\ out \in [Runs -> {"none", "ok", "refused", "failed"}]
  /\ dir \in [1..MaxN -> Tokens \cup {NoFile, Torn}]
  /\ custody \subseteq Tokens \cup {Torn} /\ lost \subseteq Tokens
  /\ \A t \in (Range(dir) \cup custody \cup lost) \cap Tokens : t.index <= n[t.split]

Init ==
  /\ secret \in [Runs -> Secrets]
  /\ m \in [Runs -> 0..MaxN] /\ n \in [Runs -> 0..MaxN]
  /\ next = [p \in Runs |-> 0] /\ out = [p \in Runs |-> "none"]
  /\ dir = [i \in 1..MaxN |-> NoFile] /\ custody = {} /\ lost = {}

Writing(p) == out[p] = "none" /\ next[p] > 0
EndRun(p, how) == out' = [out EXCEPT ![p] = how] /\ UNCHANGED next

(* split_into_tokens: the arguments are checked twice, and shamir::split   *)
(* asks for a threshold of at least 2.                                     *)
SplitIntoTokens(p) ==
  /\ out[p] = "none" /\ next[p] = 0
  /\ IF n[p] >= 2 /\ m[p] \in 1..n[p] /\ m[p] >= 2
       THEN next' = [next EXCEPT ![p] = 1] /\ UNCHANGED out
       ELSE EndRun(p, "refused")
  /\ UNCHANGED <<asked, dir, custody, lost>>

(* The file is there, and so is the next one's turn.                       *)
Written(p) ==
  /\ dir' = [dir EXCEPT ![next[p]] = [split |-> p, index |-> next[p]]]
  /\ IF next[p] = n[p]
       THEN EndRun(p, "ok")
       ELSE next' = [next EXCEPT ![p] = @ + 1] /\ UNCHANGED out

(* Mutated: an existing file is truncated.                                 *)
WriteOver(p) ==
  /\ Writing(p)
  /\ Written(p)
  /\ UNCHANGED <<asked, custody, lost>>

(* create_new refuses a file that exists; the files before it stay.        *)
WriteShare(p) ==
  /\ Writing(p)
  /\ IF dir[next[p]] = NoFile THEN Written(p) ELSE EndRun(p, "failed") /\ UNCHANGED dir
  /\ UNCHANGED <<asked, custody, lost>>

(* The file cannot be made, or is not written to its end, or the run is    *)
(* interrupted.                                                            *)
WriteFails(p) ==
  /\ Writing(p)
  /\ EndRun(p, "failed")
  /\ \/ UNCHANGED dir
     \/ dir[next[p]] = NoFile /\ dir' = [dir EXCEPT ![next[p]] = Torn]
  /\ UNCHANGED <<asked, custody, lost>>

HandOut(i) ==
  /\ dir[i] # NoFile
  /\ dir' = [dir EXCEPT ![i] = NoFile] /\ custody' = custody \cup {dir[i]}
  /\ UNCHANGED <<asked, next, out, lost>>

ThrowAway(i) ==
  /\ dir[i] # NoFile
  /\ dir' = [dir EXCEPT ![i] = NoFile] /\ lost' = lost \cup ({dir[i]} \ {Torn})
  /\ UNCHANGED <<asked, next, out, custody>>

Next ==
  \/ \E p \in Runs : SplitIntoTokens(p) \/ WriteShare(p) \/ WriteFails(p)
  \/ \E i \in 1..MaxN : HandOut(i) \/ ThrowAway(i)

Spec == Init /\ [][Next]_vars

-----------------------------------------------------------------------------
(* Mutated: interpolation is trusted.                                      *)
CombineUntagged(ts, c) ==
  IF \/ \E i \in DOMAIN ts : ts[i].split # c
     \/ Len(ts) < 2 \/ ~IsInjective(ts)
    THEN Err
    ELSE IF Len(ts) >= m[c] THEN secret[c] ELSE Garbage

(* multisig::reconstruct_secret, with the commitments of split c: every    *)
(* share meets its commitment, shamir::reconstruct wants two distinct      *)
(* ones, and the tag is verified.                                          *)
Combine(ts, c) ==
  IF \/ \E i \in DOMAIN ts : ts[i].split # c
     \/ Len(ts) < 2 \/ ~IsInjective(ts)
     \/ Len(ts) < m[c]
    THEN Err
    ELSE secret[c]

(* Mutated: the threshold itself is not enough.                            *)
ReconstructMore(ts) ==
  IF \/ ts = <<>> \/ \E i \in DOMAIN ts : ts[i] = Torn
     \/ \E i \in DOMAIN ts : ts[i].split # ts[1].split
     \/ ~IsInjective(ts)
     \/ Len(ts) <= m[ts[1].split]
    THEN Err
    ELSE Combine(ts, ts[1].split)

(* reconstruct_from_tokens, over the contents of the files it is given.    *)
Reconstruct(ts) ==
  IF \/ ts = <<>> \/ \E i \in DOMAIN ts : ts[i] = Torn
     \/ \E i \in DOMAIN ts : ts[i].split # ts[1].split
     \/ ~IsInjective(ts)
     \/ Len(ts) < m[ts[1].split]
    THEN Err
    ELSE Combine(ts, ts[1].split)

Files == (Range(dir) \ {NoFile}) \cup custody
Picks(S) == UNION {[1..k -> S] : k \in 0..MaxN}

-----------------------------------------------------------------------------
(* A run that reported success has made every share, and the share is      *)
(* somewhere unless it was thrown away, whatever other runs write into the *)
(* directory.                                                              *)
SuccessMeansAllShares ==
  \A p \in Runs : out[p] = "ok" =>
    \A i \in 1..n[p] : [split |-> p, index |-> i] \in Files \cup lost

(* Any threshold of the files of one split, those of a run that failed     *)
(* half-way included, give its secret.                                     *)
EnoughFilesReconstruct ==
  \A ts \in Picks(Files \ {Torn}) : \A p \in Runs :
    (Len(ts) >= m[p] /\ ts # <<>> /\ IsInjective(ts) /\ \A i \in DOMAIN ts : ts[i].split = p)
      => Reconstruct(ts) = secret[p]

(* "A sub-threshold or inconsistent set is rejected, never silently        *)
(* wrong": by the command, and by the library function under it whatever   *)
(* commitments it is given.                                                *)
NeverSilentlyWrong ==
  /\ \A ts \in Picks(Files) :
       Reconstruct(ts) # Err =>
         \E p \in Runs : Reconstruct(ts) = secret[p] /\ \A i \in DOMAIN ts : ts[i].split = p
  /\ \A ts \in Picks(Files \ {Torn}), c \in Runs : Combine(ts, c) \in {Err, secret[c]}
=============================================================================
