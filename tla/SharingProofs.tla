--------------------------- MODULE SharingProofs ---------------------------
(***************************************************************************)
(* Theorems about Sharing, for any number of runs, secrets and shares.     *)
(***************************************************************************)
EXTENDS Sharing, TLAPS

(* The tokens that exist or existed, and what is true of them: they come   *)
(* from a run that was started, and none of those a run is past is missing.*)
Kept == (Range(dir) \cup custody \cup lost) \cap Tokens
Token(p, i) == [split |-> p, index |-> i]

StartedInv ==
  \A p \in Runs : next[p] > 0 => m[p] \in 2..n[p] /\ next[p] <= n[p]
TokensInv == \A t \in Kept : next[t.split] > 0
WrittenInv ==
  \A p \in Runs :
    /\ Writing(p) => \A i \in 1..n[p] : i < next[p] => Token(p, i) \in Kept
    /\ out[p] = "ok" => \A i \in 1..n[p] : Token(p, i) \in Kept

SInv == TypeOK /\ StartedInv /\ TokensInv /\ WrittenInv

-----------------------------------------------------------------------------
LEMMA TokenType ==
  ASSUME NEW p \in Runs, NEW i \in 1..MaxN
  PROVE  /\ Token(p, i) \in Tokens /\ Token(p, i).split = p /\ Token(p, i).index = i
         /\ Token(p, i) # NoFile /\ Token(p, i) # Torn
  <1>1. Token(p, i) \in Tokens /\ Token(p, i).split = p /\ Token(p, i).index = i
    BY DEF Tokens, Token
  <1> QED BY <1>1, FilesAssumption

(* Putting a file where there was none adds it and takes nothing away.     *)
LEMMA PutFile ==
  ASSUME TypeOK, NEW i \in 1..MaxN, NEW f, dir[i] = NoFile,
         dir' = [dir EXCEPT ![i] = f], UNCHANGED <<custody, lost>>
  PROVE  Kept' = Kept \cup ({f} \cap Tokens)
  <1>1. NoFile \notin Tokens
    BY FilesAssumption
  <1>2. DOMAIN dir = 1..MaxN /\ DOMAIN dir' = 1..MaxN
    BY DEF TypeOK
  <1>3. \A j \in 1..MaxN : dir'[j] = IF j = i THEN f ELSE dir[j]
    BY DEF TypeOK
  <1>4. Range(dir') \cap Tokens = (Range(dir) \cap Tokens) \cup ({f} \cap Tokens)
    BY <1>1, <1>2, <1>3 DEF Range
  <1> QED BY <1>4 DEF Kept

(* Handing a file out or throwing it away takes no token out of sight.     *)
LEMMA MoveFile ==
  ASSUME TypeOK, NEW i \in 1..MaxN, dir' = [dir EXCEPT ![i] = NoFile],
         \/ custody' = custody \cup {dir[i]} /\ lost' = lost
         \/ lost' = lost \cup ({dir[i]} \ {Torn}) /\ custody' = custody
  PROVE  Kept' = Kept
  <1>1. NoFile \notin Tokens /\ Torn \notin Tokens
    BY FilesAssumption
  <1>2. DOMAIN dir = 1..MaxN /\ DOMAIN dir' = 1..MaxN
    BY DEF TypeOK
  <1>3. \A j \in 1..MaxN : dir'[j] = IF j = i THEN NoFile ELSE dir[j]
    BY DEF TypeOK
  <1>4. (Range(dir') \cup {dir[i]}) \cap Tokens = Range(dir) \cap Tokens
    BY <1>1, <1>2, <1>3 DEF Range
  <1> QED BY <1>1, <1>4 DEF Kept

-----------------------------------------------------------------------------
(* Steps that leave the tokens and the run's progress as they are, or let  *)
(* a run fail.                                                             *)
LEMMA InitInv == Init => SInv
  <1> SUFFICES ASSUME Init PROVE SInv
    OBVIOUS
  <1>1. Range(dir) = {NoFile} \/ Range(dir) = {}
    BY DEF Init, Range
  <1>2. Kept = {}
    BY <1>1, FilesAssumption DEF Init, Kept
  <1>3. TypeOK
    BY <1>2, SharesAssumption DEF Init, TypeOK, Kept
  <1> QED BY <1>2, <1>3 DEF Init, SInv, StartedInv, TokensInv, WrittenInv, Writing

LEMMA FailInv ==
  ASSUME SInv, NEW p \in Runs, NEW how \in {"refused", "failed"}, EndRun(p, how),
         UNCHANGED asked, Kept' = Kept,
         dir' \in [1..MaxN -> Tokens \cup {NoFile, Torn}],
         custody' = custody, lost' = lost
  PROVE  SInv'
  <1>1. next' = next /\ out' = [out EXCEPT ![p] = how] /\ secret' = secret /\ m' = m /\ n' = n
    BY DEF EndRun, asked
  <1>2. out' \in [Runs -> {"none", "ok", "refused", "failed"}]
    BY <1>1 DEF SInv, TypeOK
  <1>3. \A t \in Kept' : t.index <= n'[t.split]
    BY <1>1 DEF SInv, TypeOK, Kept
  <1>4. TypeOK'
    BY <1>1, <1>2, <1>3 DEF SInv, TypeOK, Kept
  <1>5. StartedInv' /\ TokensInv'
    BY <1>1 DEF SInv, StartedInv, TokensInv
  <1>6. ASSUME NEW q \in Runs
        PROVE  /\ Writing(q)' => Writing(q)
               /\ out'[q] = "ok" => out[q] = "ok"
    BY <1>1 DEF SInv, TypeOK, Writing
  <1>7. WrittenInv'
    BY <1>1, <1>6 DEF SInv, WrittenInv
  <1> QED BY <1>4, <1>5, <1>7 DEF SInv

LEMMA SplitInv ==
  ASSUME SInv, NEW p \in Runs, SplitIntoTokens(p)
  PROVE  SInv'
  <1>1. Kept' = Kept /\ custody' = custody /\ lost' = lost /\ dir' = dir
        /\ secret' = secret /\ m' = m /\ n' = n
    BY DEF SplitIntoTokens, Kept, asked
  <1>2. CASE EndRun(p, "refused")
    BY <1>1, <1>2, FailInv DEF SplitIntoTokens, SInv, TypeOK
  <1>3. CASE n[p] >= 2 /\ m[p] \in 1..n[p] /\ m[p] >= 2 /\ next' = [next EXCEPT ![p] = 1] /\ out' = out
    <2>1. /\ n[p] \in 0..MaxN /\ m[p] \in 0..MaxN /\ next \in [Runs -> 0..MaxN]
          /\ MaxN \in Nat /\ 1 \in 0..MaxN
      BY SharesAssumption DEF SInv, TypeOK
    <2>2. next' \in [Runs -> 0..MaxN]
      BY <1>3, <2>1
    <2>3. TypeOK'
      BY <1>1, <1>3, <2>2 DEF SInv, TypeOK
    <2>4. m[p] \in 2..n[p] /\ 1 <= n[p]
      BY <1>3, <2>1
    <2>5. \A q \in Runs : next'[q] = IF q = p THEN 1 ELSE next[q]
      BY <1>3, <2>1
    <2>6. StartedInv'
      BY <1>1, <2>4, <2>5 DEF SInv, StartedInv
    <2>7. TokensInv'
      BY <1>1, <2>5 DEF SInv, TokensInv, Kept, Tokens
    <2>8. \A q \in Runs : next'[q] = next[q] \/ next'[q] = 1
      BY <2>5
    <2>9. \A q \in Runs : q # p => (Writing(q)' <=> Writing(q))
      BY <1>3, <2>5 DEF Writing
    <2>10. \A i \in 1..n[p] : ~(i < next'[p])
      BY <2>1, <2>5
    <2>11. WrittenInv'
      BY <1>1, <1>3, <2>5, <2>9, <2>10 DEF SInv, WrittenInv
    <2> QED BY <2>3, <2>6, <2>7, <2>11 DEF SInv
  <1> QED BY <1>2, <1>3 DEF SplitIntoTokens

LEMMA WrittenStep ==
  ASSUME SInv, NEW p \in Runs, WriteShare(p), dir[next[p]] = NoFile
  PROVE  SInv'
  <1> DEFINE k == next[p]
  <1>1. /\ k \in 1..MaxN /\ n[p] \in 0..MaxN /\ MaxN \in Nat /\ k <= n[p] /\ Writing(p)
        /\ m[p] \in 2..n[p]
    BY SharesAssumption DEF SInv, TypeOK, WriteShare, Writing, StartedInv
  <1>2. Written(p) /\ secret' = secret /\ m' = m /\ n' = n /\ custody' = custody /\ lost' = lost
    BY DEF WriteShare, asked
  <1>3. dir' = [dir EXCEPT ![k] = Token(p, k)]
    BY <1>2 DEF Written, Token
  <1>4. Token(p, k) \in Tokens /\ Token(p, k).split = p /\ Token(p, k).index = k
    BY <1>1, TokenType
  <1>5. Kept' = Kept \cup {Token(p, k)}
    BY <1>1, <1>2, <1>3, <1>4, PutFile DEF WriteShare, SInv
  <1>6. dir' \in [1..MaxN -> Tokens \cup {NoFile, Torn}]
    BY <1>1, <1>3, <1>4 DEF SInv, TypeOK
  <1>7. \A t \in Kept' : t.index <= n[t.split]
    BY <1>1, <1>4, <1>5 DEF SInv, TypeOK, Kept
  <1>8. \A q \in Runs \ {p} : next'[q] = next[q] /\ out'[q] = out[q]
    BY <1>2 DEF Written, EndRun, SInv, TypeOK
  <1>9. CASE k = n[p]
    <2>1. next' = next /\ out' = [out EXCEPT ![p] = "ok"]
      BY <1>2, <1>9 DEF Written, EndRun
    <2>2. out'[p] = "ok" /\ out' \in [Runs -> {"none", "ok", "refused", "failed"}]
      BY <2>1 DEF SInv, TypeOK
    <2>3. TypeOK'
      BY <1>2, <1>6, <1>7, <2>1, <2>2 DEF SInv, TypeOK, Kept
    <2>4. StartedInv' /\ TokensInv'
      BY <1>1, <1>2, <1>4, <1>5, <2>1 DEF SInv, StartedInv, TokensInv
    <2>5. \A i \in 1..n[p] : Token(p, i) \in Kept'
      <3>1. \A i \in 1..n[p] : i < k \/ i = k
        BY <1>1, <1>9
      <3> QED BY <1>1, <1>5, <3>1 DEF SInv, WrittenInv
    <2>6. WrittenInv'
      BY <1>2, <1>5, <1>8, <2>2, <2>5 DEF SInv, WrittenInv, Writing
    <2> QED BY <2>3, <2>4, <2>6 DEF SInv
  <1>10. CASE k # n[p]
    <2>1. next' = [next EXCEPT ![p] = k + 1] /\ out' = out
      BY <1>2, <1>10 DEF Written
    <2>2. k + 1 \in 0..MaxN /\ k + 1 <= n[p] /\ k + 1 > 0
      BY <1>1, <1>10
    <2>3. next'[p] = k + 1 /\ next' \in [Runs -> 0..MaxN]
      BY <2>1, <2>2 DEF SInv, TypeOK
    <2>4. TypeOK'
      BY <1>2, <1>6, <1>7, <2>1, <2>3 DEF SInv, TypeOK, Kept
    <2>5. StartedInv'
      BY <1>1, <1>2, <1>8, <2>2, <2>3 DEF SInv, StartedInv
    <2>6. TokensInv'
      BY <1>4, <1>5, <1>8, <2>2, <2>3 DEF SInv, TokensInv, Kept, Tokens
    <2>7. \A i \in 1..n[p] : i < k + 1 => Token(p, i) \in Kept'
      <3>1. \A i \in 1..n[p] : i < k + 1 => i < k \/ i = k
        BY <1>1
      <3> QED BY <1>1, <1>5, <3>1 DEF SInv, WrittenInv
    <2>8. out[p] = "none"
      BY <1>1 DEF Writing
    <2>9. WrittenInv'
      BY <1>2, <1>5, <1>8, <2>1, <2>3, <2>7, <2>8 DEF SInv, WrittenInv, Writing
    <2> QED BY <2>4, <2>5, <2>6, <2>9 DEF SInv
  <1> QED BY <1>9, <1>10

LEMMA WriteFailsInv ==
  ASSUME SInv, NEW p \in Runs, WriteFails(p)
  PROVE  SInv'
  <1>1. next[p] \in 1..MaxN
    BY SharesAssumption DEF SInv, TypeOK, WriteFails, Writing
  <1>2. EndRun(p, "failed") /\ UNCHANGED asked /\ custody' = custody /\ lost' = lost
    BY DEF WriteFails
  <1>3. CASE dir' = dir
    BY <1>2, <1>3, FailInv DEF SInv, TypeOK, Kept
  <1>4. CASE dir[next[p]] = NoFile /\ dir' = [dir EXCEPT ![next[p]] = Torn]
    <2>1. Kept' = Kept \cup ({Torn} \cap Tokens)
      BY <1>1, <1>2, <1>4, PutFile DEF SInv
    <2>2. Kept' = Kept
      BY <2>1, FilesAssumption
    <2>3. dir' \in [1..MaxN -> Tokens \cup {NoFile, Torn}]
      BY <1>4 DEF SInv, TypeOK
    <2> QED BY <1>2, <2>2, <2>3, FailInv
  <1> QED BY <1>3, <1>4 DEF WriteFails

LEMMA MoveInv ==
  ASSUME SInv, NEW i \in 1..MaxN, HandOut(i) \/ ThrowAway(i)
  PROVE  SInv'
  <1>1. Kept' = Kept
    BY MoveFile DEF HandOut, ThrowAway, SInv
  <1>2. secret' = secret /\ m' = m /\ n' = n /\ next' = next /\ out' = out
    BY DEF HandOut, ThrowAway, asked
  <1>3. dir[i] \in Tokens \cup {Torn} /\ dir' \in [1..MaxN -> Tokens \cup {NoFile, Torn}]
    BY DEF HandOut, ThrowAway, SInv, TypeOK
  <1>4. custody' \subseteq Tokens \cup {Torn} /\ lost' \subseteq Tokens
    BY <1>3 DEF HandOut, ThrowAway, SInv, TypeOK
  <1>5. \A t \in Kept' : t.index <= n'[t.split]
    BY <1>1, <1>2 DEF SInv, TypeOK, Kept
  <1>6. TypeOK'
    BY <1>2, <1>3, <1>4, <1>5 DEF SInv, TypeOK, Kept
  <1> QED BY <1>1, <1>2, <1>6 DEF SInv, StartedInv, TokensInv, WrittenInv, Writing

LEMMA Invariance == Spec => []SInv
  <1>1. ASSUME SInv, [Next]_vars PROVE SInv'
    <2>1. ASSUME NEW p \in Runs, SplitIntoTokens(p) PROVE SInv'
      BY <1>1, <2>1, SplitInv
    <2>2. ASSUME NEW p \in Runs, WriteShare(p) PROVE SInv'
      <3>1. CASE dir[next[p]] = NoFile
        BY <1>1, <2>2, <3>1, WrittenStep
      <3>2. CASE dir[next[p]] # NoFile
        <4>1. EndRun(p, "failed") /\ dir' = dir /\ UNCHANGED asked /\ custody' = custody /\ lost' = lost
          BY <2>2, <3>2 DEF WriteShare
        <4> QED BY <1>1, <4>1, FailInv DEF SInv, TypeOK, Kept
      <3> QED BY <3>1, <3>2
    <2>3. ASSUME NEW p \in Runs, WriteFails(p) PROVE SInv'
      BY <1>1, <2>3, WriteFailsInv
    <2>4. ASSUME NEW i \in 1..MaxN, HandOut(i) \/ ThrowAway(i) PROVE SInv'
      BY <1>1, <2>4, MoveInv
    <2>5. CASE UNCHANGED vars
      BY <1>1, <2>5 DEF vars, SInv, TypeOK, Kept, StartedInv, TokensInv, WrittenInv, Writing
    <2> QED BY <1>1, <2>1, <2>2, <2>3, <2>4, <2>5 DEF Next
  <1> QED BY InitInv, <1>1, PTL DEF Spec

-----------------------------------------------------------------------------
(* Every variable keeps its type, and no file claims an index its run does *)
(* not have.                                                               *)
THEOREM TypeCorrect == Spec => []TypeOK
  <1>1. SInv => TypeOK
    BY DEF SInv
  <1> QED BY Invariance, <1>1, PTL

(* A run that reported success has made every share, whatever other runs   *)
(* did in the same directory.                                              *)
THEOREM SuccessIsComplete == Spec => []SuccessMeansAllShares
  <1>1. SInv => SuccessMeansAllShares
    <2> SUFFICES ASSUME SInv, NEW p \in Runs, out[p] = "ok", NEW i \in 1..n[p]
                 PROVE  Token(p, i) \in Files \cup lost
      BY DEF SuccessMeansAllShares, Token
    <2>1. Token(p, i) \in Kept
      BY DEF SInv, WrittenInv
    <2>2. NoFile \notin Tokens
      BY FilesAssumption
    <2> QED BY <2>1, <2>2 DEF Kept, Files
  <1> QED BY Invariance, <1>1, PTL

LEMMA PickType ==
  ASSUME NEW S, NEW ts \in Picks(S)
  PROVE  /\ ts \in Seq(S)
         /\ ts # <<>> => 1 \in DOMAIN ts
  <1>1. PICK k \in 0..MaxN : ts \in [1..k -> S]
    BY DEF Picks
  <1>2. k \in Nat /\ DOMAIN ts = 1..k
    BY <1>1, SharesAssumption
  <1>3. ts \in Seq(S)
    BY <1>1, <1>2
  <1>4. ts # <<>> => 1 \in DOMAIN ts
    BY <1>3
  <1> QED BY <1>3, <1>4

LEMMA FilesType ==
  ASSUME TypeOK
  PROVE  Files \subseteq Tokens \cup {Torn} /\ Files \ {Torn} \subseteq Kept
  <1>1. Range(dir) \subseteq Tokens \cup {NoFile, Torn}
    BY DEF TypeOK, Range
  <1> QED BY <1>1 DEF Files, TypeOK, Kept

(* Any threshold of the files of one split gives its secret.               *)
THEOREM ThresholdReconstructs == Spec => []EnoughFilesReconstruct
  <1>1. SInv => EnoughFilesReconstruct
    <2> SUFFICES ASSUME SInv, NEW ts \in Picks(Files \ {Torn}), NEW p \in Runs,
                        Len(ts) >= m[p], ts # <<>>, IsInjective(ts),
                        \A i \in DOMAIN ts : ts[i].split = p
                 PROVE  Reconstruct(ts) = secret[p]
      BY DEF EnoughFilesReconstruct
    <2>1. ts \in Seq(Files \ {Torn}) /\ 1 \in DOMAIN ts
      BY PickType
    <2>2. \A i \in DOMAIN ts : ts[i] \in Kept /\ ts[i] # Torn
      BY <2>1, FilesType DEF SInv
    <2>3. ts[1].split = p /\ next[p] > 0
      BY <2>1, <2>2 DEF SInv, TokensInv
    <2>4. m[p] \in Nat /\ m[p] >= 2 /\ Len(ts) \in Nat
      BY <2>1, <2>3, SharesAssumption DEF SInv, StartedInv, TypeOK
    <2>5. ~(Len(ts) < 2) /\ ~(Len(ts) < m[p])
      BY <2>4
    <2> QED BY <2>2, <2>3, <2>5 DEF Reconstruct, Combine
  <1> QED BY Invariance, <1>1, PTL

(* What reconstruct returns is the secret of the split that every share it *)
(* was given belongs to.                                                   *)
THEOREM WrongSetsAreRejected == Spec => []NeverSilentlyWrong
  <1>1. SInv => NeverSilentlyWrong
    <2> SUFFICES ASSUME SInv PROVE NeverSilentlyWrong
      OBVIOUS
    <2>1. ASSUME NEW ts \in Picks(Files), Reconstruct(ts) # Err
          PROVE  \E p \in Runs : Reconstruct(ts) = secret[p] /\ \A i \in DOMAIN ts : ts[i].split = p
      <3>1. ts \in Seq(Files) /\ (ts # <<>> => 1 \in DOMAIN ts)
        BY PickType
      <3>2. ts # <<>> /\ \A i \in DOMAIN ts : ts[i] # Torn /\ ts[i].split = ts[1].split
        BY <2>1 DEF Reconstruct
      <3>3. ts[1] \in Tokens
        BY <3>1, <3>2, FilesType DEF SInv
      <3>4. ts[1].split \in Runs
        BY <3>3 DEF Tokens
      <3>5. Reconstruct(ts) = secret[ts[1].split]
        BY <2>1 DEF Reconstruct, Combine
      <3> QED BY <3>2, <3>4, <3>5
    <2>2. \A ts \in Picks(Files \ {Torn}), c \in Runs : Combine(ts, c) \in {Err, secret[c]}
      BY DEF Combine
    <2> QED BY <2>1, <2>2 DEF NeverSilentlyWrong
  <1> QED BY Invariance, <1>1, PTL

=============================================================================
