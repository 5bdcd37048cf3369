---------------------------- MODULE PairingProofs ----------------------------
(***************************************************************************)
(* Theorems about Pairing, for any number of receiver runs, senders and    *)
(* strays.                                                                 *)
(***************************************************************************)
EXTENDS Pairing, FiniteSetTheorems, NaturalsInduction, WellFoundedInduction, TLAPS

(* A run that may accept has an attempt left; between bundles it serves    *)
(* nobody; from the confirmation on it holds a bundle sealed for it and,   *)
(* if the bundle came by a connection, that connection; it has stored what *)
(* it is about to answer OK for.                                           *)
ReceiverInv(r) ==
  /\ rpc[r] \in {"off", "listen"} => tries[r] < MaxAttempts
  /\ rpc[r] \in {"off", "listen", "import", "paste"} => peer[r] = Nobody
  /\ rpc[r] \in {"confirm", "store", "ack"} => from[r] \in Senders /\ peer[r] \in {from[r], Nobody}
  /\ from[r] # Nobody => to[from[r]] = r
  /\ rpc[r] = "ack" => rout[r] \in {"ok", "err"}
  /\ rpc[r] = "ack" /\ rout[r] = "ok" => <<r, from[r]>> \in stored

(* A sender that has not begun has been given no code.                     *)
SenderInv(s) == spc[s] = "off" => to[s] = Nobody

Inv ==
  /\ TypeOK
  /\ \A r \in Receivers : ReceiverInv(r)
  /\ \A s \in Senders : SenderInv(s)
  /\ AckIsTruthful

LEMMA SentinelsDiffer ==
  /\ \A s \in Senders : s # Nobody /\ s \in Peers /\ s \notin Strays
  /\ \A p \in Peers : p # Nobody
  /\ \A r \in Receivers : r # Nobody
  BY PeersAssumption DEF Peers

LEMMA BacklogType ==
  ASSUME TypeOK, NEW r \in Receivers
  PROVE  /\ <<>> \in Seq(Peers)
         /\ backlog[r] # <<>> => Head(backlog[r]) \in Peers /\ Tail(backlog[r]) \in Seq(Peers)
         /\ \A p \in Peers : Append(backlog[r], p) \in Seq(Peers)
  BY DEF TypeOK

LEMMA EnqueueType ==
  ASSUME TypeOK, NEW r \in Receivers, NEW p \in Peers, Enqueue(p, r)
  PROVE  /\ backlog' \in [Receivers -> Seq(Peers)]
         /\ line' \in [Peers -> {"none", "open", "sent", "closed"}]
  <1>1. Append(backlog[r], p) \in Seq(Peers)
    BY BacklogType
  <1>2. backlog' = [backlog EXCEPT ![r] = Append(backlog[r], p)]
    BY DEF Enqueue
  <1>3. backlog' \in [Receivers -> Seq(Peers)]
    BY <1>1, <1>2 DEF TypeOK
  <1>4. line' \in [Peers -> {"none", "open", "sent", "closed"}]
    BY DEF Enqueue, TypeOK
  <1> QED BY <1>3, <1>4

(* Whoever is told something other than OK.                                *)
LEMMA ResetKeepsTruth ==
  ASSUME TypeOK, AckIsTruthful, NEW r \in Receivers, NEW p, NEW a \in {"err", "eof", "reset"},
         Reset(r, p, a), UNCHANGED <<to, stored>>
  PROVE  /\ AckIsTruthful'
         /\ ack' \in [Peers -> {"none", "ok", "err", "eof", "reset"}]
         /\ backlog' \in [Receivers -> Seq(Peers)]
  <1>1. \A s \in Senders : ack'[s] = "ok" => ack[s] = "ok"
    BY SentinelsDiffer DEF Reset
  <1>2. ack' \in [Peers -> {"none", "ok", "err", "eof", "reset"}]
    BY DEF Reset, TypeOK
  <1>3. backlog' \in [Receivers -> Seq(Peers)]
    BY BacklogType DEF Reset, TypeOK
  <1> QED BY <1>1, <1>2, <1>3 DEF AckIsTruthful

LEMMA TellKeepsTruth ==
  ASSUME TypeOK, AckIsTruthful, NEW p, NEW a \in {"err", "eof", "reset"},
         Tell(p, a), UNCHANGED <<to, stored>>
  PROVE  /\ AckIsTruthful'
         /\ ack' \in [Peers -> {"none", "ok", "err", "eof", "reset"}]
  <1>1. \A s \in Senders : ack'[s] = "ok" => ack[s] = "ok"
    BY SentinelsDiffer DEF Tell, TypeOK
  <1>2. ack' \in [Peers -> {"none", "ok", "err", "eof", "reset"}]
    BY DEF Tell, TypeOK
  <1> QED BY <1>1, <1>2 DEF AckIsTruthful

(* A connection that gives no bundle.                                      *)
LEMMA NextPeerStep ==
  ASSUME Inv, NEW r \in Receivers, NEW a \in {"err", "eof", "reset"}, rpc[r] = "read",
         NextPeer(r, a), UNCHANGED <<way, tries, from, sender, line, carried, stored>>
  PROVE  Inv'
  <1>1. CASE tries[r] < MaxAttempts
    <2>1. AckIsTruthful' /\ ack' \in [Peers -> {"none", "ok", "err", "eof", "reset"}]
      BY <1>1, TellKeepsTruth DEF NextPeer, Inv, sender
    <2>2. TypeOK'
      <3>1. rpc' = [rpc EXCEPT ![r] = "listen"] /\ peer' = [peer EXCEPT ![r] = Nobody]
            /\ UNCHANGED <<rout, backlog>>
        BY <1>1 DEF NextPeer
      <3> QED BY <2>1, <3>1 DEF Inv, TypeOK, sender
    <2>3. \A q \in Receivers : ReceiverInv(q)'
      BY <1>1 DEF NextPeer, Inv, ReceiverInv, TypeOK, sender
    <2> QED BY <2>1, <2>2, <2>3 DEF Inv, SenderInv, sender
  <1>2. CASE ~(tries[r] < MaxAttempts)
    <2>1. AckIsTruthful' /\ ack' \in [Peers -> {"none", "ok", "err", "eof", "reset"}]
          /\ backlog' \in [Receivers -> Seq(Peers)]
      BY <1>2, ResetKeepsTruth DEF NextPeer, Inv, sender
    <2>2. TypeOK'
      BY <1>2, <2>1, ZenonT(40) DEF NextPeer, End, Inv, TypeOK, sender
    <2>3. \A q \in Receivers : ReceiverInv(q)'
      BY <1>2 DEF NextPeer, End, Inv, ReceiverInv, TypeOK, sender
    <2> QED BY <2>1, <2>2, <2>3 DEF Inv, SenderInv, sender
  <1> QED BY <1>1, <1>2

(* A run that ends without an OK.                                          *)
LEMMA EndStep ==
  ASSUME Inv, NEW r \in Receivers, NEW how \in {"err", "killed"}, NEW a \in {"err", "eof", "reset"},
         End(r, how), Reset(r, peer[r], a),
         UNCHANGED <<way, tries, from, sender, line, carried, stored>>
  PROVE  Inv'
  <1>1. AckIsTruthful' /\ ack' \in [Peers -> {"none", "ok", "err", "eof", "reset"}]
        /\ backlog' \in [Receivers -> Seq(Peers)]
    BY ResetKeepsTruth DEF Inv, sender
  <1>2. TypeOK'
    BY <1>1 DEF End, Inv, TypeOK, sender
  <1>3. \A q \in Receivers : ReceiverInv(q)'
    BY DEF End, Inv, ReceiverInv, TypeOK, sender
  <1> QED BY <1>1, <1>2, <1>3 DEF Inv, SenderInv, sender

(* A run without a connection that ends.                                   *)
LEMMA EndsUnheard ==
  ASSUME Inv, NEW r \in Receivers, End(r, "err"),
         UNCHANGED <<way, tries, from, sender, wire, carried, stored>>
  PROVE  Inv'
  <1>1. TypeOK'
    BY DEF End, Inv, TypeOK, sender, wire
  <1>2. \A q \in Receivers : ReceiverInv(q)'
    BY DEF End, Inv, ReceiverInv, TypeOK, sender, wire
  <1> QED BY <1>1, <1>2 DEF Inv, SenderInv, AckIsTruthful, sender, wire

LEMMA ReceiveStep ==
  ASSUME Inv, NEW r \in Receivers, NEW w \in {"lan", "file", "paste"}, Receive(r, w)
  PROVE  Inv'
  <1>1. rpc[r] = "off" /\ \E l \in {"listen", "import", "paste"} : rpc' = [rpc EXCEPT ![r] = l]
    <2>1. CASE w = "lan"
      BY <2>1 DEF Receive
    <2>2. CASE w = "file"
      BY <2>2 DEF Receive
    <2>3. CASE w = "paste"
      BY <2>3 DEF Receive
    <2> QED BY <2>1, <2>2, <2>3
  <1>2. TypeOK'
    BY <1>1 DEF Receive, Inv, TypeOK, sender, wire
  <1>3. \A q \in Receivers : ReceiverInv(q)'
    BY <1>1 DEF Receive, Inv, ReceiverInv, TypeOK, sender, wire
  <1> QED BY <1>2, <1>3 DEF Receive, Inv, SenderInv, AckIsTruthful, sender, wire

LEMMA ImportStep ==
  ASSUME Inv, NEW r \in Receivers, NEW s \in Senders, Import(r, s)
  PROVE  Inv'
  <1>1. CASE Opens(r, s)
    <2>1. /\ rpc' = [rpc EXCEPT ![r] = "confirm"] /\ from' = [from EXCEPT ![r] = s]
          /\ UNCHANGED <<rout, peer, way, tries, sender, wire, carried, stored>>
          /\ to[s] = r /\ peer[r] = Nobody
      BY <1>1 DEF Import, Opens, Inv, ReceiverInv
    <2>2. TypeOK'
      BY <2>1 DEF Inv, TypeOK, sender, wire
    <2>3. \A q \in Receivers : ReceiverInv(q)'
      BY <2>1 DEF Inv, ReceiverInv, TypeOK, sender, wire
    <2> QED BY <2>1, <2>2, <2>3 DEF Inv, SenderInv, AckIsTruthful, sender, wire
  <1>2. CASE ~Opens(r, s)
    BY <1>2, EndsUnheard DEF Import
  <1> QED BY <1>1, <1>2

LEMMA ImportNothingStep ==
  ASSUME Inv, NEW r \in Receivers, ImportNothing(r)
  PROVE  Inv'
  BY EndsUnheard DEF ImportNothing

LEMMA AcceptStep ==
  ASSUME Inv, NEW r \in Receivers, Accept(r)
  PROVE  Inv'
  <1>1. tries[r] + 1 \in 0..MaxAttempts
    <2>1. tries[r] \in 0..MaxAttempts /\ tries[r] < MaxAttempts
      BY DEF Accept, Inv, ReceiverInv, TypeOK
    <2> QED BY <2>1, AttemptsAssumption
  <1>2. TypeOK'
    BY <1>1, BacklogType DEF Accept, Inv, TypeOK, sender
  <1>3. \A q \in Receivers : ReceiverInv(q)'
    BY DEF Accept, Inv, ReceiverInv, TypeOK, sender
  <1> QED BY <1>2, <1>3 DEF Accept, Inv, SenderInv, AckIsTruthful, sender

LEMMA ReadBundleStep ==
  ASSUME Inv, NEW r \in Receivers, ReadBundle(r)
  PROVE  Inv'
  <1>1. TypeOK'
    BY DEF ReadBundle, Inv, TypeOK, sender, wire
  <1>2. \A q \in Receivers : ReceiverInv(q)'
    BY DEF ReadBundle, Opens, Inv, ReceiverInv, TypeOK, sender, wire
  <1> QED BY <1>1, <1>2 DEF ReadBundle, Inv, SenderInv, AckIsTruthful, sender, wire

LEMMA StoreStep ==
  ASSUME Inv, NEW r \in Receivers, Confirm(r) \/ StoreReceived(r)
  PROVE  Inv'
  <1>1. from[r] \in Senders
    BY DEF Inv, ReceiverInv, Confirm, StoreReceived
  <1>2. TypeOK'
    <2>1. CASE Confirm(r)
      BY <2>1 DEF Confirm, Inv, TypeOK, sender, wire
    <2>2. CASE StoreReceived(r)
      <3>1. stored' \subseteq Receivers \X Senders
        BY <1>1, <2>2 DEF StoreReceived, Inv, TypeOK
      <3>2. rout' \in [Receivers -> {"none", "ok", "err", "gaveup", "killed"}]
        BY <2>2, ZenonT(40) DEF StoreReceived, Inv, TypeOK
      <3> QED BY <2>2, <3>1, <3>2 DEF StoreReceived, Inv, TypeOK, sender, wire
    <2> QED BY <2>1, <2>2
  <1>3. \A q \in Receivers : ReceiverInv(q)'
    BY DEF Confirm, StoreReceived, Inv, ReceiverInv, TypeOK, sender, wire
  <1>4. to' = to /\ spc' = spc /\ ack' = ack /\ stored \subseteq stored'
    BY DEF Confirm, StoreReceived, sender, wire
  <1> QED BY <1>2, <1>3, <1>4 DEF Inv, SenderInv, AckIsTruthful

(* The one step that tells OK: to the connection the bundle came by, whose *)
(* sender was given the code of this run, after the secret was stored.     *)
LEMMA AckStep ==
  ASSUME Inv, NEW r \in Receivers, Ack(r)
  PROVE  Inv'
  <1>1. CASE rout[r] = "err"
    BY <1>1, EndStep DEF Ack
  <1>2. CASE rout[r] = "ok"
    <2>1. from[r] \in Senders /\ to[from[r]] = r /\ <<r, from[r]>> \in stored
          /\ peer[r] \in {from[r], Nobody}
      BY <1>2, SentinelsDiffer DEF Ack, Inv, ReceiverInv
    <2>2. \A s \in Senders : ack'[s] = "ok" => ack[s] = "ok" \/ s = from[r]
      BY <2>1, SentinelsDiffer DEF Ack, Reset
    <2>3. AckIsTruthful'
      BY <2>1, <2>2 DEF Ack, AckIsTruthful, Inv, sender
    <2>4. ack' \in [Peers -> {"none", "ok", "err", "eof", "reset"}]
          /\ backlog' \in [Receivers -> Seq(Peers)]
      BY <1>2, BacklogType DEF Ack, Reset, Inv, TypeOK
    <2>5. TypeOK'
      BY <1>2, <2>4 DEF Ack, End, Inv, TypeOK, sender
    <2>6. \A q \in Receivers : ReceiverInv(q)'
      BY DEF Ack, End, Inv, ReceiverInv, TypeOK, sender
    <2> QED BY <2>3, <2>5, <2>6 DEF Ack, Inv, SenderInv, sender
  <1> QED BY <1>1, <1>2 DEF Ack, Inv, ReceiverInv

LEMMA SealForStep ==
  ASSUME Inv, NEW s \in Senders, NEW r \in Receivers, SealFor(s, r)
  PROVE  Inv'
  <1>1. TypeOK'
    BY ZenonT(40) DEF SealFor, Inv, TypeOK, receiver, wire
  <1>2. to[s] = Nobody /\ to' = [to EXCEPT ![s] = r]
    BY DEF SealFor, Inv, SenderInv
  <1>3. \A q \in Receivers : from[q] # s
    BY <1>2, SentinelsDiffer DEF Inv, ReceiverInv
  <1>4. \A q \in Receivers : ReceiverInv(q)'
    BY <1>2, <1>3 DEF SealFor, Inv, ReceiverInv, TypeOK, receiver, wire
  <1>5. ack[s] # "ok"
    BY <1>2, SentinelsDiffer DEF Inv, AckIsTruthful, TypeOK
  <1>6. AckIsTruthful'
    BY <1>2, <1>5 DEF SealFor, Inv, AckIsTruthful, TypeOK, wire
  <1>7. \A t \in Senders : SenderInv(t)'
    BY DEF SealFor, Inv, SenderInv, TypeOK
  <1> QED BY <1>1, <1>4, <1>6, <1>7 DEF Inv

LEMMA SenderStep ==
  ASSUME Inv, NEW s \in Senders,
         Connect(s) \/ Write(s) \/ ReadAck(s) \/ AckTimeout(s) \/ HangUp(s)
  PROVE  Inv'
  <1>1. backlog' \in [Receivers -> Seq(Peers)]
        /\ line' \in [Peers -> {"none", "open", "sent", "closed"}]
    <2>1. s \in Peers
      BY SentinelsDiffer
    <2>2. CASE UNCHANGED <<backlog, line>>
      BY <2>2 DEF Inv, TypeOK
    <2>3. CASE \E r \in Receivers : Enqueue(s, r)
      BY <2>1, <2>3, EnqueueType DEF Inv
    <2>4. CASE Write(s)
      BY <2>1, <2>4 DEF Write, Inv, TypeOK
    <2>5. CASE HangUp(s)
      BY <2>1, <2>5 DEF HangUp, Inv, TypeOK
    <2> QED BY <2>2, <2>3, <2>4, <2>5 DEF Connect, AtAddress, ReadAck, AckTimeout, wire
  <1>3. spc' \in [Senders -> {"off", "connect", "write", "wait", "ended"}]
        /\ sout' \in [Senders -> {"none", "ok", "err"}]
    BY ZenonT(40) DEF Connect, Write, ReadAck, AckTimeout, HangUp, Finish, Inv, TypeOK
  <1>4. UNCHANGED <<receiver, to, long, ack, carried, stored>>
    BY DEF Connect, Write, ReadAck, AckTimeout, HangUp, wire
  <1>5. \A t \in Senders : spc'[t] = "off" => spc[t] = "off"
    BY DEF Connect, Write, ReadAck, AckTimeout, HangUp, Finish, Inv, TypeOK
  <1> QED BY <1>1, <1>3, <1>4, <1>5 DEF Inv, TypeOK, ReceiverInv, SenderInv, AckIsTruthful, receiver

LEMMA StrayStep ==
  ASSUME Inv, NEW p \in Strays,
         StraySends(p) \/ \E r \in Receivers : StrayConnects(p, r)
  PROVE  Inv'
  <1>1. p \in Peers
    BY DEF Peers
  <1>2. backlog' \in [Receivers -> Seq(Peers)]
        /\ line' \in [Peers -> {"none", "open", "sent", "closed"}]
    <2>1. CASE StraySends(p)
      BY <1>1, <2>1 DEF StraySends, Inv, TypeOK
    <2>2. ASSUME NEW r \in Receivers, StrayConnects(p, r)
          PROVE  Enqueue(p, r)
      BY <2>2 DEF StrayConnects
    <2> QED BY <1>1, <2>1, <2>2, EnqueueType DEF Inv
  <1>3. UNCHANGED <<receiver, sender, ack, carried, stored>>
    BY DEF StraySends, StrayConnects
  <1> QED
    BY <1>2, <1>3 DEF Inv, TypeOK, ReceiverInv, SenderInv, AckIsTruthful, receiver, sender

LEMMA InvStep ==
  ASSUME Inv, [Next]_vars
  PROVE  Inv'
  <1>1. ASSUME NEW r \in Receivers, ReceiverStep(r) PROVE Inv'
    BY <1>1, AcceptStep, ReadBundleStep, NextPeerStep, StoreStep, AckStep
    DEF ReceiverStep, ReadJunk, ReadTooLong, ReadDeadline
  <1>2. ASSUME NEW r \in Receivers, Confirm(r) \/ ImportNothing(r) PROVE Inv'
    BY <1>2, StoreStep, ImportNothingStep
  <1>3. ASSUME NEW r \in Receivers, Reject(r) \/ Kill(r) PROVE Inv'
    BY <1>3, EndStep DEF Reject, Kill
  <1>4. CASE UNCHANGED vars
    BY <1>4 DEF vars, receiver, sender, wire, Inv, TypeOK, ReceiverInv, SenderInv, AckIsTruthful
  <1> QED
    BY <1>1, <1>2, <1>3, <1>4, ReceiveStep, ImportStep, SealForStep, SenderStep, StrayStep DEF Next

LEMMA InvHolds == Spec => []Inv
  <1>1. Init => Inv
    <2> SUFFICES ASSUME Init PROVE Inv
      OBVIOUS
    <2>1. TypeOK
      BY AttemptsAssumption, <<>> \in Seq(Peers) DEF Init, TypeOK
    <2> QED BY <2>1, AttemptsAssumption DEF Init, Inv, ReceiverInv, SenderInv, AckIsTruthful, Peers
  <1>2. Inv /\ [Next]_vars => Inv'
    BY InvStep
  <1> QED BY <1>1, <1>2, PTL DEF Spec

(* Every variable keeps its type; above all, no run of pair-receive ever   *)
(* makes more attempts than MAX_ACCEPT_ATTEMPTS.                           *)
THEOREM TypeCorrect == Spec => []TypeOK
  <1>1. Inv => TypeOK
    BY DEF Inv
  <1> QED BY <1>1, InvHolds, PTL

(* A sender is told OK only after its own secret was stored by the run it  *)
(* sealed it for, whoever else connects to whichever run, and whenever any *)
(* of them is interrupted.                                                 *)
THEOREM AcknowledgedIsStored == Spec => []AckIsTruthful
  <1>1. Inv => AckIsTruthful
    BY DEF Inv
  <1> QED BY <1>1, InvHolds, PTL

-----------------------------------------------------------------------------
(* Liveness.  tlapm cannot look into ENABLED, so that the guards let the   *)
(* programs run, ProgramsMove, is a hypothesis (and an invariant TLC       *)
(* checks).                                                                *)

(* Every step takes a sender on, or leaves it and what it was told.        *)
LEMMA SenderGoesOn ==
  ASSUME Inv, [Next]_vars, NEW s \in Senders
  PROVE  /\ spc[s] = "connect" => spc'[s] \in {"connect", "write", "ended"}
         /\ spc[s] = "write" => spc'[s] \in {"write", "wait", "ended"}
         /\ spc[s] = "wait" => spc'[s] \in {"wait", "ended"}
         /\ ~(ack[s] = "none") => ~(ack'[s] = "none")
  <1> DEFINE Goal == /\ spc[s] = "connect" => spc'[s] \in {"connect", "write", "ended"}
                     /\ spc[s] = "write" => spc'[s] \in {"write", "wait", "ended"}
                     /\ spc[s] = "wait" => spc'[s] \in {"wait", "ended"}
                     /\ ~(ack[s] = "none") => ~(ack'[s] = "none")
  <1>0. s \in Peers
    BY SentinelsDiffer
  <1>1. ASSUME NEW r \in Receivers,
               \E p, a : a # "none" /\ (Reset(r, p, a) \/ Tell(p, a)), UNCHANGED sender
        PROVE  Goal
    BY <1>0, <1>1 DEF Reset, Tell, sender, Inv, TypeOK
  <1>2. CASE UNCHANGED <<spc, ack>>
    BY <1>2
  <1>3. ASSUME NEW r \in Receivers, ReceiverStep(r) \/ Reject(r) \/ Kill(r) PROVE Goal
    <2>1. Ack(r) => rout[r] # "none"
      BY DEF Ack, Inv, ReceiverInv
    <2>2. (\E a : a # "none" /\ NextPeer(r, a)) => \E p, a : a # "none" /\ (Reset(r, p, a) \/ Tell(p, a))
      BY Zenon DEF NextPeer
    <2>3. CASE ReadJunk(r) \/ ReadTooLong(r) \/ ReadDeadline(r)
      BY <1>1, <2>2, <2>3 DEF ReadJunk, ReadTooLong, ReadDeadline
    <2>4. CASE Ack(r) \/ Reject(r) \/ Kill(r)
      BY <1>1, <2>1, <2>4 DEF Ack, Reject, Kill
    <2>5. CASE Accept(r) \/ ReadBundle(r) \/ StoreReceived(r)
      BY <1>2, <2>5 DEF Accept, ReadBundle, StoreReceived, sender, wire
    <2> QED BY <1>3, <2>3, <2>4, <2>5 DEF ReceiverStep
  <1>4. ASSUME NEW r \in Receivers,
               \/ \E w \in {"lan", "file", "paste"} : Receive(r, w)
               \/ \E t \in Senders : Import(r, t)
               \/ ImportNothing(r) \/ Confirm(r)
        PROVE  Goal
    BY <1>2, <1>4 DEF Receive, Import, ImportNothing, Confirm, sender, wire
  <1>5. ASSUME NEW t \in Senders,
               \/ \E r \in Receivers : SealFor(t, r)
               \/ Connect(t) \/ Write(t) \/ ReadAck(t) \/ AckTimeout(t) \/ HangUp(t)
        PROVE  Goal
    <2>1. ack' = ack
      BY <1>5 DEF SealFor, Connect, Write, ReadAck, AckTimeout, HangUp, wire
    <2>2. CASE t = s
      BY <1>5, <2>1, <2>2 DEF SealFor, Connect, Write, ReadAck, AckTimeout, HangUp, Finish, Inv, TypeOK
    <2>3. CASE t # s
      <3>1. spc'[s] = spc[s]
        BY <1>5, <2>3 DEF SealFor, Connect, Write, ReadAck, AckTimeout, HangUp, Finish, Inv, TypeOK
      <3> QED BY <2>1, <3>1
    <2> QED BY <2>2, <2>3
  <1>6. ASSUME NEW p \in Strays, StraySends(p) \/ \E r \in Receivers : StrayConnects(p, r)
        PROVE  Goal
    BY <1>2, <1>6 DEF StraySends, StrayConnects, sender
  <1>7. CASE UNCHANGED vars
    BY <1>2, <1>7 DEF vars, sender, wire
  <1> QED BY <1>3, <1>4, <1>5, <1>6, <1>7 DEF Next

LEMMA SenderActs ==
  ASSUME Inv, NEW s \in Senders
  PROVE  /\ Connect(s) => spc'[s] \in {"write", "ended"}
         /\ Write(s) => spc'[s] = "wait"
         /\ ReadAck(s) => spc'[s] = "ended"
         /\ AckTimeout(s) => spc'[s] = "ended"
  BY DEF Connect, Write, ReadAck, AckTimeout, Finish, Inv, TypeOK

(* pair-send returns, whatever the other side does, also when the user     *)
(* there never answers: every stage of it ends, the last by the timeout.   *)
THEOREM SendersReturn == FairSpec /\ []ProgramsMove => SenderReturns
  <1>1. ASSUME NEW s \in Senders
        PROVE  FairSpec /\ []ProgramsMove => (spc[s] = "connect" ~> spc[s] = "ended")
    <2>1. FairSpec => Spec /\ SenderRuns(s)
      BY DEF FairSpec
    <2>2. Inv /\ spc[s] = "connect" /\ [Next]_vars
            => (spc[s] = "connect")' \/ (spc[s] = "write")' \/ (spc[s] = "ended")'
      BY SenderGoesOn
    <2>3. Inv /\ <<Connect(s)>>_vars => (spc[s] = "write")' \/ (spc[s] = "ended")'
      BY SenderActs
    <2>4. Inv /\ spc[s] = "write" /\ [Next]_vars
            => (spc[s] = "write")' \/ (spc[s] = "wait")' \/ (spc[s] = "ended")'
      BY SenderGoesOn
    <2>5. Inv /\ <<Write(s)>>_vars => (spc[s] = "wait")'
      BY SenderActs
    <2>6. Inv /\ spc[s] = "wait" /\ [Next]_vars => (spc[s] = "wait")' \/ (spc[s] = "ended")'
      BY SenderGoesOn
    <2>7. Inv /\ ~(ack[s] = "none") /\ [Next]_vars => ~(ack[s] = "none")'
      BY SenderGoesOn
    <2>8. Inv /\ <<ReadAck(s) \/ AckTimeout(s)>>_vars => (spc[s] = "ended")'
      BY SenderActs
    <2>9. ProgramsMove
            => /\ spc[s] = "connect" => ENABLED <<Connect(s)>>_vars
               /\ spc[s] = "write" => ENABLED <<Write(s)>>_vars
               /\ spc[s] = "wait" /\ ack[s] = "none" => ENABLED <<AckTimeout(s)>>_vars
               /\ spc[s] = "wait" /\ ~(ack[s] = "none") => ENABLED <<ReadAck(s)>>_vars
      BY DEF ProgramsMove, SenderMoves
    <2> DEFINE Run == Spec /\ []Inv /\ []ProgramsMove
    <2>10. Run /\ WF_vars(ReadAck(s)) => (spc[s] = "wait" /\ ~(ack[s] = "none") ~> spc[s] = "ended")
      BY <2>6, <2>7, <2>8, <2>9, PTL DEF Spec
    <2>11. Run /\ WF_vars(AckTimeout(s))
             => (spc[s] = "wait" ~> spc[s] = "ended" \/ (spc[s] = "wait" /\ ~(ack[s] = "none")))
      BY <2>6, <2>8, <2>9, PTL DEF Spec
    <2>12. Run /\ WF_vars(Write(s)) => (spc[s] = "write" ~> spc[s] = "wait" \/ spc[s] = "ended")
      BY <2>4, <2>5, <2>9, PTL DEF Spec
    <2>13. Run /\ WF_vars(Connect(s)) => (spc[s] = "connect" ~> spc[s] = "write" \/ spc[s] = "ended")
      BY <2>2, <2>3, <2>9, PTL DEF Spec
    <2> QED BY <2>1, <2>10, <2>11, <2>12, <2>13, InvHolds, PTL DEF SenderRuns
  <1> QED BY <1>1 DEF SenderReturns

-----------------------------------------------------------------------------
(* A bundle that waits at the port is opened, if there are no more peers   *)
(* than attempts: every attempt is used up by another peer.                *)
Connected == {p \in Peers : line[p] # "none"}

QueueInv(r) ==
  /\ tries[r] + Len(backlog[r]) <= Cardinality(Connected)
  /\ rpc[r] \in {"import", "paste"} => way[r] # "lan"

LineInv(s) == spc[s] \in {"off", "connect"} => line[s] = "none"

CountInv ==
  /\ \A r \in Receivers : QueueInv(r)
  /\ \A s \in Senders : LineInv(s)

FewPeers == IsFiniteSet(Peers) /\ Cardinality(Peers) <= MaxAttempts

LEMMA ConnectedCount ==
  ASSUME IsFiniteSet(Peers)
  PROVE  /\ IsFiniteSet(Connected) /\ Cardinality(Connected) \in Nat
         /\ Cardinality(Connected) <= Cardinality(Peers)
  <1>1. Connected \in SUBSET Peers
    BY DEF Connected
  <1> QED BY <1>1, FS_Subset, FS_CardinalityType

LEMMA OneMore ==
  ASSUME IsFiniteSet(Peers), TypeOK, NEW p \in Peers, line[p] = "none",
         line' = [line EXCEPT ![p] = "open"]
  PROVE  Cardinality(Connected') = Cardinality(Connected) + 1
  <1>1. Connected' = Connected \cup {p} /\ p \notin Connected
    BY DEF Connected, TypeOK
  <1> QED BY <1>1, ConnectedCount, FS_AddElement

LEMMA BacklogLength ==
  ASSUME TypeOK, NEW r \in Receivers
  PROVE  /\ Len(backlog[r]) \in Nat /\ tries[r] \in Nat /\ Len(<<>>) = 0
         /\ backlog[r] # <<>> => Len(Tail(backlog[r])) = Len(backlog[r]) - 1
         /\ \A p \in Peers : Len(Append(backlog[r], p)) = Len(backlog[r]) + 1
  <1>1. backlog[r] \in Seq(Peers) /\ tries[r] \in 0..MaxAttempts /\ MaxAttempts \in Nat
    BY AttemptsAssumption DEF TypeOK
  <1>2. tries[r] \in Nat
    BY <1>1
  <1> QED BY <1>1, <1>2

(* Steps that let nobody connect, and leave a queue as it is or empty.     *)
LEMMA CountKept ==
  ASSUME IsFiniteSet(Peers), Inv, CountInv,
         \A s \in Senders : spc'[s] \in {"off", "connect"} => spc[s] \in {"off", "connect"},
         \A p \in Peers : (line'[p] = "none") <=> (line[p] = "none"),
         UNCHANGED <<way, tries>>,
         \A r \in Receivers : backlog'[r] \in {backlog[r], <<>>},
         \A r \in Receivers : rpc'[r] \in {"import", "paste"} => rpc[r] \in {"import", "paste"}
  PROVE  CountInv'
  <1>1. Connected' = Connected
    BY DEF Connected
  <1>2. ASSUME NEW s \in Senders PROVE LineInv(s)'
    BY SentinelsDiffer DEF CountInv, LineInv
  <1>3. ASSUME NEW r \in Receivers PROVE QueueInv(r)'
    BY <1>1, BacklogLength, ConnectedCount DEF CountInv, QueueInv, Inv
  <1> QED BY <1>2, <1>3 DEF CountInv

LEMMA CountReset ==
  ASSUME TypeOK, NEW q \in Receivers, NEW p, NEW a, Reset(q, p, a)
  PROVE  \A r \in Receivers : backlog'[r] \in {backlog[r], <<>>}
  BY DEF Reset, TypeOK

LEMMA CountEnqueue ==
  ASSUME IsFiniteSet(Peers), Inv, CountInv, NEW p \in Peers, NEW q \in Receivers,
         line[p] = "none", Enqueue(p, q), UNCHANGED receiver,
         \A s \in Senders : s # p => spc'[s] = spc[s],
         p \in Senders => spc'[p] \notin {"off", "connect"}
  PROVE  CountInv'
  <1>1. Cardinality(Connected') = Cardinality(Connected) + 1
    BY OneMore DEF Enqueue, Inv
  <1>2. ASSUME NEW s \in Senders PROVE LineInv(s)'
    BY SentinelsDiffer DEF CountInv, LineInv, Enqueue, Inv, TypeOK
  <1>3. ASSUME NEW r \in Receivers PROVE QueueInv(r)'
    <2>1. backlog'[r] = IF r = q THEN Append(backlog[r], p) ELSE backlog[r]
      BY DEF Enqueue, Inv, TypeOK
    <2>2. rpc' = rpc /\ way' = way /\ tries' = tries
      BY DEF receiver
    <2> QED BY <1>1, <2>1, <2>2, BacklogLength, ConnectedCount DEF CountInv, QueueInv, Inv
  <1> QED BY <1>2, <1>3 DEF CountInv

LEMMA CountReceive ==
  ASSUME IsFiniteSet(Peers), Inv, CountInv, NEW q \in Receivers,
         NEW w \in {"lan", "file", "paste"}, Receive(q, w)
  PROVE  CountInv'
  <1>1. \A s \in Senders : LineInv(s)'
    BY DEF Receive, sender, wire, CountInv, LineInv
  <1>2. Connected' = Connected
    BY DEF Receive, wire, Connected
  <1>3. ASSUME NEW r \in Receivers PROVE QueueInv(r)'
    <2>1. rpc'[r] \in {"import", "paste"} => way'[r] # "lan"
      <3>1. CASE r # q
        BY <3>1 DEF Receive, CountInv, QueueInv, Inv, TypeOK
      <3>2. CASE r = q
        <4>1. way'[r] = w /\ rpc'[r] = [lan |-> "listen", file |-> "import", paste |-> "paste"][w]
          BY <3>2 DEF Receive, Inv, TypeOK
        <4> QED BY <4>1
      <3> QED BY <3>1, <3>2
    <2>2. tries'[r] + Len(backlog'[r]) <= Cardinality(Connected')
      BY <1>2 DEF Receive, wire, CountInv, QueueInv
    <2> QED BY <2>1, <2>2 DEF QueueInv
  <1> QED BY <1>1, <1>3 DEF CountInv

LEMMA CountAccept ==
  ASSUME IsFiniteSet(Peers), Inv, CountInv, NEW q \in Receivers, Accept(q)
  PROVE  CountInv'
  <1>1. \A s \in Senders : LineInv(s)'
    BY DEF Accept, sender, CountInv, LineInv
  <1>2. Connected' = Connected
    BY DEF Accept, Connected
  <1>3. ASSUME NEW r \in Receivers PROVE QueueInv(r)'
    <2>1. rpc'[r] \in {"import", "paste"} => way'[r] # "lan"
      BY DEF Accept, CountInv, QueueInv, Inv, TypeOK
    <2>2. CASE r # q
      <3>1. backlog'[r] = backlog[r] /\ tries'[r] = tries[r]
        BY <2>2 DEF Accept, Inv, TypeOK
      <3> QED BY <1>2, <2>1, <3>1 DEF CountInv, QueueInv
    <2>3. CASE r = q
      <3>1. backlog'[r] = Tail(backlog[r]) /\ tries'[r] = tries[r] + 1 /\ backlog[r] # <<>>
        BY <2>3 DEF Accept, Inv, TypeOK
      <3> QED BY <1>2, <2>1, <3>1, BacklogLength, ConnectedCount DEF CountInv, QueueInv, Inv
    <2> QED BY <2>2, <2>3
  <1> QED BY <1>1, <1>3 DEF CountInv

LEMMA CountRead ==
  ASSUME IsFiniteSet(Peers), Inv, CountInv, NEW q \in Receivers,
         ReadJunk(q) \/ ReadTooLong(q) \/ ReadDeadline(q)
  PROVE  CountInv'
  <1>1. PICK a : NextPeer(q, a)
    BY DEF ReadJunk, ReadTooLong, ReadDeadline
  <1>2. UNCHANGED <<way, tries, sender, line>>
    BY DEF ReadJunk, ReadTooLong, ReadDeadline
  <1>3. \A r \in Receivers : backlog'[r] \in {backlog[r], <<>>}
    BY <1>1, CountReset DEF NextPeer, Inv
  <1>4. \A r \in Receivers : rpc'[r] \in {"import", "paste"} => rpc[r] \in {"import", "paste"}
    BY <1>1 DEF NextPeer, End, Inv, TypeOK
  <1> QED BY <1>2, <1>3, <1>4, CountKept DEF sender

LEMMA CountServe ==
  ASSUME IsFiniteSet(Peers), Inv, CountInv, NEW q \in Receivers,
         \/ ReadBundle(q) \/ StoreReceived(q) \/ Ack(q) \/ ImportNothing(q) \/ Confirm(q)
         \/ Reject(q) \/ Kill(q) \/ \E s \in Senders : Import(q, s)
  PROVE  CountInv'
  <1>1. UNCHANGED <<way, tries, sender, line>>
    BY DEF ReadBundle, StoreReceived, Ack, ImportNothing, Confirm, Reject, Kill, Import, wire
  <1>2. \A r \in Receivers : backlog'[r] \in {backlog[r], <<>>}
    BY CountReset
    DEF ReadBundle, StoreReceived, Ack, ImportNothing, Confirm, Reject, Kill, Import, wire, Inv
  <1>3. \A r \in Receivers : rpc'[r] \in {"import", "paste"} => rpc[r] \in {"import", "paste"}
    BY DEF ReadBundle, StoreReceived, Ack, ImportNothing, Confirm, Reject, Kill, Import, End, Inv,
           TypeOK
  <1> QED BY <1>1, <1>2, <1>3, CountKept DEF sender

LEMMA CountSend ==
  ASSUME IsFiniteSet(Peers), Inv, CountInv, NEW s \in Senders,
         \/ \E r \in Receivers : SealFor(s, r)
         \/ Connect(s) \/ Write(s) \/ ReadAck(s) \/ AckTimeout(s) \/ HangUp(s)
  PROVE  CountInv'
  <1>1. s \in Peers
    BY SentinelsDiffer
  <1>2. CASE \E r \in AtAddress(s) : Enqueue(s, r) /\ spc' = [spc EXCEPT ![s] = "write"] /\ Connect(s)
    <2>1. line[s] = "none"
      BY <1>2 DEF Connect, CountInv, LineInv
    <2> QED BY <1>1, <1>2, <2>1, CountEnqueue DEF Connect, AtAddress, Inv, TypeOK
  <1>3. CASE \/ \E r \in Receivers : SealFor(s, r)
             \/ Connect(s) /\ line' = line /\ backlog' = backlog /\ Finish(s, "err")
             \/ Write(s) \/ ReadAck(s) \/ AckTimeout(s) \/ HangUp(s)
    <2>1. UNCHANGED <<receiver, backlog>>
      BY <1>3 DEF SealFor, Connect, Write, ReadAck, AckTimeout, HangUp, wire
    <2>2. \A t \in Senders : spc'[t] \in {"off", "connect"} => spc[t] \in {"off", "connect"}
      BY <1>3 DEF SealFor, Connect, Write, ReadAck, AckTimeout, HangUp, Finish, Inv, TypeOK
    <2>3. CASE Write(s)
      <3>1. \A t \in Senders : LineInv(t)'
        BY <2>3, SentinelsDiffer DEF Write, CountInv, LineInv, Inv, TypeOK
      <3>2. Connected' = Connected \cup {s}
        BY <1>1, <2>3 DEF Write, Connected, Inv, TypeOK
      <3>3. Cardinality(Connected) <= Cardinality(Connected') /\ Cardinality(Connected') \in Nat
        <4>1. IsFiniteSet(Connected) /\ Cardinality(Connected) \in Nat
          BY ConnectedCount
        <4>2. Cardinality(Connected \cup {s})
                = IF s \in Connected THEN Cardinality(Connected) ELSE Cardinality(Connected) + 1
          BY <4>1, FS_AddElement
        <4> QED BY <3>2, <4>1, <4>2
      <3>4. ASSUME NEW r \in Receivers PROVE QueueInv(r)'
        BY <2>1, <3>3, BacklogLength, ConnectedCount DEF CountInv, QueueInv, receiver, Inv
      <3> QED BY <3>1, <3>4 DEF CountInv
    <2>4. CASE ~Write(s)
      <3>1. \A p \in Peers : (line'[p] = "none") <=> (line[p] = "none")
        BY <1>1, <1>3, <2>4 DEF SealFor, Connect, ReadAck, AckTimeout, HangUp, wire, Inv, TypeOK
      <3> QED BY <2>1, <2>2, <3>1, CountKept DEF receiver
    <2> QED BY <2>3, <2>4
  <1> QED BY <1>2, <1>3 DEF Connect

LEMMA CountStray ==
  ASSUME IsFiniteSet(Peers), Inv, CountInv, NEW p \in Strays,
         StraySends(p) \/ \E r \in Receivers : StrayConnects(p, r)
  PROVE  CountInv'
  <1>1. p \in Peers /\ p \notin Senders
    BY PeersAssumption DEF Peers
  <1>2. CASE \E r \in Receivers : StrayConnects(p, r)
    BY <1>1, <1>2, CountEnqueue DEF StrayConnects, sender
  <1>3. CASE StraySends(p)
    <2>1. \A q \in Peers : (line'[q] = "none") <=> (line[q] = "none")
      BY <1>1, <1>3 DEF StraySends, Inv, TypeOK
    <2> QED BY <1>3, <2>1, CountKept DEF StraySends, receiver, sender
  <1> QED BY <1>2, <1>3

LEMMA CountHolds ==
  ASSUME IsFiniteSet(Peers)
  PROVE  Spec => []CountInv
  <1>1. Init => CountInv
    <2> SUFFICES ASSUME Init PROVE CountInv
      OBVIOUS
    <2>1. \A r \in Receivers : tries[r] = 0 /\ Len(backlog[r]) = 0
      BY DEF Init
    <2> QED BY <2>1, ConnectedCount, SentinelsDiffer DEF Init, CountInv, QueueInv, LineInv
  <1>2. Inv /\ CountInv /\ [Next]_vars => CountInv'
    <2> SUFFICES ASSUME Inv, CountInv, [Next]_vars PROVE CountInv'
      OBVIOUS
    <2>1. CASE UNCHANGED vars
      BY <2>1, CountKept DEF vars, receiver, sender, wire
    <2> QED BY <2>1, CountReceive, CountAccept, CountRead, CountServe, CountSend, CountStray
        DEF Next, ReceiverStep
  <1> QED BY <1>1, <1>2, InvHolds, PTL DEF Spec

(* How many steps of the run r are left until it reads the bundle of s.    *)
Comes(r, s) ==
  /\ line[s] = "sent" /\ to[s] = r /\ ~long[s]
  /\ way[r] = "lan" /\ from[r] = Nobody

InLine(r, s, i, n) ==
  /\ backlog[r][i] = s
  /\ \/ rpc[r] = "listen" /\ 2 * i <= n
     \/ rpc[r] = "read" /\ 2 * i + 1 <= n

Near(r, s, n) ==
  /\ Comes(r, s)
  /\ \/ rpc[r] = "read" /\ peer[r] = s
     \/ \E i \in 1..Len(backlog[r]) : InLine(r, s, i, n)

Settled(r) == ~(from[r] = Nobody) \/ rout[r] = "killed"

LEMMA NearIsServed ==
  ASSUME Inv, NEW r \in Receivers, NEW s \in Senders, NEW n \in Nat, Near(r, s, n)
  PROVE  /\ rpc[r] \in {"listen", "read"}
         /\ rpc[r] = "listen" => backlog[r] # <<>>
         /\ n = 0 => rpc[r] = "read" /\ peer[r] = s
  BY DEF Near, InLine, Inv, TypeOK

(* Its place holds as long as what is written below is left alone.         *)
LEMMA NearKept ==
  ASSUME Inv, NEW r \in Receivers, NEW s \in Senders, NEW n \in Nat, Near(r, s, n),
         line'[s] = line[s], to'[s] = to[s], long'[s] = long[s], UNCHANGED way,
         rpc'[r] = rpc[r], peer'[r] = peer[r], from'[r] = from[r],
         backlog'[r] = backlog[r] \/ \E p \in Peers : backlog'[r] = Append(backlog[r], p)
  PROVE  Near(r, s, n)'
  <1>1. Comes(r, s)'
    BY DEF Near, Comes
  <1>2. CASE rpc[r] = "read" /\ peer[r] = s
    BY <1>1, <1>2 DEF Near
  <1>3. ASSUME NEW i \in 1..Len(backlog[r]), InLine(r, s, i, n)
        PROVE  Near(r, s, n)'
    <2>1. backlog[r] \in Seq(Peers)
      BY DEF Inv, TypeOK
    <2>2. i \in 1..Len(backlog'[r]) /\ backlog'[r][i] = backlog[r][i]
      BY <2>1
    <2> QED BY <1>1, <1>3, <2>2 DEF Near, InLine
  <1> QED BY <1>2, <1>3 DEF Near

LEMMA AcceptBringsNearer ==
  ASSUME Inv, NEW r \in Receivers, NEW s \in Senders, NEW n \in Nat, Near(r, s, n), Accept(r)
  PROVE  n # 0 /\ Near(r, s, n - 1)' /\ Near(r, s, n)'
  <1>1. backlog[r] \in Seq(Peers) /\ backlog[r] # <<>> /\ rpc[r] = "listen"
    BY DEF Accept, Inv, TypeOK
  <1>2. PICK i \in 1..Len(backlog[r]) : backlog[r][i] = s /\ 2 * i <= n
    BY <1>1 DEF Near, InLine
  <1>3. Comes(r, s)'
    BY DEF Near, Comes, Accept, sender
  <1>4. rpc'[r] = "read" /\ peer'[r] = Head(backlog[r]) /\ backlog'[r] = Tail(backlog[r])
    BY DEF Accept, Inv, TypeOK
  <1>5. n \in Nat \ {0}
    BY <1>2
  <1>6. CASE i = 1
    BY <1>1, <1>2, <1>3, <1>4, <1>5, <1>6 DEF Near
  <1>7. CASE i # 1
    <2>1. i - 1 \in 1..Len(Tail(backlog[r])) /\ Tail(backlog[r])[i - 1] = s
      BY <1>1, <1>2, <1>7
    <2>2. 2 * (i - 1) + 1 <= n - 1 /\ 2 * (i - 1) + 1 <= n
      BY <1>2
    <2> QED BY <1>3, <1>4, <1>5, <2>1, <2>2 DEF Near, InLine
  <1> QED BY <1>6, <1>7

(* Every peer before it has used one attempt, so that there is another.    *)
LEMMA ReadBringsNearer ==
  ASSUME FewPeers, Inv, CountInv, NEW r \in Receivers, NEW s \in Senders, NEW n \in Nat,
         Near(r, s, n), rpc[r] = "read", ~(peer[r] = s), NEW a, NextPeer(r, a),
         UNCHANGED <<way, from, sender, line>>
  PROVE  n # 0 /\ Near(r, s, n - 1)' /\ Near(r, s, n)'
  <1>1. PICK i \in 1..Len(backlog[r]) : backlog[r][i] = s /\ 2 * i + 1 <= n
    BY DEF Near, InLine
  <1>2. tries[r] < MaxAttempts
    <2>1. Len(backlog[r]) \in Nat /\ tries[r] \in Nat
      BY BacklogLength DEF Inv
    <2>2. tries[r] + Len(backlog[r]) <= Cardinality(Connected)
      BY DEF CountInv, QueueInv
    <2>3. Cardinality(Connected) <= Cardinality(Peers) /\ Cardinality(Connected) \in Nat
          /\ Cardinality(Peers) \in Nat
      BY ConnectedCount, FS_CardinalityType DEF FewPeers
    <2> QED BY <1>1, <2>1, <2>2, <2>3, AttemptsAssumption DEF FewPeers
  <1>3. Comes(r, s)'
    BY DEF Near, Comes, sender
  <1>4. rpc'[r] = "listen" /\ backlog'[r] = backlog[r]
    BY <1>2 DEF NextPeer, Inv, TypeOK
  <1>5. n \in Nat \ {0} /\ 2 * i <= n - 1 /\ 2 * i <= n
    BY <1>1
  <1> QED BY <1>1, <1>3, <1>4, <1>5 DEF Near, InLine

LEMMA ReceiverStepBringsNearer ==
  ASSUME FewPeers, Inv, CountInv, NEW r \in Receivers, NEW s \in Senders, NEW n \in Nat,
         Near(r, s, n), ReceiverStep(r)
  PROVE  Settled(r)' \/ (n # 0 /\ Near(r, s, n - 1)' /\ Near(r, s, n)')
  <1>1. CASE Accept(r)
    BY <1>1, AcceptBringsNearer
  <1>2. CASE ReadBundle(r)
    BY <1>2, SentinelsDiffer DEF ReadBundle, Settled, Inv, TypeOK
  <1>3. CASE ReadJunk(r) \/ ReadTooLong(r) \/ ReadDeadline(r)
    <2>1. ~(peer[r] = s)
      BY <1>3, SentinelsDiffer DEF Near, Comes, ReadJunk, ReadTooLong, ReadDeadline, Opens
    <2> QED BY <1>3, <2>1, ReadBringsNearer DEF ReadJunk, ReadTooLong, ReadDeadline
  <1>4. ~StoreReceived(r) /\ ~Ack(r)
    BY NearIsServed DEF StoreReceived, Ack
  <1> QED BY <1>1, <1>2, <1>3, <1>4 DEF ReceiverStep

(* Steps of the others leave its place.                                    *)
LEMMA OtherRunsKeep ==
  ASSUME Inv, NEW r \in Receivers, NEW s \in Senders, NEW n \in Nat, Near(r, s, n),
         NEW q \in Receivers, q # r,
         \/ ReceiverStep(q) \/ ImportNothing(q) \/ Confirm(q) \/ Reject(q) \/ Kill(q)
         \/ \E w \in {"lan", "file", "paste"} : Receive(q, w)
         \/ \E t \in Senders : Import(q, t)
  PROVE  Near(r, s, n)'
  <1>1. UNCHANGED <<sender, line>> /\ way'[r] = way[r]
    BY DEF ReceiverStep, Accept, ReadBundle, ReadJunk, ReadTooLong, ReadDeadline, StoreReceived, Ack,
           ImportNothing, Confirm, Reject, Kill, Receive, Import, wire, Inv, TypeOK
  <1>2. rpc'[r] = rpc[r] /\ peer'[r] = peer[r] /\ from'[r] = from[r] /\ backlog'[r] = backlog[r]
    <2>1. CASE ReadJunk(q) \/ ReadTooLong(q) \/ ReadDeadline(q)
      <3>1. PICK a : NextPeer(q, a)
        BY <2>1 DEF ReadJunk, ReadTooLong, ReadDeadline
      <3>2. from' = from
        BY <2>1 DEF ReadJunk, ReadTooLong, ReadDeadline
      <3> QED BY <3>1, <3>2 DEF NextPeer, End, Reset, Inv, TypeOK
    <2>2. CASE Ack(q) \/ Reject(q) \/ Kill(q)
      BY <2>2 DEF Ack, Reject, Kill, End, Reset, Inv, TypeOK
    <2>3. CASE Accept(q) \/ ReadBundle(q) \/ StoreReceived(q)
      BY <2>3 DEF Accept, ReadBundle, StoreReceived, wire, Inv, TypeOK
    <2>4. CASE \/ ImportNothing(q) \/ Confirm(q)
               \/ \E w \in {"lan", "file", "paste"} : Receive(q, w)
               \/ \E t \in Senders : Import(q, t)
      BY <2>4 DEF ImportNothing, Confirm, Receive, Import, End, wire, Inv, TypeOK
    <2> QED BY <2>1, <2>2, <2>3, <2>4 DEF ReceiverStep
  <1> QED BY <1>1, <1>2 DEF Near, Comes, InLine, sender

LEMMA OwnRunKeeps ==
  ASSUME Inv, CountInv, NEW r \in Receivers, NEW s \in Senders, NEW n \in Nat, Near(r, s, n),
         \/ ImportNothing(r) \/ Confirm(r) \/ Reject(r) \/ Kill(r)
         \/ \E w \in {"lan", "file", "paste"} : Receive(r, w)
         \/ \E t \in Senders : Import(r, t)
  PROVE  Settled(r)'
  <1>1. rpc[r] \in {"listen", "read"}
    BY NearIsServed
  <1>2. Kill(r)
    BY <1>1 DEF ImportNothing, Confirm, Reject, Receive, Import
  <1> QED BY <1>2 DEF Kill, End, Settled, Inv, TypeOK

LEMMA EnqueueKeeps ==
  ASSUME TypeOK, NEW r \in Receivers, NEW s \in Peers,
         NEW p \in Peers, NEW q \in Receivers, Enqueue(p, q)
  PROVE  /\ p # s => line'[s] = line[s]
         /\ backlog'[r] = backlog[r] \/ backlog'[r] = Append(backlog[r], p)
  BY DEF Enqueue, TypeOK

LEMMA SendersKeep ==
  ASSUME Inv, CountInv, NEW r \in Receivers, NEW s \in Senders, NEW n \in Nat, Near(r, s, n),
         NEW t \in Senders,
         \/ \E q \in Receivers : SealFor(t, q)
         \/ Connect(t) \/ Write(t) \/ ReadAck(t) \/ AckTimeout(t) \/ HangUp(t)
  PROVE  Near(r, s, n)'
  <1>1. UNCHANGED receiver
    BY DEF SealFor, Connect, Write, ReadAck, AckTimeout, HangUp
  <1>2. line[s] = "sent" /\ spc[s] \notin {"off", "connect"} /\ s \in Peers /\ t \in Peers
    BY SentinelsDiffer DEF Near, Comes, CountInv, LineInv
  <1>3. line'[s] = line[s] /\ to'[s] = to[s] /\ long'[s] = long[s]
    <2>1. CASE \E q \in Receivers : SealFor(t, q)
      BY <1>2, <2>1 DEF SealFor, wire, Inv, TypeOK
    <2>2. CASE Connect(t)
      BY <1>2, <2>2 DEF Connect, Enqueue, Inv, TypeOK
    <2>3. CASE Write(t) \/ ReadAck(t) \/ AckTimeout(t) \/ HangUp(t)
      BY <1>2, <2>3 DEF Write, ReadAck, AckTimeout, HangUp, wire, Inv, TypeOK
    <2> QED BY <2>1, <2>2, <2>3
  <1>4. backlog'[r] = backlog[r] \/ \E p \in Peers : backlog'[r] = Append(backlog[r], p)
    <2>1. backlog' = backlog \/ \E q \in Receivers : Enqueue(t, q)
      BY DEF SealFor, Connect, AtAddress, Write, ReadAck, AckTimeout, HangUp, wire
    <2> QED BY <1>2, <2>1, EnqueueKeeps DEF Inv
  <1> QED BY <1>1, <1>3, <1>4, NearKept DEF receiver

LEMMA StraysKeep ==
  ASSUME Inv, NEW r \in Receivers, NEW s \in Senders, NEW n \in Nat, Near(r, s, n),
         NEW p \in Strays, StraySends(p) \/ \E q \in Receivers : StrayConnects(p, q)
  PROVE  Near(r, s, n)'
  <1>1. UNCHANGED <<receiver, sender>> /\ p \in Peers /\ p # s
    BY SentinelsDiffer DEF StraySends, StrayConnects, Peers
  <1>2. CASE StraySends(p)
    <2>1. line'[s] = line[s] /\ backlog' = backlog
      BY <1>1, <1>2 DEF StraySends, Inv, TypeOK
    <2> QED BY <1>1, <2>1, NearKept DEF receiver, sender
  <1>3. ASSUME NEW q \in Receivers, StrayConnects(p, q)
        PROVE  Near(r, s, n)'
    <2>1. s \in Peers /\ Enqueue(p, q)
      BY <1>3, SentinelsDiffer DEF StrayConnects
    <2>2. line'[s] = line[s]
      BY <1>1, <2>1, EnqueueKeeps DEF Inv
    <2>3. backlog'[r] = backlog[r] \/ \E t \in Peers : backlog'[r] = Append(backlog[r], t)
      BY <1>1, <2>1, EnqueueKeeps DEF Inv
    <2>4. /\ to'[s] = to[s] /\ long'[s] = long[s] /\ UNCHANGED way
          /\ rpc'[r] = rpc[r] /\ peer'[r] = peer[r] /\ from'[r] = from[r]
      BY <1>1 DEF receiver, sender
    <2> QED BY <2>2, <2>3, <2>4, NearKept
  <1> QED BY <1>2, <1>3

LEMMA NearStep ==
  ASSUME FewPeers, Inv, CountInv, NEW r \in Receivers, NEW s \in Senders, NEW n \in Nat,
         Near(r, s, n), [Next]_vars
  PROVE  Near(r, s, n)' \/ Settled(r)'
  <1>1. CASE UNCHANGED vars
    BY <1>1, NearKept DEF vars, receiver, sender, wire
  <1>2. ASSUME NEW q \in Receivers,
               \/ ReceiverStep(q) \/ ImportNothing(q) \/ Confirm(q) \/ Reject(q) \/ Kill(q)
               \/ \E w \in {"lan", "file", "paste"} : Receive(q, w)
               \/ \E t \in Senders : Import(q, t)
        PROVE  Near(r, s, n)' \/ Settled(r)'
    BY <1>2, OtherRunsKeep, OwnRunKeeps, ReceiverStepBringsNearer
  <1> QED BY <1>1, <1>2, SendersKeep, StraysKeep DEF Next

-----------------------------------------------------------------------------
(* Wherever in the queue it is.                                            *)
LEMMA AtThePortIsNear ==
  ASSUME Inv, CountInv, NEW r \in Receivers, NEW s \in Senders, AtThePort(r, s)
  PROVE  Settled(r) \/ \E n \in Nat : Near(r, s, n)
  <1> SUFFICES ASSUME from[r] = Nobody PROVE \E n \in Nat : Near(r, s, n)
    BY DEF Settled
  <1>1. Comes(r, s)
    BY DEF AtThePort, PortOpen, Comes
  <1>2. rpc[r] \in {"listen", "read"}
    <2>1. ~(rpc[r] \in {"confirm", "store", "ack"})
      BY SentinelsDiffer DEF Inv, ReceiverInv
    <2>2. ~(rpc[r] \in {"import", "paste", "off", "ended"})
      BY DEF AtThePort, PortOpen, CountInv, QueueInv
    <2>3. rpc[r] \in {"off", "listen", "read", "import", "paste", "confirm", "store", "ack", "ended"}
      BY DEF Inv, TypeOK
    <2> QED BY <2>1, <2>2, <2>3
  <1>3. CASE s = peer[r]
    <2>1. rpc[r] = "read"
      BY <1>2, <1>3, SentinelsDiffer DEF Inv, ReceiverInv
    <2>2. Near(r, s, 0)
      BY <1>1, <1>3, <2>1 DEF Near
    <2> QED BY <2>2
  <1>4. CASE s \in Waiting(r)
    <2>1. PICK i \in 1..Len(backlog[r]) : backlog[r][i] = s
      <3>1. backlog[r] \in Seq(Peers)
        BY DEF Inv, TypeOK
      <3> QED BY <1>4, <3>1 DEF Waiting, Range
    <2>2. i \in Nat /\ 2 * i + 1 \in Nat
      <3>1. Len(backlog[r]) \in Nat
        BY BacklogLength DEF Inv
      <3> QED BY <3>1
    <2>3. InLine(r, s, i, 2 * i + 1)
      BY <1>2, <2>1, <2>2 DEF InLine
    <2>4. Near(r, s, 2 * i + 1)
      BY <1>1, <2>1, <2>3 DEF Near
    <2> QED BY <2>2, <2>4
  <1> QED BY <1>3, <1>4 DEF AtThePort

RunGoesOn(r) == Spec /\ []CountInv /\ ReceiverRuns(r) /\ []ReceiverMoves(r) /\ []FewPeers
SettledFrom(r, s, n) == RunGoesOn(r) => [](Near(r, s, n) => <>Settled(r))

LEMMA SettledFromNone ==
  ASSUME NEW r \in Receivers, NEW s \in Senders
  PROVE  SettledFrom(r, s, 0)
  <1>1. FewPeers /\ Inv /\ CountInv /\ Near(r, s, 0) /\ [Next]_vars => Near(r, s, 0)' \/ Settled(r)'
    BY NearStep
  <1>2. FewPeers /\ Inv /\ CountInv /\ Near(r, s, 0) /\ <<ReceiverStep(r)>>_vars => Settled(r)'
    BY ReceiverStepBringsNearer
  <1>3. Inv /\ Near(r, s, 0) /\ ReceiverMoves(r) => ENABLED <<ReceiverStep(r)>>_vars
    BY NearIsServed DEF ReceiverMoves
  <1> QED BY <1>1, <1>2, <1>3, InvHolds, PTL DEF SettledFrom, RunGoesOn, ReceiverRuns, Spec

LEMMA SettledFromMore ==
  ASSUME NEW r \in Receivers, NEW s \in Senders, NEW n \in Nat
  PROVE  SettledFrom(r, s, n) => SettledFrom(r, s, n + 1)
  <1> DEFINE k == n + 1
  <1>0. k \in Nat /\ k - 1 = n
    OBVIOUS
  <1> HIDE DEF k
  <1>1. FewPeers /\ Inv /\ CountInv /\ Near(r, s, k) /\ [Next]_vars => Near(r, s, k)' \/ Settled(r)'
    BY <1>0, NearStep
  <1>2. FewPeers /\ Inv /\ CountInv /\ Near(r, s, k) /\ <<ReceiverStep(r)>>_vars
          => Near(r, s, n)' \/ Settled(r)'
    BY <1>0, ReceiverStepBringsNearer
  <1>3. Inv /\ Near(r, s, k) /\ ReceiverMoves(r) => ENABLED <<ReceiverStep(r)>>_vars
    BY <1>0, NearIsServed DEF ReceiverMoves
  <1>4. SettledFrom(r, s, n) => SettledFrom(r, s, k)
    BY <1>1, <1>2, <1>3, InvHolds, PTL DEF SettledFrom, RunGoesOn, ReceiverRuns, Spec
  <1> QED BY <1>4 DEF k

LEMMA Induction ==
  \A f : f[0] /\ (\A n \in Nat : f[n] => f[n + 1]) => \A n \in Nat : f[n]
  <1> SUFFICES ASSUME NEW f, f[0], \A n \in Nat : f[n] => f[n + 1],
                      NEW k \in Nat, ~f[k]
               PROVE  FALSE
    OBVIOUS
  <1> DEFINE R == {ss \in Nat \X Nat : ss[1] < ss[2]}
             T == {n \in Nat : ~f[n]}
  <1>1. IsWellFoundedOn(R, Nat)
    BY NatLessThanWellFounded DEF OpToRel
  <1>2. T \subseteq Nat /\ T # {}
    OBVIOUS
  <1> HIDE DEF R, T
  <1>3. PICK x \in T : \A y \in T : ~ (<<y, x>> \in R)
    BY <1>1, <1>2, WFMin
  <1> USE DEF R, T
  <1>4. x \in Nat \ {0} /\ ~f[x]
    BY <1>3
  <1>5. x - 1 \in Nat /\ (x - 1) + 1 = x
    BY <1>4
  <1>6. x - 1 \in T /\ <<x - 1, x>> \in R
    BY <1>4, <1>5
  <1> QED BY <1>3, <1>6

LEMMA SettledFromAny ==
  ASSUME NEW r \in Receivers, NEW s \in Senders
  PROVE  \A n \in Nat : SettledFrom(r, s, n)
  <1>1. \E f : \A n \in Nat : f[n] <=> SettledFrom(r, s, n)
    <2> SUFFICES ASSUME NEW P(_)
                 PROVE  \E f : /\ P(f) <=> P([n \in Nat |-> SettledFrom(r, s, n)])
                               /\ \A n \in Nat : f[n] <=> SettledFrom(r, s, n)
      OBVIOUS
    <2> QED BY SMT
  <1>2. PICK f : \A n \in Nat : f[n] <=> SettledFrom(r, s, n)
    BY <1>1
  <1>3. f[0] /\ \A n \in Nat : f[n] => f[n + 1]
    BY <1>2, SettledFromNone, SettledFromMore
  <1>4. \A n \in Nat : f[n]
    BY <1>3, Induction
  <1> QED BY <1>2, <1>4

(* "A stray connection cannot pre-empt the real sender": a bundle at the   *)
(* port is opened, or the run is interrupted or opens another, however     *)
(* many other peers there are, in whatever order they come and whether or  *)
(* not they ever send, as long as there are no more than MaxAttempts.      *)
THEOREM BundlesAreOpened ==
  ASSUME IsFiniteSet(Peers), Cardinality(Peers) <= MaxAttempts
  PROVE  FairSpec /\ []ProgramsMove => BundleIsOpened
  <1>1. ASSUME NEW r \in Receivers, NEW s \in Senders
        PROVE  FairSpec /\ []ProgramsMove
                 => (AtThePort(r, s) ~> (from[r] # Nobody \/ rout[r] = "killed"))
    <2>1. FairSpec => Spec /\ ReceiverRuns(r)
      BY DEF FairSpec
    <2>2. FewPeers
      BY DEF FewPeers
    <2>3. ProgramsMove => ReceiverMoves(r)
      BY DEF ProgramsMove
    <2>4. FairSpec /\ []ProgramsMove => RunGoesOn(r)
      BY <2>1, <2>2, <2>3, CountHolds, PTL DEF RunGoesOn
    <2>5. ASSUME NEW n \in Nat
          PROVE  RunGoesOn(r) => [](Near(r, s, n) => <>Settled(r))
      BY SettledFromAny DEF SettledFrom
    <2>6. RunGoesOn(r) => [](\A n \in Nat : Near(r, s, n) => <>Settled(r))
      BY <2>5
    <2>7. (\A n \in Nat : Near(r, s, n) => <>Settled(r))
            => ((\E n \in Nat : Near(r, s, n)) => <>Settled(r))
      OBVIOUS
    <2>8. Inv /\ CountInv /\ AtThePort(r, s) => Settled(r) \/ \E n \in Nat : Near(r, s, n)
      BY AtThePortIsNear
    <2>9. RunGoesOn(r) => (AtThePort(r, s) ~> Settled(r))
      BY <2>6, <2>7, <2>8, InvHolds, PTL DEF RunGoesOn
    <2>10. Settled(r) => from[r] # Nobody \/ rout[r] = "killed"
      BY DEF Settled
    <2> QED BY <2>4, <2>9, <2>10, PTL
  <1> QED BY <1>1 DEF BundleIsOpened

=============================================================================
