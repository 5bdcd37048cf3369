------------------------------- MODULE Pairing -------------------------------
(***************************************************************************)
(* pair-send and pair-receive (src/cli/pairing.rs): one secret moved from  *)
(* one device to another, over the LAN, in a file or by pasting.           *)
(*                                                                         *)
(* Every run of pair-receive makes a key pair of its own, and a bundle     *)
(* opens for the run it was sealed for and no other (network/transfer.rs). *)
(* A listening run accepts one connection after the other until a bundle   *)
(* opens; then it asks its user to compare the codes, stores the secret,   *)
(* answers on that connection and ends.  The sender waits for the answer.  *)
(*                                                                         *)
(* A run and the session it makes share one name, r.  Time is left out:    *)
(* a timeout may strike whenever the code waits, so that no property       *)
(* depends on how long its 10, 30 and 60 seconds are.  Abstracted: keys    *)
(* and sealing, names, the codes that are compared, and how the receiver's *)
(* agent stores (AgentService).                                            *)
(***************************************************************************)
EXTENDS Naturals, SequencesExt

CONSTANTS Receivers,   \* runs of pair-receive
          Senders,     \* runs of pair-send
          Strays,      \* other programs that connect to the port
          Nobody,
          MaxAttempts  \* MAX_ACCEPT_ATTEMPTS

Peers == Senders \cup Strays

ASSUME PeersAssumption == Senders \cap Strays = {} /\ Nobody \notin Peers \cup Receivers
ASSUME AttemptsAssumption == MaxAttempts \in Nat \ {0}

VARIABLES rpc, way,  \* of a receiver: its next step; how the bundle comes
          backlog,   \* connections it has not accepted
          tries,     \* connections it has accepted
          peer,      \* the connection it serves
          from,      \* the sender whose bundle it has opened
          rout,      \* how it ended
          spc,       \* of a sender: its next step
          to,        \* the run whose code it was given
          long,      \* its bundle is longer than MAX_LAN_READ
          sout,      \* how it ended
          line,      \* what a peer has sent, or that it has closed
          ack,       \* what its end of the connection was sent, or lost
          carried,   \* bundles in files or on paper, by sender
          stored     \* pairs of a receiver and the sender it stored from

receiver == <<rpc, way, tries, peer, from, rout>>
sender == <<spc, to, long, sout>>
wire == <<backlog, line, ack>>
vars == <<receiver, sender, wire, carried, stored>>

TypeOK ==
  /\ rpc \in [Receivers -> {"off", "listen", "read", "import", "paste", "confirm",
                            "store", "ack", "ended"}]
  /\ way \in [Receivers -> {"lan", "file", "paste"}]
  /\ backlog \in [Receivers -> Seq(Peers)] /\ tries \in [Receivers -> 0..MaxAttempts]
  /\ peer \in [Receivers -> Peers \cup {Nobody}]
  /\ from \in [Receivers -> Senders \cup {Nobody}]
  /\ rout \in [Receivers -> {"none", "ok", "err", "gaveup", "killed"}]
  /\ spc \in [Senders -> {"off", "connect", "write", "wait", "ended"}]
  /\ to \in [Senders -> Receivers \cup {Nobody}] /\ long \in [Senders -> BOOLEAN]
  /\ sout \in [Senders -> {"none", "ok", "err"}]
  /\ line \in [Peers -> {"none", "open", "sent", "closed"}]
  /\ ack \in [Peers -> {"none", "ok", "err", "eof", "reset"}]
  /\ carried \subseteq Senders /\ stored \subseteq Receivers \X Senders

Init ==
  /\ rpc = [r \in Receivers |-> "off"] /\ way = [r \in Receivers |-> "lan"]
  /\ backlog = [r \in Receivers |-> <<>>] /\ tries = [r \in Receivers |-> 0]
  /\ peer = [r \in Receivers |-> Nobody] /\ from = [r \in Receivers |-> Nobody]
  /\ rout = [r \in Receivers |-> "none"]
  /\ spc = [s \in Senders |-> "off"] /\ to = [s \in Senders |-> Nobody]
  /\ long = [s \in Senders |-> FALSE] /\ sout = [s \in Senders |-> "none"]
  /\ line = [p \in Peers |-> "none"] /\ ack = [p \in Peers |-> "none"]
  /\ carried = {} /\ stored = {}

(* open_bundle.                                                            *)
Opens(r, s) == to[s] = r

(* The listener is closed when the run returns, not before.                *)
PortOpen(r) == way[r] = "lan" /\ rpc[r] \notin {"off", "ended"}

(* What the other ends see of answers and of connections that are closed:  *)
(* closing with the peer's bytes unread resets the connection.             *)
Tell(p, a) == ack' = [ack EXCEPT ![p] = a]

Waiting(r) == Range(backlog[r])
Reset(r, p, a) ==
  /\ ack' = [q \in Peers |-> IF q = p THEN a ELSE IF q \in Waiting(r) THEN "reset" ELSE ack[q]]
  /\ backlog' = [backlog EXCEPT ![r] = <<>>]

End(r, how) ==
  /\ rpc' = [rpc EXCEPT ![r] = "ended"] /\ rout' = [rout EXCEPT ![r] = how]
  /\ peer' = [peer EXCEPT ![r] = Nobody]

-----------------------------------------------------------------------------
(* pair_receive up to emit_code, with --listen, --bundle-in or neither.    *)
Receive(r, w) ==
  /\ rpc[r] = "off"
  /\ way' = [way EXCEPT ![r] = w]
  /\ rpc' = [rpc EXCEPT ![r] = [lan |-> "listen", file |-> "import", paste |-> "paste"][w]]
  /\ UNCHANGED <<tries, peer, from, rout, sender, wire, carried, stored>>

(* The file holds the bundle of s, or it is pasted.                        *)
Import(r, s) ==
  /\ rpc[r] \in {"import", "paste"} /\ s \in carried
  /\ IF Opens(r, s)
       THEN /\ rpc' = [rpc EXCEPT ![r] = "confirm"] /\ from' = [from EXCEPT ![r] = s]
            /\ UNCHANGED <<rout, peer>>
       ELSE End(r, "err") /\ UNCHANGED from
  /\ UNCHANGED <<way, tries, sender, wire, carried, stored>>

(* Something else is pasted, or the file is not there.                     *)
ImportNothing(r) ==
  /\ \/ rpc[r] = "paste"
     \/ rpc[r] = "import" /\ carried = {}
  /\ End(r, "err")
  /\ UNCHANGED <<way, tries, from, sender, wire, carried, stored>>

-----------------------------------------------------------------------------
Accept(r) ==
  /\ rpc[r] = "listen" /\ backlog[r] # <<>>
  /\ peer' = [peer EXCEPT ![r] = Head(backlog[r])]
  /\ backlog' = [backlog EXCEPT ![r] = Tail(@)]
  /\ tries' = [tries EXCEPT ![r] = @ + 1]
  /\ rpc' = [rpc EXCEPT ![r] = "read"]
  /\ UNCHANGED <<way, from, rout, sender, line, ack, carried, stored>>

(* The bundle opens, and the connection is kept for the answer.            *)
ReadBundle(r) ==
  /\ rpc[r] = "read" /\ peer[r] \in Senders /\ line[peer[r]] = "sent"
  /\ Opens(r, peer[r]) /\ ~long[peer[r]]
  /\ rpc' = [rpc EXCEPT ![r] = "confirm"]
  /\ from' = [from EXCEPT ![r] = peer[r]]
  /\ UNCHANGED <<way, tries, peer, rout, sender, wire, carried, stored>>

(* On to the next connection, as long as there may be one.                 *)
NextPeer(r, a) ==
  IF tries[r] < MaxAttempts
    THEN /\ rpc' = [rpc EXCEPT ![r] = "listen"] /\ peer' = [peer EXCEPT ![r] = Nobody]
         /\ Tell(peer[r], a) /\ UNCHANGED <<rout, backlog>>
    ELSE End(r, "gaveup") /\ Reset(r, peer[r], a)

(* A line that is not a bundle for this run, or an empty one: the peer is  *)
(* answered ERR.                                                           *)
ReadJunk(r) ==
  /\ rpc[r] = "read"
  /\ \/ line[peer[r]] = "closed"
     \/ line[peer[r]] = "sent" /\ peer[r] \in Strays
     \/ line[peer[r]] = "sent" /\ peer[r] \in Senders /\ ~Opens(r, peer[r]) /\ ~long[peer[r]]
  /\ NextPeer(r, "err")
  /\ UNCHANGED <<way, tries, from, sender, line, carried, stored>>

(* A line longer than MAX_LAN_READ is dropped without an answer.           *)
ReadTooLong(r) ==
  /\ rpc[r] = "read" /\ peer[r] \in Senders /\ line[peer[r]] = "sent" /\ long[peer[r]]
  /\ NextPeer(r, "reset")
  /\ UNCHANGED <<way, tries, from, sender, line, carried, stored>>

(* Mutated: the timeout of a single read, which only starts the next one,  *)
(* is all there is.                                                        *)
NoDeadline(r) == FALSE /\ UNCHANGED vars

(* RECEIVE_DEADLINE passes before the line is complete.                    *)
ReadDeadline(r) ==
  /\ rpc[r] = "read" /\ line[peer[r]] = "open"
  /\ NextPeer(r, "eof")
  /\ UNCHANGED <<way, tries, from, sender, line, carried, stored>>

-----------------------------------------------------------------------------
(* confirm_code; the user may also never answer.                           *)
Confirm(r) ==
  /\ rpc[r] = "confirm"
  /\ rpc' = [rpc EXCEPT ![r] = "store"]
  /\ UNCHANGED <<way, tries, peer, from, rout, sender, wire, carried, stored>>

Reject(r) ==
  /\ rpc[r] = "confirm"
  /\ End(r, "err") /\ Reset(r, peer[r], "err")
  /\ UNCHANGED <<way, tries, from, sender, line, carried, stored>>

(* store_received succeeds, or fails: no agent, the name is taken, ...     *)
StoreReceived(r) ==
  /\ rpc[r] = "store"
  /\ rpc' = [rpc EXCEPT ![r] = "ack"]
  /\ \/ stored' = stored \cup {<<r, from[r]>>} /\ rout' = [rout EXCEPT ![r] = "ok"]
     \/ UNCHANGED stored /\ rout' = [rout EXCEPT ![r] = "err"]
  /\ UNCHANGED <<way, tries, peer, from, sender, wire, carried>>

(* Mutated: the sender is told OK whatever store_received answered.        *)
AckAnyway(r) ==
  /\ rpc[r] = "ack"
  /\ End(r, rout[r]) /\ Reset(r, peer[r], "ok")
  /\ UNCHANGED <<way, tries, from, sender, line, carried, stored>>

Ack(r) ==
  /\ rpc[r] = "ack"
  /\ End(r, rout[r]) /\ Reset(r, peer[r], rout[r])
  /\ UNCHANGED <<way, tries, from, sender, line, carried, stored>>

(* The run is interrupted; a connection that was read to the end is        *)
(* closed, not reset.                                                      *)
Kill(r) ==
  /\ rpc[r] \notin {"off", "ended"}
  /\ End(r, "killed")
  /\ \/ Reset(r, peer[r], "eof")
     \/ rpc[r] = "read" /\ Reset(r, peer[r], "reset")
  /\ UNCHANGED <<way, tries, from, sender, line, carried, stored>>

-----------------------------------------------------------------------------
(* pair_send up to seal_for: the code of a run that has printed it, and a  *)
(* secret that fits MAX_LAN_READ or not.  Then the bundle goes to a file,  *)
(* to the address in the code, or, if there is none, to stdout.            *)
SealFor(s, r) ==
  /\ spc[s] = "off" /\ rpc[r] # "off"
  /\ to' = [to EXCEPT ![s] = r]
  /\ \E l \in BOOLEAN : long' = [long EXCEPT ![s] = l]
  /\ \/ /\ way[r] = "lan" /\ spc' = [spc EXCEPT ![s] = "connect"]
        /\ UNCHANGED <<sout, carried>>
     \/ /\ spc' = [spc EXCEPT ![s] = "ended"] /\ sout' = [sout EXCEPT ![s] = "ok"]
        /\ carried' = carried \cup {s}
  /\ UNCHANGED <<receiver, wire, stored>>

Finish(s, how) ==
  /\ spc' = [spc EXCEPT ![s] = "ended"] /\ sout' = [sout EXCEPT ![s] = how]

Enqueue(p, r) ==
  /\ backlog' = [backlog EXCEPT ![r] = Append(@, p)]
  /\ line' = [line EXCEPT ![p] = "open"]

(* Who listens at the address in the code: the run that printed it, or,    *)
(* when that one is gone, a later one of the same device.                  *)
AtAddress(s) == {r \in Receivers : PortOpen(r) /\ (PortOpen(to[s]) => r = to[s])}

Connect(s) ==
  /\ spc[s] = "connect"
  /\ \/ \E r \in AtAddress(s) :
          Enqueue(s, r) /\ spc' = [spc EXCEPT ![s] = "write"] /\ UNCHANGED sout
     \/ /\ ~PortOpen(to[s])
        /\ Finish(s, "err") /\ UNCHANGED <<backlog, line>>
  /\ UNCHANGED <<receiver, to, long, ack, carried, stored>>

(* The bundle line is written; a connection that is gone fails later, when *)
(* the answer is read.                                                     *)
Write(s) ==
  /\ spc[s] = "write"
  /\ spc' = [spc EXCEPT ![s] = "wait"]
  /\ line' = [line EXCEPT ![s] = "sent"]
  /\ UNCHANGED <<receiver, to, long, sout, backlog, ack, carried, stored>>

(* Any line, and also the end of the stream, counts as an acknowledgement. *)
ReadAck(s) ==
  /\ spc[s] = "wait" /\ ack[s] # "none"
  /\ \/ ack[s] # "reset" /\ Finish(s, "ok")
     \/ ack[s] \in {"eof", "reset"} /\ Finish(s, "err")
  /\ UNCHANGED <<receiver, to, long, wire, carried, stored>>

(* Mutated: no read timeout.                                               *)
NoAckTimeout(s) == FALSE /\ UNCHANGED vars

AckTimeout(s) ==
  /\ spc[s] = "wait" /\ ack[s] = "none"
  /\ Finish(s, "err")
  /\ UNCHANGED <<receiver, to, long, wire, carried, stored>>

(* The sender does not confirm the code, has no such secret, or is         *)
(* interrupted.                                                            *)
HangUp(s) ==
  /\ spc[s] # "ended"
  /\ Finish(s, "err")
  /\ line' = [line EXCEPT ![s] = IF @ = "open" THEN "closed" ELSE @]
  /\ UNCHANGED <<receiver, to, long, backlog, ack, carried, stored>>

-----------------------------------------------------------------------------
(* Another program connects, once, and sends a line, closes, or does       *)
(* neither.                                                                *)
StrayConnects(p, r) ==
  /\ line[p] = "none" /\ PortOpen(r)
  /\ Enqueue(p, r)
  /\ UNCHANGED <<receiver, sender, ack, carried, stored>>

StraySends(p) ==
  /\ line[p] = "open"
  /\ \E l \in {"sent", "closed"} : line' = [line EXCEPT ![p] = l]
  /\ UNCHANGED <<receiver, sender, backlog, ack, carried, stored>>

-----------------------------------------------------------------------------
ReceiverStep(r) ==
  \/ Accept(r) \/ ReadBundle(r) \/ ReadJunk(r) \/ ReadTooLong(r) \/ ReadDeadline(r)
  \/ StoreReceived(r) \/ Ack(r)

Next ==
  \/ \E r \in Receivers : \E w \in {"lan", "file", "paste"} : Receive(r, w)
  \/ \E r \in Receivers : ReceiverStep(r) \/ ImportNothing(r) \/ Confirm(r) \/ Reject(r) \/ Kill(r)
  \/ \E r \in Receivers, s \in Senders : Import(r, s) \/ SealFor(s, r)
  \/ \E s \in Senders : Connect(s) \/ Write(s) \/ ReadAck(s) \/ AckTimeout(s) \/ HangUp(s)
  \/ \E p \in Strays : StraySends(p) \/ \E r \in Receivers : StrayConnects(p, r)

Spec == Init /\ [][Next]_vars

ReceiverRuns(r) == WF_vars(ReceiverStep(r))

SenderRuns(s) ==
  WF_vars(Connect(s)) /\ WF_vars(Write(s)) /\ WF_vars(ReadAck(s)) /\ WF_vars(AckTimeout(s))

(* The programs run and their timeouts strike; people and the other        *)
(* programs need not do anything.                                          *)
FairSpec ==
  /\ Spec
  /\ \A r \in Receivers : ReceiverRuns(r)
  /\ \A s \in Senders : SenderRuns(s)

-----------------------------------------------------------------------------
(* A sender that reads OK has its secret in the receiver's vault, whatever *)
(* else connected and whichever side was interrupted.                      *)
AckIsTruthful == \A s \in Senders : ack[s] = "ok" => <<to[s], s>> \in stored

(* accept_until_valid: "a stray connection cannot pre-empt the real sender *)
(* (bounded by an attempt cap)".  A bundle that waits at the port, of a    *)
(* length the receiver reads, is opened, unless another sender's was or    *)
(* the run was interrupted; for fewer peers than MaxAttempts.              *)
AtThePort(r, s) ==
  /\ line[s] = "sent" /\ to[s] = r /\ ~long[s] /\ PortOpen(r)
  /\ s = peer[r] \/ s \in Waiting(r)

BundleIsOpened ==
  \A r \in Receivers, s \in Senders :
    AtThePort(r, s) ~> (from[r] # Nobody \/ rout[r] = "killed")

(* What the guards of the fair steps leave to do.                          *)
SenderMoves(s) ==
  /\ spc[s] = "connect" => ENABLED <<Connect(s)>>_vars
  /\ spc[s] = "write" => ENABLED <<Write(s)>>_vars
  /\ spc[s] = "wait" /\ ack[s] = "none" => ENABLED <<AckTimeout(s)>>_vars
  /\ spc[s] = "wait" /\ ack[s] # "none" => ENABLED <<ReadAck(s)>>_vars

ReceiverMoves(r) ==
  (rpc[r] = "listen" /\ backlog[r] # <<>>) \/ rpc[r] = "read" => ENABLED <<ReceiverStep(r)>>_vars

(* No program is stuck: whatever a sender waits for, and whatever a        *)
(* listening run was sent, or not sent, there is a step it can take.       *)
ProgramsMove ==
  (\A s \in Senders : SenderMoves(s)) /\ (\A r \in Receivers : ReceiverMoves(r))

(* pair-send returns also when the receiver's user never answers.          *)
SenderReturns == \A s \in Senders : (spc[s] = "connect") ~> (spc[s] = "ended")

(* The manual: pair-receive --bundle-in imports the bundle that was sealed *)
(* for the code of the pair-receive --code-out before it.                  *)
BundleInOpens ==
  \A r \in Receivers : way[r] = "file" /\ rout[r] = "err" /\ carried # {} => from[r] # Nobody
=============================================================================
