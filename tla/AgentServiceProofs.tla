-------------------------- MODULE AgentServiceProofs --------------------------
(***************************************************************************)
(* Theorems about AgentService, for any number of clients, names and       *)
(* values and any idle lifetime.                                           *)
(***************************************************************************)
EXTENDS AgentService, NaturalsInduction, WellFoundedInduction, TLAPS

-----------------------------------------------------------------------------
(* Type correctness.                                                       *)

LEMMA PutHasNameAndValue ==
  ASSUME NEW r \in Requests \cup {NoRequest}, r.kind \in {"put", "store"}
  PROVE  r.name \in Names /\ r.val \in Vals
  BY DEF Requests, Commands, NoRequest

LEMMA ListHasName ==
  ASSUME NEW r \in Requests \cup {NoRequest}, r.kind = "list"
  PROVE  r.name \in Names
  BY DEF Requests, Commands, NoRequest

LEMMA QueueType ==
  ASSUME queue \in Seq(Clients)
  PROVE  /\ \A c \in Clients : Append(queue, c) \in Seq(Clients)
         /\ queue # <<>> => Head(queue) \in Clients /\ Tail(queue) \in Seq(Clients)
         /\ <<>> \in Seq(Clients)
  OBVIOUS

LEMMA ConnectType ==
  ASSUME TypeOK, NEW c \in Clients, NEW r \in Requests, Connect(c, r),
         listed' \in [Clients -> SUBSET Names]
  PROVE  TypeOK'
  BY QueueType DEF TypeOK, Connect, process, store

LEMMA FinishType ==
  ASSUME TypeOK, NEW c \in Clients, NEW l, Finish(c, l)
  PROVE  /\ cur' \in Clients \cup {Nobody}
         /\ link' \in [Clients -> {"none", "partial", "whole", "cut"}]
         /\ req' \in [Clients -> Requests \cup {NoRequest}]
  BY DEF TypeOK, Finish, Forget

LEMMA EndType ==
  ASSUME TypeOK, NEW S, End(S)
  PROVE  /\ alive' \in BOOLEAN /\ queue' \in Seq(Clients) /\ cur' \in Clients \cup {Nobody}
         /\ answer' \in [Clients -> {"none", "ok", "err"}]
         /\ link' \in [Clients -> {"none", "partial", "whole", "cut"}]
         /\ req' \in [Clients -> Requests \cup {NoRequest}]
  BY QueueType DEF TypeOK, End

LEMMA StepType ==
  ASSUME TypeOK, Next
  PROVE  TypeOK'
  <1> USE TicksAssumption
  <1>1. ASSUME NEW c \in Clients, Start(c) PROVE TypeOK'
    <2>1. PICK r \in Commands : Connect(c, r)
      BY <1>1 DEF Start
    <2>2. r \in Requests
      BY DEF Requests
    <2>3. listed' \in [Clients -> SUBSET Names]
      BY <1>1 DEF Start, TypeOK
    <2> QED BY <2>1, <2>2, <2>3, ConnectType
  <1>2. ASSUME NEW c \in Clients, Send(c) PROVE TypeOK'
    BY <1>2 DEF TypeOK, Send, process, store
  <1>3. ASSUME NEW c \in Clients, Interrupt(c) PROVE TypeOK'
    BY <1>3 DEF TypeOK, Interrupt, Forget, process, store
  <1>4. ASSUME NEW c \in Clients, StoreReceived(c) PROVE TypeOK'
    <2>1. PICK v \in Vals : Connect(c, [kind |-> "store", name |-> req[c].name, val |-> v])
      BY <1>4 DEF StoreReceived
    <2>2. req[c].name \in Names
      BY <1>4, ListHasName DEF StoreReceived, TypeOK
    <2>3. [kind |-> "store", name |-> req[c].name, val |-> v] \in Requests
      BY <2>2 DEF Requests
    <2>4. listed' \in [Clients -> SUBSET Names]
      BY <1>4 DEF StoreReceived, TypeOK
    <2> QED BY <2>1, <2>3, <2>4, ConnectType
  <1>5. ASSUME NEW c \in Clients, Return(c) PROVE TypeOK'
    BY <1>5 DEF TypeOK, Return, Forget, process, store
  <1>6. ASSUME NEW c \in Clients, HandlePut(c) PROVE TypeOK'
    <2>1. req[c].name \in Names /\ req[c].val \in Vals
      BY <1>6, PutHasNameAndValue DEF HandlePut, TypeOK
    <2>2. mem' \in [Names -> Vals \cup {NoVal}] /\ disk' \in [Names -> Vals \cup {NoVal}]
      BY <1>6, <2>1 DEF HandlePut, TypeOK
    <2> QED BY <1>6, <2>2, FinishType DEF HandlePut, Answer, Finish, TypeOK, process
  <1>7. ASSUME NEW c \in Clients, HandleRead(c) PROVE TypeOK'
    <2>1. listed' \in [Clients -> SUBSET Names]
      BY <1>7 DEF HandleRead, Present, TypeOK
    <2> QED BY <1>7, <2>1, FinishType DEF HandleRead, Answer, Finish, TypeOK, process, store
  <1>8. ASSUME NEW c \in Clients, HandleSignout(c) PROVE TypeOK'
    BY <1>8, EndType DEF HandleSignout, TypeOK, store
  <1>9. ASSUME NEW c \in Clients, DropCut(c) PROVE TypeOK'
    BY <1>9, FinishType DEF DropCut, Finish, TypeOK, process, store
  <1>10. CASE Accept
    BY <1>10, QueueType DEF Accept, TypeOK, store
  <1>11. CASE Wake
    BY <1>11 DEF Wake, TypeOK, store
  <1>12. CASE Exit
    <2>1. CASE UNCHANGED store
      BY <1>12, <2>1, EndType DEF Exit, TypeOK, store
    <2>2. ASSUME NEW c \in Clients, cur = c, req[c].kind \in {"put", "store"},
                 mem' = [mem EXCEPT ![req[c].name] = req[c].val], disk' = mem'
          PROVE  TypeOK'
      <3>1. req[c].name \in Names /\ req[c].val \in Vals
        BY <2>2, PutHasNameAndValue DEF TypeOK
      <3>2. mem' \in [Names -> Vals \cup {NoVal}] /\ disk' \in [Names -> Vals \cup {NoVal}]
        BY <2>2, <3>1 DEF TypeOK
      <3> QED BY <1>12, <3>2, EndType DEF Exit, TypeOK
    <2> QED BY <1>12, <2>1, <2>2 DEF Exit
  <1>13. CASE Tick
    BY <1>13 DEF Tick, TypeOK, store
  <1> QED
    BY <1>1, <1>2, <1>3, <1>4, <1>5, <1>6, <1>7, <1>8, <1>9, <1>10, <1>11, <1>12, <1>13
    DEF Next, Serve

(* Every variable keeps its type, whatever the clients ask, however they   *)
(* are interrupted, and whenever the watchdog strikes.                     *)
THEOREM TypeCorrect == Spec => []TypeOK
  <1>1. Init => TypeOK
    <2>1. 0 \in 0..(Idle + Nap) /\ 0 \in 0..Nap /\ <<>> \in Seq(Clients)
      BY TicksAssumption
    <2> QED BY <2>1 DEF Init, TypeOK
  <1>2. TypeOK /\ [Next]_vars => TypeOK'
    BY StepType DEF vars, process, store, TypeOK
  <1> QED BY <1>1, <1>2, PTL DEF Spec

-----------------------------------------------------------------------------
(* The idle lifetime.  As long as the watchdog has not struck, the agent   *)
(* was idle for less than Idle when it woke last, nap ticks ago.           *)
NapInv == alive /\ ~expiring => idle < Idle + nap

LEMMA NapStep ==
  ASSUME TypeOK, NapInv, [Next]_vars
  PROVE  NapInv'
  <1> USE TicksAssumption DEF TypeOK, NapInv
  <1>1. CASE Accept
    BY <1>1 DEF Accept
  <1>2. CASE Wake
    <2>1. nap' = 0 /\ idle' = idle /\ (expiring' <=> idle >= Idle)
      BY <1>2 DEF Wake
    <2>2. idle \in Nat /\ Idle \in Nat
      OBVIOUS
    <2> HIDE DEF TypeOK
    <2> QED BY <2>1, <2>2
  <1>3. CASE Tick
    BY <1>3 DEF Tick
  <1>4. CASE Exit
    BY <1>4 DEF Exit, End
  <1>5. ASSUME NEW c \in Clients, Serve(c) PROVE NapInv'
    BY <1>5 DEF Serve, HandlePut, HandleRead, HandleSignout, DropCut, Finish, End, process
  <1>6. ASSUME NEW c \in Clients,
               Start(c) \/ Send(c) \/ Interrupt(c) \/ StoreReceived(c) \/ Return(c)
        PROVE  NapInv'
    BY <1>6 DEF Start, Send, Interrupt, StoreReceived, Return, Connect, process
  <1>7. CASE UNCHANGED vars
    BY <1>7 DEF vars
  <1> QED BY <1>1, <1>2, <1>3, <1>4, <1>5, <1>6, <1>7 DEF Next

LEMMA NapHolds == Spec => []NapInv
  <1>1. Init => NapInv
    BY TicksAssumption DEF Init, NapInv
  <1>2. TypeOK /\ NapInv /\ [Next]_vars => NapInv'
    BY NapStep
  <1> QED BY <1>1, <1>2, TypeCorrect, PTL DEF Spec

(* The vault is never unlocked for longer than the idle lifetime and one   *)
(* nap of the watchdog, for any lengths of the two.                        *)
THEOREM IdleAgentExpires == Spec => []NeverIdleForLong
  <1>1. TypeOK /\ NapInv => NeverIdleForLong
    BY TicksAssumption DEF TypeOK, NapInv, NeverIdleForLong
  <1> QED BY <1>1, NapHolds, TypeCorrect, PTL

-----------------------------------------------------------------------------
(* Receiving.  A client that is about to store what it received has not    *)
(* been told that the name is taken.                                       *)
StoreInv == \A c \in Clients : req[c].kind = "store" => req[c].name \notin listed[c]

LEMMA ConnectStoreInv ==
  ASSUME TypeOK, StoreInv, NEW c \in Clients, NEW r, Connect(c, r),
         \A d \in Clients \ {c} : listed'[d] = listed[d],
         r.kind = "store" => r.name \notin listed'[c]
  PROVE  StoreInv'
  BY DEF TypeOK, StoreInv, Connect

LEMMA StoreStep ==
  ASSUME TypeOK, StoreInv, [Next]_vars
  PROVE  StoreInv'
  <1>1. ASSUME NEW c \in Clients, Start(c) PROVE StoreInv'
    <2>1. PICK r \in Commands : Connect(c, r)
      BY <1>1 DEF Start
    <2>2. r.kind # "store"
      BY DEF Commands
    <2>3. \A d \in Clients \ {c} : listed'[d] = listed[d]
      BY <1>1 DEF Start, TypeOK
    <2> QED BY <2>1, <2>2, <2>3, ConnectStoreInv
  <1>2. ASSUME NEW c \in Clients, StoreReceived(c) PROVE StoreInv'
    <2>1. PICK v \in Vals : Connect(c, [kind |-> "store", name |-> req[c].name, val |-> v])
      BY <1>2 DEF StoreReceived
    <2> QED BY <1>2, <2>1, ConnectStoreInv DEF StoreReceived
  <1>3. ASSUME NEW c \in Clients, Interrupt(c) PROVE StoreInv'
    BY <1>3 DEF Interrupt, Forget, StoreInv, TypeOK, NoRequest
  <1>4. ASSUME NEW c \in Clients, Return(c) PROVE StoreInv'
    BY <1>4 DEF Return, Forget, StoreInv, TypeOK, NoRequest
  <1>5. ASSUME NEW c \in Clients, HandlePut(c) \/ DropCut(c) PROVE StoreInv'
    BY <1>5 DEF HandlePut, DropCut, Finish, Forget, StoreInv, TypeOK, NoRequest
  <1>6. ASSUME NEW c \in Clients, HandleRead(c) PROVE StoreInv'
    BY <1>6 DEF HandleRead, Finish, Forget, StoreInv, TypeOK, NoRequest
  <1>7. ASSUME NEW S, End(S), UNCHANGED listed PROVE StoreInv'
    BY <1>7 DEF End, StoreInv, TypeOK, NoRequest
  <1>8. CASE Exit \/ \E c \in Clients : HandleSignout(c)
    BY <1>7, <1>8 DEF Exit, HandleSignout
  <1>9. CASE Accept \/ Wake \/ Tick \/ UNCHANGED vars \/ \E c \in Clients : Send(c)
    BY <1>9 DEF Accept, Wake, Tick, vars, Send, StoreInv
  <1> QED BY <1>1, <1>2, <1>3, <1>4, <1>5, <1>6, <1>8, <1>9 DEF Next, Serve

(* A step that serves a request changes the entry of its name at most.     *)
LEMMA ServedKeepsListed ==
  ASSUME TypeOK, StoreInv, [Next]_vars, NEW c \in Clients, NEW n \in Names,
         cur = c, cur' # c, req[c].kind = "store", n \in listed[c]
  PROVE  mem'[n] = mem[n]
  <1>1. n # req[c].name
    BY DEF StoreInv
  <1>2. CASE mem' = [mem EXCEPT ![req[c].name] = req[c].val]
    BY <1>1, <1>2 DEF TypeOK
  <1>3. CASE mem' = mem
    BY <1>3
  <1>4. CASE Exit
    BY <1>2, <1>3, <1>4 DEF Exit, store
  <1>5. ASSUME NEW d \in Clients, Serve(d) PROVE mem'[n] = mem[n]
    BY <1>2, <1>3, <1>5 DEF Serve, HandlePut, HandleRead, HandleSignout, DropCut, Finish, store
  <1>6. CASE Accept \/ Wake \/ Tick \/ UNCHANGED vars
    BY <1>6 DEF Accept, Wake, Tick, vars, store
  <1>7. ASSUME NEW d \in Clients,
               Start(d) \/ Send(d) \/ Interrupt(d) \/ StoreReceived(d) \/ Return(d)
        PROVE  mem' = mem
    BY <1>7 DEF Start, Send, Interrupt, StoreReceived, Return, Connect, store
  <1> QED BY <1>3, <1>4, <1>5, <1>6, <1>7 DEF Next

(* Whatever other terminals put in between, a received secret replaces     *)
(* none of those its receiver was told of.                                 *)
THEOREM ReceiveReplacesNothingListed == Spec => ReceiveKeepsListed
  <1>1. Init => StoreInv
    BY DEF Init, StoreInv, NoRequest
  <1>2. TypeOK /\ StoreInv /\ [Next]_vars => StoreInv'
    BY StoreStep
  <1>3. TypeOK /\ StoreInv /\ [Next]_vars =>
          [\A c \in Clients, n \in Names :
             cur = c /\ cur' # c /\ req[c].kind = "store" /\ n \in listed[c] => mem'[n] = mem[n]]_vars
    BY ServedKeepsListed
  <1> QED BY <1>1, <1>2, <1>3, TypeCorrect, PTL DEF Spec, ReceiveKeepsListed

-----------------------------------------------------------------------------
(* Liveness.  tlapm cannot look into ENABLED, so that the watchdog can     *)
(* always go on, WatchdogIsFree, is a hypothesis (and an invariant TLC     *)
(* checks).  What makes a command's wait shorter is the clock, and, when   *)
(* that is set back by another command, its place in the queue.            *)

InLine(c, i) == cur = c \/ \E j \in 1..Len(queue) : queue[j] = c /\ j <= i

(* A connection is with the agent, in its queue or being served.           *)
LinkInv == \A c \in Clients : ~(link[c] = "none") => alive /\ InLine(c, Len(queue))

LEMMA QueueLength ==
  ASSUME TypeOK
  PROVE  /\ Len(queue) \in Nat
         /\ \A c : cur = c => InLine(c, Len(queue))
         /\ \A c : InLine(c, Len(queue)) <=> cur = c \/ \E j \in 1..Len(queue) : queue[j] = c
  BY DEF TypeOK, InLine

LEMMA AppendKeepsLine ==
  ASSUME TypeOK, NEW c, NEW d \in Clients, NEW i \in Nat, queue' = Append(queue, d), cur' = cur
  PROVE  /\ InLine(c, i) => InLine(c, i)'
         /\ InLine(d, Len(queue))'
         /\ InLine(c, Len(queue)) => InLine(c, Len(queue))'
  <1>1. queue \in Seq(Clients) /\ Len(queue) \in Nat
    BY DEF TypeOK
  <1>2. Len(queue') = Len(queue) + 1 /\ queue'[Len(queue) + 1] = d
        /\ \A j \in 1..Len(queue) : queue'[j] = queue[j]
    BY <1>1
  <1>3. \A j \in 1..Len(queue) : j \in 1..Len(queue')
    BY <1>1, <1>2
  <1>4. InLine(d, Len(queue))'
    BY <1>1, <1>2 DEF InLine
  <1>5. \A k \in Nat : InLine(c, k) => InLine(c, k)'
    BY <1>2, <1>3 DEF InLine
  <1>6. InLine(c, Len(queue)) => InLine(c, Len(queue))'
    BY <1>1, <1>2, <1>3 DEF InLine
  <1> QED BY <1>4, <1>5, <1>6

LEMMA AcceptBringsNearer ==
  ASSUME TypeOK, Accept, NEW c, NEW i \in Nat, InLine(c, i), c # Nobody
  PROVE  i # 0 /\ InLine(c, i - 1)' /\ (i = Len(queue) => InLine(c, Len(queue))')
  <1>1. queue \in Seq(Clients) /\ queue # <<>> /\ Len(queue) \in Nat /\ cur = Nobody
    BY DEF TypeOK, Accept
  <1>2. cur' = Head(queue) /\ queue' = Tail(queue) /\ Len(queue') = Len(queue) - 1
    BY <1>1 DEF Accept
  <1>3. PICK j \in 1..Len(queue) : queue[j] = c /\ j <= i
    BY <1>1 DEF InLine
  <1>4. i \in Nat \ {0}
    BY <1>3
  <1>5. CASE j = 1
    <2>1. cur' = c
      BY <1>1, <1>2, <1>3, <1>5
    <2> QED BY <1>4, <2>1 DEF InLine
  <1>6. CASE j # 1
    <2>1. j - 1 \in 1..Len(queue') /\ queue'[j - 1] = c
      BY <1>1, <1>2, <1>3, <1>6
    <2>2. j - 1 <= i - 1
      BY <1>3
    <2> QED BY <1>2, <1>4, <2>1, <2>2 DEF InLine
  <1> QED BY <1>5, <1>6

LEMMA FinishKeepsLine ==
  ASSUME TypeOK, NEW c, NEW d \in Clients, NEW l, Finish(d, l), c # d
  PROVE  /\ \A i : InLine(c, i) => InLine(c, i)'
         /\ queue' = queue /\ link'[c] = link[c] /\ UNCHANGED process
  BY DEF TypeOK, Finish, InLine

LEMMA LinkStep ==
  ASSUME TypeOK, LinkInv, [Next]_vars
  PROVE  LinkInv'
  <1>1. ASSUME NEW d \in Clients, NEW r, Connect(d, r) PROVE LinkInv'
    <2>1. alive' /\ queue' = Append(queue, d) /\ cur' = cur
          /\ \A c \in Clients : c # d => link'[c] = link[c]
      BY <1>1 DEF Connect, Reachable, process, TypeOK
    <2> QED BY <2>1, QueueLength, AppendKeepsLine DEF LinkInv
  <1>2. ASSUME NEW d \in Clients, Send(d) \/ Interrupt(d) \/ Return(d) PROVE LinkInv'
    <2>1. queue' = queue /\ cur' = cur /\ alive' = alive
          /\ \A c \in Clients : link'[c] = "none" <=> link[c] = "none"
      BY <1>2 DEF Send, Interrupt, Return, process, TypeOK
    <2> QED BY <2>1 DEF LinkInv, InLine
  <1>3. CASE Accept
    <2>1. link' = link /\ alive' = alive
      BY <1>3 DEF Accept
    <2> QED BY <1>3, <2>1, AcceptBringsNearer, QueueLength, SentinelsAssumption DEF LinkInv
  <1>4. ASSUME NEW d \in Clients, NEW l, Finish(d, l) PROVE LinkInv'
    <2>1. link'[d] = "none"
      BY <1>4 DEF Finish, TypeOK
    <2>2. ASSUME NEW c \in Clients, c # d, ~(link'[c] = "none")
          PROVE  alive' /\ InLine(c, Len(queue))'
      <3>1. /\ \A i : InLine(c, i) => InLine(c, i)'
            /\ queue' = queue /\ link'[c] = link[c] /\ UNCHANGED process
        BY <1>4, <2>2, FinishKeepsLine
      <3>2. alive /\ InLine(c, Len(queue))
        BY <2>2, <3>1 DEF LinkInv
      <3>3. InLine(c, Len(queue))'
        BY <3>1, <3>2 DEF InLine
      <3> QED BY <3>1, <3>2, <3>3 DEF process
    <2> QED BY <2>1, <2>2 DEF LinkInv
  <1>5. ASSUME NEW S, End(S) PROVE LinkInv'
    BY <1>5 DEF End, LinkInv
  <1>6. CASE Wake \/ Tick \/ UNCHANGED vars
    BY <1>6 DEF Wake, Tick, vars, LinkInv, InLine
  <1> QED BY <1>1, <1>2, <1>3, <1>4, <1>5, <1>6
      DEF Next, Start, StoreReceived, Serve, HandlePut, HandleRead, HandleSignout, DropCut, Exit

-----------------------------------------------------------------------------
(* Twice the ticks until the agent has been idle for as long as it can be, *)
(* and one more for the watchdog that is about to look.                    *)
Slack == 2 * (Idle + Nap - idle) + (IF nap = Nap THEN 1 ELSE 0)
Span == 2 * (Idle + Nap) + 2

Waits(c) == link[c] = "whole" /\ alive /\ ~expiring

Near(c, n) == Waits(c) /\ \E i \in Nat : InLine(c, i) /\ i * Span + Slack <= n

LEMMA SlackType ==
  ASSUME TypeOK, NapInv, alive, ~expiring
  PROVE  Slack \in 2..(Span - 1) /\ Slack \in Nat /\ Span \in Nat
  <1>1. idle \in Nat /\ nap \in Nat /\ Idle \in Nat /\ Nap \in Nat /\ nap <= Nap /\ idle < Idle + Nap
    BY TicksAssumption DEF TypeOK, NapInv
  <1> QED BY <1>1 DEF Slack, Span

LEMMA OneSpanLess ==
  ASSUME NEW i \in Nat, NEW k \in Nat, i # 0
  PROVE  (i - 1) * k + k = i * k /\ (i - 1) * k \in Nat /\ i * k \in Nat
  OBVIOUS

(* Accepting sets the clock back, and takes the command one place on.      *)
LEMMA AcceptStep ==
  ASSUME TypeOK, NapInv, NEW c \in Clients, NEW n \in Nat, Near(c, n), Accept
  PROVE  n # 0 /\ Near(c, n - 1)'
  <1>1. PICK i \in Nat : InLine(c, i) /\ i * Span + Slack <= n
    BY DEF Near
  <1>2. i # 0 /\ InLine(c, i - 1)'
    BY <1>1, AcceptBringsNearer, SentinelsAssumption
  <1>3. Slack \in Nat /\ 2 <= Slack /\ Span \in Nat
    BY SlackType DEF Near, Waits
  <1>4. Slack' \in Nat /\ Slack' <= Span - 1
    <2>1. idle' = 0 /\ nap' = nap /\ Idle \in Nat /\ Nap \in Nat
      BY TicksAssumption DEF Accept
    <2> QED BY <2>1 DEF Slack, Span
  <1>5. (i - 1) * Span + Slack' <= n - 1 /\ i - 1 \in Nat /\ n # 0
    <2>1. (i - 1) * Span + Span = i * Span /\ (i - 1) * Span \in Nat /\ i * Span \in Nat
      BY <1>2, <1>3, OneSpanLess
    <2>2. PICK x \in Nat : x = (i - 1) * Span
      BY <2>1
    <2>3. PICK y \in Nat : y = i * Span
      BY <2>1
    <2>4. x + Span = y /\ y + Slack <= n
      BY <1>1, <2>1, <2>2, <2>3, Zenon
    <2>5. x + Slack' <= n - 1 /\ n # 0
      <3>1. PICK before \in Nat : before = Slack
        BY <1>3
      <3>2. PICK after \in Nat : after = Slack'
        BY <1>4
      <3>3. PICK k \in Nat : k = Span
        BY <1>3
      <3>4. after <= k - 1 /\ 2 <= before /\ x + k = y /\ y + before <= n
        BY <1>3, <1>4, <2>4, <3>1, <3>2, <3>3, Zenon
      <3>5. x + after <= n - 1 /\ n # 0
        BY <3>4
      <3> QED BY <3>2, <3>5, Zenon
    <2>6. i - 1 \in Nat
      BY <1>2
    <2> QED BY <2>2, <2>5, <2>6, Zenon
  <1>6. Waits(c)'
    BY DEF Near, Waits, Accept
  <1>7. (i - 1) * Span' + Slack' <= n - 1
    BY <1>5 DEF Span
  <1> QED BY <1>2, <1>5, <1>6, <1>7 DEF Near

LEMMA ClockStep ==
  ASSUME TypeOK, NapInv, NEW c \in Clients, NEW n \in Nat, Near(c, n), Tick \/ Wake
  PROVE  expiring' \/ (n # 0 /\ Near(c, n - 1)')
  <1> SUFFICES ASSUME ~expiring'
               PROVE  n # 0 /\ Near(c, n - 1)'
    OBVIOUS
  <1>1. PICK i \in Nat : InLine(c, i) /\ i * Span + Slack <= n
    BY DEF Near
  <1>2. Slack \in Nat /\ Slack' + 1 <= Slack /\ Slack' \in Int
    <2>1. idle \in Nat /\ nap \in Nat /\ Idle \in Nat /\ Nap \in Nat /\ idle < Idle + Nap
      BY TicksAssumption DEF TypeOK, NapInv, Near, Waits
    <2>2. Nap # 0
      BY TicksAssumption
    <2>3. CASE Tick
      BY <2>1, <2>3 DEF Tick, Slack
    <2>4. CASE Wake
      BY <2>1, <2>2, <2>4 DEF Wake, Slack
    <2> QED BY <2>3, <2>4
  <1>3. i * Span \in Nat
    <2>1. Span \in Nat
      BY SlackType DEF Near, Waits
    <2> QED BY <2>1
  <1>4. i * Span + Slack' <= n - 1
    <2>1. PICK x \in Nat : x = i * Span
      BY <1>3
    <2>2. x + Slack <= n
      BY <1>1, <2>1, Zenon
    <2>3. x + Slack' <= n - 1
      <3>1. PICK before \in Nat : before = Slack
        BY <1>2
      <3>2. PICK after \in Int : after = Slack'
        BY <1>2
      <3>3. after + 1 <= before /\ x + before <= n
        BY <1>2, <2>2, <3>1, <3>2, Zenon
      <3>4. x + after <= n - 1
        BY <3>3
      <3> QED BY <3>2, <3>4, Zenon
    <2> QED BY <2>1, <2>3, Zenon
  <1>5. n # 0
    <2>1. 2 <= Slack
      BY SlackType DEF Near, Waits
    <2>2. PICK x \in Nat : x = i * Span
      BY <1>3
    <2> QED BY <1>1, <1>2, <2>1, <2>2
  <1>6. Waits(c)' /\ InLine(c, i)'
    BY <1>1 DEF Near, Waits, Tick, Wake, InLine
  <1>7. i * Span' + Slack' <= n - 1
    BY <1>4 DEF Span
  <1> QED BY <1>5, <1>6, <1>7 DEF Near

(* Whoever else is served, or connects.                                    *)
LEMMA NearKept ==
  ASSUME TypeOK, NEW c \in Clients, NEW n \in Nat, Near(c, n),
         \A i \in Nat : InLine(c, i) => InLine(c, i)',
         UNCHANGED process, link'[c] = "whole"
  PROVE  Near(c, n)' /\ nap' = nap
  <1>1. PICK i \in Nat : InLine(c, i) /\ i * Span + Slack <= n
    BY DEF Near
  <1>2. Waits(c)' /\ nap' = nap /\ Slack' = Slack /\ Span' = Span
    BY DEF Near, Waits, process, Slack, Span
  <1> QED BY <1>1, <1>2 DEF Near

LEMMA NearStep ==
  ASSUME TypeOK, NapInv, NEW c \in Clients, NEW n \in Nat, Near(c, n), [Next]_vars
  PROVE  \/ Near(c, n)' /\ nap' = nap
         \/ n # 0 /\ Near(c, n - 1)'
         \/ expiring' \/ ~(link'[c] = "whole")
  <1> DEFINE Goal == \/ Near(c, n)' /\ nap' = nap
                     \/ n # 0 /\ Near(c, n - 1)'
                     \/ expiring' \/ ~(link'[c] = "whole")
  <1>0. link[c] = "whole"
    BY DEF Near, Waits
  <1>1. ASSUME NEW d \in Clients, NEW r, Connect(d, r) PROVE Goal
    <2>1. link'[c] = "whole" /\ queue' = Append(queue, d) /\ cur' = cur /\ UNCHANGED process
      BY <1>0, <1>1 DEF Connect, TypeOK
    <2> QED BY <2>1, AppendKeepsLine, NearKept
  <1>2. ASSUME NEW d \in Clients, Send(d) \/ Interrupt(d) \/ Return(d) PROVE Goal
    <2>1. link'[c] = "whole" /\ queue' = queue /\ cur' = cur /\ UNCHANGED process
      BY <1>0, <1>2 DEF Send, Interrupt, Return, TypeOK
    <2> QED BY <2>1, NearKept DEF InLine
  <1>3. ASSUME NEW d \in Clients, NEW l, Finish(d, l) PROVE Goal
    <2>1. CASE c = d
      BY <1>3, <2>1 DEF Finish, TypeOK
    <2>2. CASE c # d
      BY <1>0, <1>3, <2>2, FinishKeepsLine, NearKept
    <2> QED BY <2>1, <2>2
  <1>4. ASSUME NEW S, End(S) PROVE Goal
    BY <1>4 DEF End
  <1>5. CASE UNCHANGED vars
    BY <1>0, <1>5, NearKept DEF vars, process, InLine
  <1>6. CASE Accept \/ Tick \/ Wake
    BY <1>6, AcceptStep, ClockStep
  <1> QED BY <1>1, <1>2, <1>3, <1>4, <1>5, <1>6
      DEF Next, Start, StoreReceived, Serve, HandlePut, HandleRead, HandleSignout, DropCut, Exit

-----------------------------------------------------------------------------
WatchdogRuns == WF_vars(Wake) /\ WF_vars(Exit) /\ WF_vars(Tick) /\ []WatchdogIsFree
Served(c) == expiring \/ ~(link[c] = "whole")
ServedFrom(c, n) == Spec /\ WatchdogRuns => [](Near(c, n) => <>Served(c))

LEMMA ServedFromNone ==
  ASSUME NEW c \in Clients
  PROVE  ServedFrom(c, 0)
  <1>1. TypeOK /\ NapInv => ~Near(c, 0)
    <2> SUFFICES ASSUME TypeOK, NapInv, Near(c, 0) PROVE FALSE
      OBVIOUS
    <2>1. PICK i \in Nat : i * Span + Slack <= 0
      BY DEF Near
    <2>2. Slack \in Nat /\ 2 <= Slack /\ Span \in Nat
      BY SlackType DEF Near, Waits
    <2>3. i * Span \in Nat
      BY <2>2
    <2>4. PICK x \in Nat : x = i * Span
      BY <2>3
    <2> QED BY <2>1, <2>2, <2>4
  <1> QED BY <1>1, TypeCorrect, NapHolds, PTL DEF ServedFrom

LEMMA ServedFromMore ==
  ASSUME NEW c \in Clients, NEW n \in Nat
  PROVE  ServedFrom(c, n) => ServedFrom(c, n + 1)
  <1> DEFINE k == n + 1
  <1>0. k \in Nat /\ k - 1 = n
    OBVIOUS
  <1> HIDE DEF k
  <1>1. TypeOK /\ NapInv /\ Near(c, k) /\ nap = Nap /\ [Next]_vars
          => (Near(c, k) /\ nap = Nap)' \/ Near(c, n)' \/ Served(c)'
    BY <1>0, NearStep DEF Served
  <1>2. TypeOK /\ NapInv /\ Near(c, k) /\ ~(nap = Nap) /\ [Next]_vars
          => (Near(c, k) /\ ~(nap = Nap))' \/ Near(c, n)' \/ Served(c)'
    BY <1>0, NearStep DEF Served
  <1>3. TypeOK /\ NapInv /\ Near(c, k) /\ <<Tick \/ Wake>>_vars => Near(c, n)' \/ Served(c)'
    BY <1>0, ClockStep DEF Served
  <1>4. TypeOK /\ Near(c, k) /\ WatchdogIsFree
          => /\ nap = Nap => ENABLED <<Wake>>_vars
             /\ ~(nap = Nap) => ENABLED <<Tick>>_vars
    <2>1. TypeOK /\ ~(nap = Nap) => nap < Nap
      BY TicksAssumption DEF TypeOK
    <2> QED BY <2>1 DEF WatchdogIsFree, Near, Waits
  <1>5. ServedFrom(c, n) => ServedFrom(c, k)
    BY <1>1, <1>2, <1>3, <1>4, TypeCorrect, NapHolds, PTL DEF ServedFrom, WatchdogRuns, Spec
  <1> QED BY <1>5 DEF k

LEMMA Induction ==
  \A f : f[0] /\ (\A n \in Nat : f[n] => f[n + 1]) => \A n \in Nat : f[n]
  <1> SUFFICES ASSUME NEW f, f[0], \A n \in Nat : f[n] => f[n + 1],
                      NEW k \in Nat, ~f[k]
               PROVE  FALSE
    OBVIOUS
  <1> DEFINE R == {ss \in Nat \X Nat : ss[1] < ss[2]}
             T == {n \in Nat : ~f[n]}
  <1>1. IsWellFoundedOn(R, Nat)
    BY NatLessThanWellFounded DEF OpToRel
  <1>2. T \subseteq Nat /\ T # {}
    OBVIOUS
  <1> HIDE DEF R, T
  <1>3. PICK x \in T : \A y \in T : ~ (<<y, x>> \in R)
    BY <1>1, <1>2, WFMin
  <1> USE DEF R, T
  <1>4. x \in Nat \ {0} /\ ~f[x]
    BY <1>3
  <1>5. x - 1 \in Nat /\ (x - 1) + 1 = x
    BY <1>4
  <1>6. x - 1 \in T /\ <<x - 1, x>> \in R
    BY <1>4, <1>5
  <1> QED BY <1>3, <1>6

LEMMA ServedFromAny ==
  ASSUME NEW c \in Clients
  PROVE  \A n \in Nat : ServedFrom(c, n)
  <1>1. \E f : \A n \in Nat : f[n] <=> ServedFrom(c, n)
    <2> SUFFICES ASSUME NEW P(_)
                 PROVE  \E f : /\ P(f) <=> P([n \in Nat |-> ServedFrom(c, n)])
                               /\ \A n \in Nat : f[n] <=> ServedFrom(c, n)
      OBVIOUS
    <2> QED BY SMT
  <1>2. PICK f : \A n \in Nat : f[n] <=> ServedFrom(c, n)
    BY <1>1
  <1>3. f[0] /\ \A n \in Nat : f[n] => f[n + 1]
    BY <1>2, ServedFromNone, ServedFromMore
  <1>4. \A n \in Nat : f[n]
    BY <1>3, Induction
  <1> QED BY <1>2, <1>4

LEMMA ExpiringStays ==
  ASSUME expiring, [Next]_vars
  PROVE  expiring'
  BY DEF Next, Start, StoreReceived, Connect, Send, Interrupt, Return, Accept, Serve, HandlePut,
         HandleRead, HandleSignout, DropCut, Finish, Wake, Exit, Tick, process, vars

(* Wherever in the queue it is.                                            *)
LEMMA WaitsIsNear ==
  ASSUME TypeOK, NapInv, LinkInv, NEW c \in Clients, link[c] = "whole"
  PROVE  Served(c) \/ \E n \in Nat : Near(c, n)
  <1> SUFFICES ASSUME ~expiring PROVE \E n \in Nat : Near(c, n)
    BY DEF Served
  <1>1. alive /\ InLine(c, Len(queue)) /\ Len(queue) \in Nat
    BY QueueLength DEF LinkInv
  <1>2. Slack \in Nat /\ Span \in Nat
    BY <1>1, SlackType
  <1>3. Len(queue) * Span + Slack \in Nat
    BY <1>1, <1>2
  <1> QED BY <1>1, <1>3 DEF Near, Waits

(* A request that was sent is answered, or its connection reset, however   *)
(* many commands are in front of it and although none of them need ever    *)
(* send its own: the watchdog sees to it.                                  *)
THEOREM AskedAreAnswered == FairSpec /\ []WatchdogIsFree => AskedIsAnswered
  <1>0. FairSpec /\ []WatchdogIsFree => Spec /\ WatchdogRuns
    BY PTL DEF FairSpec, WatchdogRuns
  <1>1. Spec => []LinkInv
    <2>1. Init => LinkInv
      BY DEF Init, LinkInv
    <2>2. TypeOK /\ LinkInv /\ [Next]_vars => LinkInv'
      BY LinkStep
    <2> QED BY <2>1, <2>2, TypeCorrect, PTL DEF Spec
  <1>2. ASSUME NEW c \in Clients
        PROVE  FairSpec /\ []WatchdogIsFree
                 => ((runs[c] /\ link[c] = "whole") ~> (link[c] # "whole" \/ ~runs[c]))
    <2>1. ASSUME NEW n \in Nat
          PROVE  Spec /\ WatchdogRuns => [](Near(c, n) => <>Served(c))
      BY ServedFromAny DEF ServedFrom
    <2>2. Spec /\ WatchdogRuns => [](\A n \in Nat : Near(c, n) => <>Served(c))
      BY <2>1
    <2>3. (\A n \in Nat : Near(c, n) => <>Served(c)) => ((\E n \in Nat : Near(c, n)) => <>Served(c))
      OBVIOUS
    <2>4. TypeOK /\ NapInv /\ LinkInv /\ link[c] = "whole"
            => Served(c) \/ \E n \in Nat : Near(c, n)
      BY WaitsIsNear
    <2>5. Spec /\ WatchdogRuns => (link[c] = "whole" ~> Served(c))
      BY <1>1, <2>2, <2>3, <2>4, TypeCorrect, NapHolds, PTL
    <2>6. TypeOK /\ expiring /\ [Next]_vars => expiring'
      BY ExpiringStays
    <2>7. <<Exit>>_vars => ~(link[c] = "whole")'
      BY DEF Exit, End
    <2>8. LinkInv /\ WatchdogIsFree /\ expiring /\ link[c] = "whole" => ENABLED <<Exit>>_vars
      BY DEF LinkInv, WatchdogIsFree
    <2>9. Spec /\ WatchdogRuns => (expiring ~> ~(link[c] = "whole"))
      BY <1>1, <2>6, <2>7, <2>8, TypeCorrect, PTL DEF Spec, WatchdogRuns
    <2>10. Served(c) => expiring \/ ~(link[c] = "whole")
      BY DEF Served
    <2>11. ~(link[c] = "whole") => link[c] # "whole" \/ ~runs[c]
      OBVIOUS
    <2> QED BY <1>0, <2>5, <2>9, <2>10, <2>11, PTL
  <1> QED BY <1>2 DEF AskedIsAnswered

=============================================================================
