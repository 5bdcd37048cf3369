----------------------------- MODULE AgentService -----------------------------
(***************************************************************************)
(* One running agent and the commands that use it: Agent::serve and the    *)
(* idle watchdog (src/cli/agent.rs), get, put and the storing half of      *)
(* pair-receive (src/cli/client.rs, src/cli/pairing.rs).                   *)
(*                                                                         *)
(* The agent has one thread that accepts connections in the order of       *)
(* their arrival, reads one request from each and answers it; it waits for *)
(* a request without a timeout.  The watchdog is a second thread that      *)
(* wakes up every Nap ticks and reads the activity clock.                  *)
(*                                                                         *)
(* Abstracted: signing in (AgentLifecycle), the list, status and otp       *)
(* commands (like get without effect), frames that do not parse (like      *)
(* "cut"), and the save of a put, which succeeds or fails in one step      *)
(* (VaultStore).                                                           *)
(***************************************************************************)
EXTENDS Naturals, Sequences

CONSTANTS Clients,  \* terminals that run one command at a time
          Names, Vals, NoVal,
          Nobody,
          Idle,     \* the idle lifetime in ticks
          Nap       \* the watchdog's tick, the lesser of 15 s and Idle

ASSUME SentinelsAssumption == NoVal \notin Vals /\ Nobody \notin Clients
ASSUME TicksAssumption == Idle \in Nat \ {0} /\ Nap \in 1..Idle

VARIABLES alive,    \* the agent process runs
          expiring, \* the watchdog has removed the socket and will exit
          queue,    \* connections the agent has not accepted
          cur,      \* the connection it serves
          link,     \* how much of its request a connection carries
          req,      \* the request of each client
          runs,     \* its command still runs, and waits for the answer
          answer,
          listed,   \* the names pair-receive was told the vault has
          mem, disk,\* the agent's entries and the vault file
          idle, nap \* ticks since the last touch, since the watchdog woke

vars == <<alive, expiring, queue, cur, link, req, runs, answer, listed, mem, disk, idle, nap>>
process == <<alive, expiring, idle, nap>>
store == <<mem, disk>>

(* "refused": a request with another session's token.  pair-receive lists, *)
(* and then stores under the name it was given.                            *)
Commands ==
  [kind : {"get", "refused", "signout"}] \cup [kind : {"put"}, name : Names, val : Vals]
    \cup [kind : {"list"}, name : Names]
Requests == Commands \cup [kind : {"store"}, name : Names, val : Vals]
NoRequest == [kind |-> "none"]

(* link: "partial" the request is not all sent; "whole"; "cut" the client  *)
(* went away before it was.                                                *)
TypeOK ==
  /\ alive \in BOOLEAN /\ expiring \in BOOLEAN
  /\ queue \in Seq(Clients) /\ cur \in Clients \cup {Nobody}
  /\ link \in [Clients -> {"none", "partial", "whole", "cut"}]
  /\ req \in [Clients -> Requests \cup {NoRequest}]
  /\ runs \in [Clients -> BOOLEAN]
  /\ answer \in [Clients -> {"none", "ok", "err"}]
  /\ listed \in [Clients -> SUBSET Names]
  /\ mem \in [Names -> Vals \cup {NoVal}] /\ disk \in [Names -> Vals \cup {NoVal}]
  /\ idle \in 0..(Idle + Nap) /\ nap \in 0..Nap

Init ==
  /\ alive = TRUE /\ expiring = FALSE
  /\ queue = <<>> /\ cur = Nobody
  /\ link = [c \in Clients |-> "none"]
  /\ req = [c \in Clients |-> NoRequest]
  /\ runs = [c \in Clients |-> FALSE]
  /\ answer = [c \in Clients |-> "none"]
  /\ listed = [c \in Clients |-> {}]
  /\ mem \in [Names -> Vals \cup {NoVal}] /\ disk = mem
  /\ idle = 0 /\ nap = 0

Present == {n \in Names : mem[n] # NoVal}
Reachable == alive /\ ~expiring

(* An answer reaches a command that still runs.                            *)
Answer(c, a) == answer' = [answer EXCEPT ![c] = IF runs[c] THEN a ELSE "none"]
Forget(c) == req' = [req EXCEPT ![c] = NoRequest]

-----------------------------------------------------------------------------
Connect(c, r) ==
  /\ Reachable /\ link[c] = "none"
  /\ queue' = Append(queue, c)
  /\ link' = [link EXCEPT ![c] = "partial"]
  /\ req' = [req EXCEPT ![c] = r]
  /\ runs' = [runs EXCEPT ![c] = TRUE]
  /\ answer' = [answer EXCEPT ![c] = "none"]
  /\ UNCHANGED <<process, cur, store>>

Start(c) ==
  /\ ~runs[c]
  /\ \E r \in Commands : Connect(c, r)
  /\ listed' = [listed EXCEPT ![c] = {}]

(* write_msg has written the whole frame.                                  *)
Send(c) ==
  /\ link[c] = "partial"
  /\ link' = [link EXCEPT ![c] = "whole"]
  /\ UNCHANGED <<process, queue, cur, req, runs, answer, listed, store>>

(* The command is interrupted or killed; a request that was all sent stays *)
(* with the agent.                                                         *)
Interrupt(c) ==
  /\ runs[c]
  /\ runs' = [runs EXCEPT ![c] = FALSE]
  /\ link' = [link EXCEPT ![c] = IF link[c] = "partial" THEN "cut" ELSE link[c]]
  /\ answer' = [answer EXCEPT ![c] = "none"] /\ listed' = [listed EXCEPT ![c] = {}]
  /\ IF link[c] = "none" THEN Forget(c) ELSE UNCHANGED req
  /\ UNCHANGED <<process, queue, cur, store>>

(* Mutated: the names that were listed are not looked at.                  *)
StoreUnlisted(c) ==
  /\ runs[c] /\ req[c].kind = "list" /\ answer[c] = "ok"
  /\ \E v \in Vals : Connect(c, [kind |-> "store", name |-> req[c].name, val |-> v])
  /\ UNCHANGED listed

(* store_received puts when its target was not among the names listed.     *)
StoreReceived(c) ==
  /\ runs[c] /\ req[c].kind = "list" /\ answer[c] = "ok"
  /\ req[c].name \notin listed[c]
  /\ \E v \in Vals : Connect(c, [kind |-> "store", name |-> req[c].name, val |-> v])
  /\ UNCHANGED listed

(* Any other answer ends the command, and so does a second connection that *)
(* the agent is not there to accept.                                       *)
Return(c) ==
  /\ runs[c] /\ answer[c] # "none"
  /\ req[c].kind = "list" /\ answer[c] = "ok" => req[c].name \in listed[c] \/ ~Reachable
  /\ runs' = [runs EXCEPT ![c] = FALSE]
  /\ answer' = [answer EXCEPT ![c] = "none"] /\ listed' = [listed EXCEPT ![c] = {}]
  /\ Forget(c)
  /\ UNCHANGED <<process, queue, cur, link, store>>

-----------------------------------------------------------------------------
(* Agent::serve: accept touches the clock.                                 *)
Accept ==
  /\ alive /\ cur = Nobody /\ queue # <<>>
  /\ cur' = Head(queue) /\ queue' = Tail(queue)
  /\ idle' = 0
  /\ UNCHANGED <<alive, expiring, nap, link, req, runs, answer, listed, store>>

(* The connection is answered, or dropped, and the next one accepted.      *)
Finish(c, l) ==
  /\ alive /\ cur = c /\ link[c] = l
  /\ cur' = Nobody
  /\ link' = [link EXCEPT ![c] = "none"]
  /\ IF runs[c] THEN UNCHANGED req ELSE Forget(c)
  /\ UNCHANGED <<process, queue, runs>>

(* Agent::handle of a put: memory changes, and then the save succeeds or   *)
(* fails.                                                                  *)
HandlePut(c) ==
  /\ Finish(c, "whole") /\ req[c].kind \in {"put", "store"}
  /\ mem' = [mem EXCEPT ![req[c].name] = req[c].val]
  /\ \/ disk' = mem' /\ Answer(c, "ok")
     \/ UNCHANGED disk /\ Answer(c, "err")
  /\ UNCHANGED listed

HandleRead(c) ==
  /\ Finish(c, "whole") /\ req[c].kind \in {"get", "list", "refused"}
  /\ Answer(c, IF req[c].kind = "refused" THEN "err" ELSE "ok")
  /\ listed' = [listed EXCEPT ![c] = IF req[c].kind = "list" /\ runs[c] THEN Present ELSE {}]
  /\ UNCHANGED store

DropCut(c) ==
  /\ Finish(c, "cut")
  /\ UNCHANGED <<answer, listed, store>>

(* The process ends: every connection is reset, the one in S after its     *)
(* answer.                                                                 *)
End(S) ==
  /\ alive' = FALSE /\ queue' = <<>> /\ cur' = Nobody
  /\ answer' = [c \in Clients |-> IF ~runs[c] \/ link[c] = "none" THEN answer[c]
                                  ELSE IF c \in S THEN "ok" ELSE "err"]
  /\ link' = [c \in Clients |-> "none"]
  /\ req' = [c \in Clients |-> IF runs[c] THEN req[c] ELSE NoRequest]

(* serve returns, and with it the agent ends.                              *)
HandleSignout(c) ==
  /\ alive /\ cur = c /\ link[c] = "whole" /\ req[c].kind = "signout"
  /\ End({c})
  /\ UNCHANGED <<expiring, runs, listed, store, idle, nap>>

-----------------------------------------------------------------------------
(* Mutated: the agent expires only when it was idle for longer.            *)
WakeLater ==
  /\ alive /\ ~expiring /\ nap = Nap
  /\ nap' = 0 /\ expiring' = (idle > Idle)
  /\ UNCHANGED <<alive, queue, cur, link, req, runs, answer, listed, store, idle>>

(* Mutated: the watchdog waits for the vault, which the thread that serves *)
(* a connection holds.                                                     *)
WakeWhileFree ==
  /\ alive /\ ~expiring /\ nap = Nap /\ cur = Nobody
  /\ nap' = 0 /\ expiring' = (idle >= Idle)
  /\ UNCHANGED <<alive, queue, cur, link, req, runs, answer, listed, store, idle>>

(* The watchdog wakes up and finds the agent idle, or not.                 *)
Wake ==
  /\ alive /\ ~expiring /\ nap = Nap
  /\ nap' = 0 /\ expiring' = (idle >= Idle)
  /\ UNCHANGED <<alive, queue, cur, link, req, runs, answer, listed, store, idle>>

(* process::exit: every connection is reset.  A put the other thread has   *)
(* just saved stays saved.                                                 *)
Exit ==
  /\ alive /\ expiring
  /\ End({})
  /\ \/ UNCHANGED store
     \/ \E c \in Clients :
          /\ cur = c /\ link[c] = "whole" /\ req[c].kind \in {"put", "store"}
          /\ mem' = [mem EXCEPT ![req[c].name] = req[c].val] /\ disk' = mem'
  /\ UNCHANGED <<expiring, runs, listed, idle, nap>>

(* Mutated: the clock stands still while a connection is served.           *)
TickWhileFree ==
  /\ alive /\ nap < Nap
  /\ nap' = nap + 1
  /\ idle' = IF idle < Idle + Nap /\ cur = Nobody THEN idle + 1 ELSE idle
  /\ UNCHANGED <<alive, expiring, queue, cur, link, req, runs, answer, listed, store>>

(* A tick of time; a due watchdog wakes up before the next one.            *)
Tick ==
  /\ alive /\ nap < Nap
  /\ nap' = nap + 1
  /\ idle' = IF idle < Idle + Nap THEN idle + 1 ELSE idle
  /\ UNCHANGED <<alive, expiring, queue, cur, link, req, runs, answer, listed, store>>

Serve(c) == HandlePut(c) \/ HandleRead(c) \/ HandleSignout(c) \/ DropCut(c)

Next ==
  \/ \E c \in Clients : Start(c) \/ Send(c) \/ Interrupt(c) \/ StoreReceived(c) \/ Return(c)
  \/ \E c \in Clients : Serve(c)
  \/ Accept \/ Wake \/ Exit \/ Tick

Spec == Init /\ [][Next]_vars

CommandActs(c) == WF_vars(Serve(c)) /\ WF_vars(Return(c))

(* Both threads of the agent run, time passes, and a command acts on its   *)
(* answer; that a command sends its request, or ends, is not assumed.      *)
FairSpec ==
  /\ Spec
  /\ WF_vars(Accept) /\ WF_vars(Wake) /\ WF_vars(Exit) /\ WF_vars(Tick)
  /\ \A c \in Clients : CommandActs(c)

-----------------------------------------------------------------------------
(* The vault is not unlocked for longer than the idle lifetime and one nap *)
(* of the watchdog after the last connection was accepted.                 *)
NeverIdleForLong == alive /\ ~expiring => idle < Idle + Nap

(* Whatever the other thread waits for, the watchdog goes on: time passes, *)
(* and then it wakes up, and then, if it has to, it ends the process.      *)
WatchdogIsFree ==
  /\ alive /\ nap < Nap => ENABLED <<Tick>>_vars
  /\ alive /\ ~expiring /\ nap = Nap => ENABLED <<Wake>>_vars
  /\ alive /\ expiring => ENABLED <<Exit>>_vars

(* A request that was sent is answered, or its connection reset: a command *)
(* in front that never sends its own stops the agent for at most its idle  *)
(* lifetime.                                                               *)
AskedIsAnswered ==
  \A c \in Clients : (runs[c] /\ link[c] = "whole") ~> (link[c] # "whole" \/ ~runs[c])

(* A received secret replaces none of the secrets the agent listed before. *)
ReceiveKeepsListed ==
  [][\A c \in Clients, n \in Names :
       cur = c /\ cur' # c /\ req[c].kind = "store" /\ n \in listed[c] => mem'[n] = mem[n]]_vars
=============================================================================
