------------------------ MODULE AgentLifecycleProofs ------------------------
(***************************************************************************)
(* Theorems about AgentLifecycle, for any number of shells and agents.     *)
(***************************************************************************)
EXTENDS AgentLifecycle, TLAPS

(* Type correctness.                                                       *)

LEMMA ShellType ==
  ASSUME TypeOK, NEW c \in Shells, ShellRuns(c) \/ User(c), raced' \in BOOLEAN
  PROVE  TypeOK'
  <1> USE NobodyAssumption DEF TypeOK, ShellAt, ShellPlaces, Starting, AgentPlaces
  <1>1. CASE SigninCheck(c)
    BY <1>1 DEF SigninCheck
  <1>2. CASE SigninSpawn(c)
    BY <1>2 DEF SigninSpawn, AgentAt
  <1>3. CASE SigninHandshake(c)
    BY <1>3 DEF SigninHandshake
  <1>4. CASE SigninDone(c)
    BY <1>4 DEF SigninDone
  <1>5. CASE SignoutSend(c)
    BY <1>5 DEF SignoutSend, CanConnect
  <1>6. CASE SignoutReset(c)
    BY <1>6 DEF SignoutReset, Hangup
  <1>7. CASE Interrupt(c)
    BY <1>7 DEF Interrupt
  <1> QED BY <1>1, <1>2, <1>3, <1>4, <1>5, <1>6, <1>7 DEF ShellRuns, User

LEMMA AgentType ==
  ASSUME TypeOK, NEW a \in Agents, AgentRuns(a) \/ Expire(a) \/ Kill(a),
         raced' \in BOOLEAN
  PROVE  TypeOK'
  <1> USE DEF TypeOK, AgentAt, ShellPlaces, Starting, AgentPlaces
  <1>1. CASE ReadHandshake(a) \/ OpenVault(a) \/ Refuse(a) \/ Probe(a)
    BY <1>1 DEF ReadHandshake, OpenVault, Refuse, Probe
  <1>2. CASE ClearPath(a) \/ Announce(a) \/ Bind(a)
    BY <1>2 DEF ClearPath, Announce, Bind
  <1>3. ASSUME NEW c \in Shells, HandleSignout(a, c) PROVE TypeOK'
    BY <1>3 DEF HandleSignout, Hangup
  <1>4. CASE LockVault(a) \/ RemoveNode(a) \/ Expire(a) \/ ExitProcess(a)
    BY <1>4 DEF LockVault, RemoveNode, Expire, ExitProcess
  <1>5. CASE Kill(a)
    BY <1>5 DEF Kill
  <1> QED BY <1>1, <1>2, <1>3, <1>4, <1>5 DEF AgentRuns

(* Every variable keeps its type, however commands and agents interleave,  *)
(* are interrupted or killed; a token is always one an agent has minted.   *)
THEOREM TypeCorrect == Spec => []TypeOK
  <1>1. Init => TypeOK
    BY ZenonT(40) DEF Init, TypeOK, ShellPlaces, Starting, AgentPlaces
  <1>2. TypeOK /\ Next => TypeOK'
    <2> SUFFICES ASSUME TypeOK, Next PROVE TypeOK'
      OBVIOUS
    <2>1. raced' \in BOOLEAN
      BY DEF Next, TypeOK
    <2> QED BY <2>1, ShellType, AgentType DEF Next, Step
  <1>3. TypeOK /\ UNCHANGED vars => TypeOK'
    BY DEF TypeOK, vars, system
  <1> QED BY <1>1, <1>2, <1>3, PTL DEF Spec

-----------------------------------------------------------------------------
(* Until two agents start or clear up at once, a serving agent is at the   *)
(* path; while another one has found the path dead and until it has bound, *)
(* or is about to remove the node, nobody serves.                          *)

Serving(a) == ag[a] \in {"serve", "lock"}
Claiming(a) == ag[a] \in {"clear", "announce", "bind", "unlink"}

SInv ==
  /\ TypeOK
  /\ OneStarts
  /\ \A a \in Agents : Serving(a) => sock = a
  /\ \A a, b \in Agents : Claiming(a) => ~Serving(b)
  /\ \A a \in Agents : ag[a] \in {"announce", "bind"} => sock = Nobody

LEMMA ShellKeeps ==
  ASSUME SInv, NEW c \in Shells, ShellRuns(c) \/ User(c), TypeOK', OneStarts'
  PROVE  SInv'
  <1>1. CASE SigninSpawn(c)
    BY <1>1 DEF SInv, TypeOK, Serving, Claiming, SigninSpawn, AgentAt
  <1>2. CASE ~SigninSpawn(c)
    <2>1. UNCHANGED <<ag, sock>>
      BY <1>2 DEF ShellRuns, User, SigninCheck, SigninHandshake, SigninDone, SignoutSend,
        SignoutReset, Interrupt
    <2> QED BY <2>1 DEF SInv, Serving, Claiming
  <1> QED BY <1>1, <1>2

LEMMA AgentKeeps ==
  ASSUME SInv, NEW a \in Agents, AgentRuns(a) \/ Expire(a) \/ Kill(a), TypeOK', OneStarts'
  PROVE  SInv'
  <1> USE NobodyAssumption DEF SInv, TypeOK, Serving, Claiming, AgentAt
  <1>1. CASE ReadHandshake(a) \/ OpenVault(a) \/ Refuse(a)
    BY <1>1 DEF ReadHandshake, OpenVault, Refuse
  <1>2. CASE Probe(a)
    BY <1>2 DEF Probe, CanConnect, Listening
  <1>3. CASE ClearPath(a)
    BY <1>3 DEF ClearPath, OneStarts, Starting
  <1>4. CASE Announce(a)
    BY <1>4 DEF Announce
  <1>5. CASE Bind(a)
    BY <1>5 DEF Bind, OneStarts, Starting
  <1>6. ASSUME NEW c \in Shells, HandleSignout(a, c) PROVE SInv'
    BY <1>6 DEF HandleSignout
  <1>7. CASE LockVault(a)
    BY <1>7 DEF LockVault
  <1>8. CASE RemoveNode(a) \/ Expire(a) \/ ExitProcess(a)
    BY <1>8 DEF RemoveNode, Expire, ExitProcess
  <1>9. CASE Kill(a)
    BY <1>9 DEF Kill
  <1> QED BY <1>1, <1>2, <1>3, <1>4, <1>5, <1>6, <1>7, <1>8, <1>9 DEF AgentRuns

(* What holds until the first race.                                        *)
Until == TypeOK /\ (raced \/ SInv)

LEMMA UntilInductive == Spec => []Until
  <1>1. Init => Until
    BY ZenonT(40) DEF Init, Until, SInv, TypeOK, ShellPlaces, AgentPlaces, Starting, OneStarts, Serving,
      Claiming
  <1>2. Until /\ Next /\ TypeOK' => Until'
    <2> SUFFICES ASSUME Until, Next, TypeOK', ~raced' PROVE SInv'
      BY DEF Until
    <2>1. SInv /\ OneStarts'
      BY DEF Until, Next, TypeOK
    <2> QED BY <2>1, ShellKeeps, AgentKeeps DEF Next, Step
  <1>3. Until /\ UNCHANGED vars => Until'
    BY DEF Until, SInv, TypeOK, OneStarts, Serving, Claiming, vars, system
  <1> QED BY <1>1, <1>2, <1>3, TypeCorrect, PTL DEF Spec

(* As long as agents have started and cleared up one at a time, an agent   *)
(* that serves is the one at the socket path: whoever holds its token can  *)
(* reach it and sign it out.                                               *)
THEOREM ServingAgentIsReachable == Spec => []SerialAgentKeepsPath
  <1>1. Until => SerialAgentKeepsPath
    BY DEF Until, SInv, Serving, SerialAgentKeepsPath, LiveAgentKeepsPath
  <1> QED BY <1>1, UntilInductive, PTL

(* For as long, the bind after READY finds the path free, so the panic of  *)
(* open_listener does not happen.                                          *)
THEOREM AnnouncedAgentBinds == Spec => []SerialBindFindsPathFree
  <1>1. Until => SerialBindFindsPathFree
    BY DEF Until, SInv, SerialBindFindsPathFree
  <1> QED BY <1>1, UntilInductive, PTL

-----------------------------------------------------------------------------
(* Liveness.  tlapm cannot look into ENABLED, so that the guards let the   *)
(* processes run, ProcessesMove, is a hypothesis (and an invariant TLC     *)
(* checks).                                                                *)

(* A signin listens to an agent of its own, which was started; an agent    *)
(* past READY has said so; a signout asks an agent that has served.        *)
ShellInv(c) ==
  /\ shell[c] \in {"write", "read"} => child[c] \in Agents
  /\ child[c] # Nobody => shell[c] \in {"write", "read"} /\ ag[child[c]] # "off"
  /\ \A d \in Shells : child[d] = child[c] /\ child[c] # Nobody => d = c
  /\ shell[c] = "ask" => conn[c] # Nobody
  /\ conn[c] # Nobody => ag[conn[c].to] \in {"serve", "lock", "unlink", "expire", "dead"}

AgentInv(a) == ag[a] \in {"bind", "serve", "lock", "unlink", "expire"} => out[a] # "none"

PInv ==
  /\ TypeOK
  /\ \A c \in Shells : ShellInv(c)
  /\ \A a \in Agents : AgentInv(a)

(* What a step of any process may do to the agent a.                       *)
Onward(a) ==
  /\ ag[a] = "off" => ag'[a] \in {"off", "stdin"}
  /\ ag[a] = "stdin" => ag'[a] \in {"stdin", "open", "dead"}
  /\ ag[a] = "open" => ag'[a] \in {"open", "probe", "dead"}
  /\ ag[a] = "probe" => ag'[a] \in {"probe", "clear", "dead"}
  /\ ag[a] = "clear" => ag'[a] \in {"clear", "announce", "dead"}
  /\ ag[a] = "announce" => ag'[a] \in {"announce", "bind", "dead"}
  /\ ag[a] = "bind" => ag'[a] \in {"bind", "serve", "dead"}
  /\ ag[a] = "serve" => ag'[a] \in {"serve", "lock", "expire", "dead"}
  /\ ag[a] = "lock" => ag'[a] \in {"lock", "unlink", "dead"}
  /\ ag[a] = "unlink" => ag'[a] \in {"unlink", "dead"}
  /\ ag[a] = "expire" => ag'[a] \in {"expire", "dead"}
  /\ ag[a] = "dead" => ag'[a] = "dead"
  /\ ~(out[a] = "none") => ~(out'[a] = "none")
  /\ ag'[a] \in {"bind", "serve", "lock", "unlink", "expire"} /\ ag[a] \in Starting
       => ag[a] = "bind" \/ ~(out'[a] = "none")

(* What a step of the agent a does to it.                                  *)
Forward(a) ==
  /\ ag[a] = "stdin" => ag'[a] = "open"
  /\ ag[a] = "open" => ag'[a] \in {"probe", "dead"}
  /\ ag[a] = "probe" => ag'[a] \in {"clear", "dead"}
  /\ ag[a] = "clear" => ag'[a] = "announce"
  /\ ag[a] = "announce" => ag'[a] \in {"bind", "dead"}
  /\ ag[a] = "bind" => ag'[a] \in {"serve", "dead"}
  /\ ag[a] = "lock" => ag'[a] = "unlink"
  /\ ag[a] = "unlink" => ag'[a] = "dead"
  /\ ag[a] = "expire" => ag'[a] = "dead"

LEMMA AgentForward ==
  ASSUME TypeOK, NEW a \in Agents, AgentRuns(a)
  PROVE  Forward(a)
  <1> USE DEF TypeOK, AgentAt, Forward
  <1>1. CASE ReadHandshake(a) \/ OpenVault(a) \/ Refuse(a) \/ Probe(a)
    BY <1>1 DEF ReadHandshake, OpenVault, Refuse, Probe
  <1>2. CASE ClearPath(a) \/ Announce(a) \/ Bind(a)
    BY <1>2 DEF ClearPath, Announce, Bind
  <1>3. CASE LockVault(a) \/ RemoveNode(a) \/ ExitProcess(a) \/ \E c \in Shells : HandleSignout(a, c)
    BY <1>3 DEF LockVault, RemoveNode, ExitProcess, HandleSignout
  <1> QED BY <1>1, <1>2, <1>3 DEF AgentRuns

LEMMA AgentOnward ==
  ASSUME TypeOK, NEW b \in Agents, AgentRuns(b) \/ Expire(b) \/ Kill(b), NEW a \in Agents
  PROVE  Onward(a)
  <1> USE DEF TypeOK, AgentAt, Onward, Starting
  <1>1. CASE a # b
    <2>1. ag'[a] = ag[a] /\ out'[a] = out[a]
      BY <1>1 DEF AgentRuns, ReadHandshake, OpenVault, Refuse, Probe, ClearPath, Announce, Bind,
        LockVault, RemoveNode, ExitProcess, HandleSignout, Expire, Kill
    <2> QED BY <2>1
  <1>2. CASE a = b
    <2>1. CASE ReadHandshake(a) \/ OpenVault(a) \/ Refuse(a) \/ Probe(a)
      BY <2>1 DEF ReadHandshake, OpenVault, Refuse, Probe
    <2>2. CASE ClearPath(a) \/ Announce(a) \/ Bind(a)
      BY <2>2 DEF ClearPath, Announce, Bind
    <2>3. CASE LockVault(a) \/ RemoveNode(a) \/ ExitProcess(a) \/ Expire(a) \/ Kill(a)
      BY <2>3 DEF LockVault, RemoveNode, ExitProcess, Expire, Kill
    <2>4. ASSUME NEW c \in Shells, HandleSignout(a, c) PROVE Onward(a)
      BY <2>4 DEF HandleSignout
    <2> QED BY <1>2, <2>1, <2>2, <2>3, <2>4 DEF AgentRuns
  <1> QED BY <1>1, <1>2

LEMMA ShellOnward ==
  ASSUME TypeOK, NEW c \in Shells, ShellRuns(c) \/ User(c), NEW a \in Agents
  PROVE  Onward(a)
  <1> USE DEF TypeOK, AgentAt, Onward, Starting
  <1>1. CASE SigninSpawn(c)
    BY <1>1 DEF SigninSpawn
  <1>2. CASE ~SigninSpawn(c)
    <2>1. ag' = ag /\ out' = out
      BY <1>2 DEF ShellRuns, User, SigninCheck, SigninHandshake, SigninDone, SignoutSend,
        SignoutReset, Interrupt
    <2> QED BY <2>1
  <1> QED BY <1>1, <1>2

LEMMA AlwaysOnward ==
  ASSUME TypeOK, [Next]_vars, NEW a \in Agents
  PROVE  Onward(a)
  <1>1. CASE UNCHANGED vars
    BY <1>1 DEF vars, system, Onward, Starting
  <1> QED BY <1>1, AgentOnward, ShellOnward DEF Next, Step

LEMMA AgentKeepsShells ==
  ASSUME PInv, NEW b \in Agents, AgentRuns(b) \/ Expire(b) \/ Kill(b), NEW c \in Shells
  PROVE  ShellInv(c)'
  <1>1. \A a \in Agents : Onward(a)
    BY AgentOnward DEF PInv
  <1>2. child' = child
    BY DEF AgentRuns, ReadHandshake, OpenVault, Refuse, Probe, ClearPath, Announce, Bind,
      LockVault, RemoveNode, ExitProcess, HandleSignout, Expire, Kill
  <1>3. \/ shell'[c] = shell[c] /\ conn'[c] = conn[c]
        \/ conn'[c] = Nobody /\ shell'[c] = (IF shell[c] = "ask" THEN "idle" ELSE shell[c])
    BY DEF PInv, TypeOK, Hangup,
      AgentRuns, ReadHandshake, OpenVault, Refuse, Probe, ClearPath, Announce, Bind,
      LockVault, RemoveNode, ExitProcess, HandleSignout, Expire, Kill
  <1>4. /\ conn[c] # Nobody => conn[c].to \in Agents
        /\ child[c] # Nobody => child[c] \in Agents
    BY DEF PInv, TypeOK
  <1>5. \A a \in Agents : /\ ag[a] # "off" => ag'[a] # "off"
                          /\ ag[a] \in {"serve", "lock", "unlink", "expire", "dead"}
                               => ag'[a] \in {"serve", "lock", "unlink", "expire", "dead"}
    BY <1>1 DEF Onward, PInv, TypeOK, AgentPlaces, Starting
  <1> QED BY <1>2, <1>3, <1>4, <1>5 DEF PInv, ShellInv

LEMMA ShellKeepsShells ==
  ASSUME PInv, NEW d \in Shells, ShellRuns(d) \/ User(d), NEW c \in Shells
  PROVE  ShellInv(c)'
  <1> USE NobodyAssumption DEF PInv, ShellInv, TypeOK, ShellAt
  <1>1. CASE SigninSpawn(d)
    <2>1. PICK a \in Agents : AgentAt(a, "off", "stdin") /\ child' = [child EXCEPT ![d] = a]
      BY <1>1 DEF SigninSpawn
    <2>2. /\ shell[d] = "prompt" /\ shell' = [shell EXCEPT ![d] = "write"] /\ conn' = conn
          /\ ag[a] = "off" /\ ag' = [ag EXCEPT ![a] = "stdin"]
      BY <1>1, <2>1 DEF SigninSpawn, AgentAt
    <2> QED BY <2>1, <2>2
  <1>2. CASE SigninCheck(d) \/ SigninHandshake(d) \/ SigninDone(d)
    BY <1>2 DEF SigninCheck, SigninHandshake, SigninDone
  <1>3. CASE SignoutSend(d)
    <2>1. /\ shell[d] = "idle" /\ shell' = [shell EXCEPT ![d] = "ask"]
          /\ sock \in Agents /\ ag[sock] \in {"serve", "lock", "expire"}
          /\ child' = child /\ ag' = ag
      BY <1>3 DEF SignoutSend, CanConnect, Listening
    <2>2. PICK k \in [to : Agents, tok : Agents] : k.to = sock /\ conn' = [conn EXCEPT ![d] = k]
      <3>1. token[d] \in Agents
        BY <1>3 DEF SignoutSend
      <3>2. [to |-> sock, tok |-> token[d]] \in [to : Agents, tok : Agents]
        BY <2>1, <3>1
      <3>3. conn' = [conn EXCEPT ![d] = [to |-> sock, tok |-> token[d]]]
        BY <1>3 DEF SignoutSend
      <3>4. [to |-> sock, tok |-> token[d]].to = sock
        OBVIOUS
      <3> HIDE DEF PInv, TypeOK, ShellInv
      <3> QED BY <3>2, <3>3, <3>4, Zenon
    <2>3. /\ conn'[c] # Nobody => ag'[conn'[c].to] \in {"serve", "lock", "unlink", "expire", "dead"}
          /\ shell'[c] = "ask" => conn'[c] # Nobody
      <3>1. CASE c = d
        <4>1. k # Nobody
          BY <2>2
        <4> QED BY <2>1, <2>2, <3>1, <4>1
      <3>2. CASE c # d
        BY <2>1, <2>2, <3>2
      <3> QED BY <3>1, <3>2
    <2> QED BY <2>1, <2>3
  <1>4. CASE SignoutReset(d) \/ Interrupt(d)
    BY <1>4 DEF SignoutReset, Hangup, Interrupt
  <1> QED BY <1>1, <1>2, <1>3, <1>4 DEF ShellRuns, User

LEMMA PInvHolds == Spec => []PInv
  <1>1. Init => PInv
    <2> SUFFICES ASSUME Init PROVE PInv
      OBVIOUS
    <2>1. TypeOK
      BY ZenonT(40) DEF Init, TypeOK, ShellPlaces, Starting, AgentPlaces
    <2> QED BY <2>1 DEF Init, PInv, ShellInv, AgentInv
  <1>2. PInv /\ [Next]_vars /\ TypeOK' => PInv'
    <2> SUFFICES ASSUME PInv, [Next]_vars, TypeOK' PROVE PInv'
      OBVIOUS
    <2>1. ASSUME NEW a \in Agents PROVE AgentInv(a)'
      BY AlwaysOnward DEF PInv, AgentInv, Onward, TypeOK, AgentPlaces, Starting
    <2>2. ASSUME NEW c \in Shells PROVE ShellInv(c)'
      <3>1. CASE UNCHANGED vars
        BY <3>1 DEF vars, system, PInv, ShellInv
      <3> QED BY <3>1, AgentKeepsShells, ShellKeepsShells DEF Next, Step
    <2> QED BY <2>1, <2>2 DEF PInv
  <1> QED BY <1>1, <1>2, TypeCorrect, PTL DEF Spec

-----------------------------------------------------------------------------
(* What a step of any process may do to the command of a shell: it goes on *)
(* to the next place of its command, or is interrupted.                    *)
Along(c) ==
  /\ shell[c] = "write" => /\ shell'[c] \in {"write", "read", "idle"}
                           /\ shell'[c] = "idle" \/ child'[c] = child[c]
  /\ shell[c] = "read" => /\ shell'[c] \in {"read", "idle"}
                          /\ shell'[c] = "idle" \/ child'[c] = child[c]
  /\ shell[c] = "ask" => /\ shell'[c] \in {"ask", "idle"}
                         /\ shell'[c] = "idle" \/ conn'[c] = conn[c]
  /\ ~(shell[c] = "idle") /\ conn[c] = Nobody => conn'[c] = Nobody

LEMMA AlwaysAlong ==
  ASSUME PInv, [Next]_vars, NEW c \in Shells
  PROVE  Along(c)
  <1> USE DEF PInv, TypeOK, Along, ShellAt
  <1>1. CASE UNCHANGED vars
    BY <1>1 DEF vars, system
  <1>2. ASSUME NEW b \in Agents, AgentRuns(b) \/ Expire(b) \/ Kill(b)
        PROVE  Along(c)
    <2>1. child' = child
      BY <1>2 DEF AgentRuns, ReadHandshake, OpenVault, Refuse, Probe, ClearPath, Announce, Bind,
        LockVault, RemoveNode, ExitProcess, HandleSignout, Expire, Kill
    <2>2. \/ shell'[c] = shell[c] /\ conn'[c] = conn[c]
          \/ conn'[c] = Nobody /\ shell'[c] = (IF shell[c] = "ask" THEN "idle" ELSE shell[c])
      BY <1>2 DEF Hangup,
        AgentRuns, ReadHandshake, OpenVault, Refuse, Probe, ClearPath, Announce, Bind,
        LockVault, RemoveNode, ExitProcess, HandleSignout, Expire, Kill
    <2> QED BY <2>1, <2>2
  <1>3. ASSUME NEW d \in Shells, ShellRuns(d) \/ User(d)
        PROVE  Along(c)
    <2>1. CASE SigninCheck(d) \/ SigninHandshake(d) \/ SigninDone(d) \/ SigninSpawn(d)
      BY <2>1 DEF SigninCheck, SigninHandshake, SigninDone, SigninSpawn
    <2>2. CASE SignoutSend(d) \/ SignoutReset(d) \/ Interrupt(d)
      BY <2>2 DEF SignoutSend, SignoutReset, Hangup, Interrupt
    <2> QED BY <1>3, <2>1, <2>2 DEF ShellRuns, User
  <1> QED BY <1>1, <1>2, <1>3 DEF Next, Step

(* What a step of the command itself does; a request that an earlier       *)
(* command of this shell has left behind may be hung up first.             *)
LEMMA ShellForward ==
  ASSUME PInv, NEW c \in Shells, ShellRuns(c)
  PROVE  /\ shell[c] = "write" => shell'[c] = "read" \/ (~(conn[c] = Nobody) /\ conn'[c] = Nobody)
         /\ shell[c] = "read" => shell'[c] = "idle" \/ (~(conn[c] = Nobody) /\ conn'[c] = Nobody)
         /\ shell[c] = "ask" => shell'[c] = "idle"
  BY DEF PInv, TypeOK, ShellRuns, SigninHandshake, SigninDone, SignoutReset, Hangup, ShellAt

-----------------------------------------------------------------------------
Runs == Spec /\ []ProcessesMove

LEMMA ShellEnabled ==
  ASSUME PInv, ProcessesMove, NEW c \in Shells, NEW a \in Agents
  PROVE  /\ shell[c] = "write" => ENABLED <<ShellRuns(c)>>_system
         /\ shell[c] = "read" /\ child[c] = a /\ (~(out[a] = "none") \/ ag[a] = "dead")
              => ENABLED <<ShellRuns(c)>>_system
         /\ shell[c] = "ask" /\ conn[c].to = a /\ (ag[a] = "unlink" \/ ag[a] = "dead")
              => ENABLED <<ShellRuns(c)>>_system
         /\ shell[c] = "ask" /\ conn[c].to = a /\ ag[a] = "serve"
              => ENABLED <<HandleSignout(a, c)>>_system
  <1>1. ShellMoves(c) /\ RequestMoves(a, c)
    BY DEF ProcessesMove
  <1>2. shell[c] = "ask" => conn[c] # Nobody
    BY DEF PInv, ShellInv
  <1>3. ag[a] = "unlink" \/ ag[a] = "dead" => ~Listening(a)
    BY DEF Listening
  <1> QED BY <1>1, <1>2, <1>3 DEF ShellMoves, RequestMoves

LEMMA AgentEnabled ==
  ASSUME PInv, ProcessesMove, NEW a \in Agents
  PROVE  /\ ag[a] = "stdin" /\ ~ParentIn(a, "write") => ENABLED <<AgentRuns(a)>>_system
         /\ ag[a] \in {"open", "probe", "clear", "announce", "bind", "lock", "unlink", "expire"}
              => ENABLED <<AgentRuns(a)>>_system
         /\ ag[a] = "serve" /\ Quiet(a) => ENABLED <<Quiet(a) /\ Expire(a)>>_system
  <1>1. AgentMoves(a)
    BY DEF ProcessesMove
  <1> QED BY <1>1 DEF AgentMoves, Starting

(* Nobody becomes the parent of an agent that was started.                 *)
LEMMA ChildKept ==
  ASSUME PInv, [Next]_vars, NEW a \in Agents, ag[a] # "off", NEW d \in Shells, child'[d] = a
  PROVE  child[d] = a
  <1> USE NobodyAssumption DEF PInv, TypeOK
  <1>1. ASSUME NEW b \in Agents, AgentRuns(b) \/ Expire(b) \/ Kill(b)
        PROVE  child' = child
    BY <1>1 DEF AgentRuns, ReadHandshake, OpenVault, Refuse, Probe, ClearPath, Announce, Bind,
      LockVault, RemoveNode, ExitProcess, HandleSignout, Expire, Kill
  <1>2. ASSUME NEW c \in Shells, ShellRuns(c) \/ User(c)
        PROVE  child[d] = a
    BY <1>2 DEF ShellRuns, User, SigninCheck, SigninSpawn, SigninHandshake, SigninDone, SignoutSend,
      SignoutReset, Interrupt, AgentAt
  <1> QED BY <1>1, <1>2 DEF Next, Step, vars, system

(* The parent that holds an agent's stdin is the only one, and gives it    *)
(* way; later it is nobody's.                                              *)
LEMMA ParentGivesWay ==
  ASSUME PInv, NEW c \in Shells, NEW a \in Agents, child[c] = a
  PROVE  /\ shell[c] = "read" => ~ParentIn(a, "write")
         /\ shell[c] = "write" /\ ShellRuns(c)
              => ~ParentIn(a, "write")' \/ (~(conn[c] = Nobody) /\ conn'[c] = Nobody)
         /\ shell[c] = "write" /\ [Next]_vars
              => ~ParentIn(a, "write")' \/ (shell'[c] = "write" /\ child'[c] = a)
  <1>1. \A d \in Shells : child[d] = a => d = c
    BY NobodyAssumption DEF PInv, ShellInv
  <1>2. shell[c] = "write" => ag[a] # "off"
    BY NobodyAssumption DEF PInv, ShellInv
  <1>3. shell[c] = "write" /\ [Next]_vars => \A d \in Shells : child'[d] = a => d = c
    BY <1>1, <1>2, ChildKept
  <1>4. shell[c] = "write" /\ [Next]_vars
          => shell'[c] \in {"write", "read", "idle"} /\ (shell'[c] = "idle" \/ child'[c] = child[c])
    BY AlwaysAlong DEF Along
  <1>5. ASSUME shell[c] = "write", ShellRuns(c)
        PROVE  ~ParentIn(a, "write")' \/ (~(conn[c] = Nobody) /\ conn'[c] = Nobody)
    <2>1. shell'[c] = "read" \/ (~(conn[c] = Nobody) /\ conn'[c] = Nobody)
      BY <1>5, ShellForward
    <2>2. \A d \in Shells : child'[d] = a => d = c
      BY <1>1, <1>5, NobodyAssumption
      DEF ShellRuns, SigninHandshake, SigninDone, SignoutReset, PInv, TypeOK
    <2> QED BY <2>1, <2>2 DEF ParentIn
  <1>6. shell[c] = "read" => ~ParentIn(a, "write")
    BY <1>1 DEF ParentIn
  <1> QED BY <1>3, <1>4, <1>5, <1>6 DEF ParentIn

LEMMA OrphanStays ==
  ASSUME PInv, [Next]_vars, NEW a \in Agents, ag[a] # "off", ~ParentIn(a, "write")
  PROVE  ~ParentIn(a, "write")'
  <1> SUFFICES ASSUME NEW d \in Shells, child'[d] = a, shell'[d] = "write"
               PROVE  child[d] = a /\ shell[d] = "write"
    BY DEF ParentIn
  <1>1. child[d] = a
    BY ChildKept
  <1>2. shell[d] \in {"write", "read"}
    BY <1>1, NobodyAssumption DEF PInv, ShellInv
  <1>3. shell[d] = "read" => shell'[d] # "write"
    BY AlwaysAlong DEF Along
  <1> QED BY <1>1, <1>2, <1>3

-----------------------------------------------------------------------------
(* An agent that its parent listens to says READY, or dies.                *)
Heard(a) == ~(out[a] = "none") \/ ag[a] = "dead"
Listens(c, a) == shell[c] = "read" /\ child[c] = a

LEMMA HeardStays ==
  ASSUME PInv, [Next]_vars, NEW a \in Agents, Heard(a)
  PROVE  Heard(a)'
  BY AlwaysOnward DEF Heard, Onward, PInv

(* The places of an agent that has not been heard.                         *)
LEMMA UnheardPlaces ==
  ASSUME PInv, NEW a \in Agents, NEW c \in Shells, Listens(c, a)
  PROVE  \/ Heard(a)
         \/ ag[a] = "stdin" \/ ag[a] = "open" \/ ag[a] = "probe" \/ ag[a] = "clear"
         \/ ag[a] = "announce"
  <1>1. ag[a] # "off"
    BY NobodyAssumption DEF PInv, ShellInv, Listens
  <1> QED BY <1>1 DEF PInv, AgentInv, Heard, TypeOK, AgentPlaces, Starting

LEMMA ListensStays ==
  ASSUME PInv, [Next]_vars, NEW a \in Agents, NEW c \in Shells, Listens(c, a)
  PROVE  Listens(c, a)' \/ shell'[c] = "idle"
  BY AlwaysAlong DEF Along, Listens

LEMMA AgentIsHeard ==
  ASSUME NEW c \in Shells, NEW a \in Agents
  PROVE  Runs /\ AgentIsFair(a) => (Listens(c, a) ~> shell[c] = "idle" \/ (Listens(c, a) /\ Heard(a)))
  <1>1. PInv /\ Listens(c, a) /\ [Next]_vars => Listens(c, a)' \/ (shell[c] = "idle")'
    BY ListensStays
  <1>2. PInv /\ Heard(a) /\ [Next]_vars => Heard(a)'
    BY HeardStays
  <1>3. PInv /\ Listens(c, a)
          => Heard(a) \/ ag[a] = "stdin" \/ ag[a] = "open" \/ ag[a] = "probe" \/ ag[a] = "clear"
             \/ ag[a] = "announce"
    BY UnheardPlaces
  <1>4. PInv /\ [Next]_vars
          => /\ ag[a] = "stdin" => (ag[a] = "stdin")' \/ (ag[a] = "open")' \/ Heard(a)'
             /\ ag[a] = "open" => (ag[a] = "open")' \/ (ag[a] = "probe")' \/ Heard(a)'
             /\ ag[a] = "probe" => (ag[a] = "probe")' \/ (ag[a] = "clear")' \/ Heard(a)'
             /\ ag[a] = "clear" => (ag[a] = "clear")' \/ (ag[a] = "announce")' \/ Heard(a)'
             /\ ag[a] = "announce" => (ag[a] = "announce")' \/ Heard(a)'
    BY AlwaysOnward DEF Onward, Heard, PInv, Starting
  <1>5. PInv /\ <<AgentRuns(a)>>_system
          => /\ ag[a] = "stdin" => (ag[a] = "open")'
             /\ ag[a] = "open" => (ag[a] = "probe")' \/ Heard(a)'
             /\ ag[a] = "probe" => (ag[a] = "clear")' \/ Heard(a)'
             /\ ag[a] = "clear" => (ag[a] = "announce")'
             /\ ag[a] = "announce" => ~(ag[a] = "announce")'
    BY AgentForward DEF Forward, Heard, PInv
  <1>6. PInv /\ ProcessesMove /\ Listens(c, a)
          => /\ ag[a] = "stdin" => ENABLED <<AgentRuns(a)>>_system
             /\ ag[a] = "open" => ENABLED <<AgentRuns(a)>>_system
             /\ ag[a] = "probe" => ENABLED <<AgentRuns(a)>>_system
             /\ ag[a] = "clear" => ENABLED <<AgentRuns(a)>>_system
             /\ ag[a] = "announce" => ENABLED <<AgentRuns(a)>>_system
    BY AgentEnabled, ParentGivesWay DEF Listens
  <1> DEFINE G == shell[c] = "idle" \/ (Listens(c, a) /\ Heard(a))
             H == Spec /\ []PInv /\ []ProcessesMove /\ WF_system(AgentRuns(a))
  <1>7. H => (Listens(c, a) /\ ag[a] = "announce" ~> G)
    BY <1>1, <1>4, <1>5, <1>6, PTL DEF Spec
  <1>8. H => (Listens(c, a) /\ ag[a] = "clear" ~> G \/ (Listens(c, a) /\ ag[a] = "announce"))
    BY <1>1, <1>4, <1>5, <1>6, PTL DEF Spec
  <1>9. H => (Listens(c, a) /\ ag[a] = "probe" ~> G \/ (Listens(c, a) /\ ag[a] = "clear"))
    BY <1>1, <1>4, <1>5, <1>6, PTL DEF Spec
  <1>10. H => (Listens(c, a) /\ ag[a] = "open" ~> G \/ (Listens(c, a) /\ ag[a] = "probe"))
    BY <1>1, <1>4, <1>5, <1>6, PTL DEF Spec
  <1>11. H => (Listens(c, a) /\ ag[a] = "stdin" ~> G \/ (Listens(c, a) /\ ag[a] = "open"))
    BY <1>1, <1>4, <1>5, <1>6, PTL DEF Spec
  <1> HIDE DEF G
  <1>12. H => (Listens(c, a) ~> G)
    BY <1>3, <1>7, <1>8, <1>9, <1>10, <1>11, PTL DEF G
  <1> QED BY <1>12, PInvHolds, PTL DEF Runs, AgentIsFair, G

(* A signin that has spawned its agent comes back to the user, whatever    *)
(* the agent finds, and whichever of the two dies or is interrupted.       *)
THEOREM SigninsReturn == FairSpec /\ []ProcessesMove => SigninReturns
  <1>1. ASSUME NEW c \in Shells
        PROVE  FairSpec /\ []ProcessesMove => (shell[c] \in {"write", "read"} ~> shell[c] = "idle")
    <2> DEFINE H == Runs /\ []PInv /\ ShellIsFair(c)
    <2>1. PInv /\ ~(shell[c] = "idle") /\ conn[c] = Nobody /\ [Next]_vars => (conn[c] = Nobody)'
      BY AlwaysAlong DEF Along
    <2>2. PInv /\ shell[c] = "write" /\ [Next]_vars
            => (shell[c] = "write")' \/ (shell[c] = "read")' \/ (shell[c] = "idle")'
      BY AlwaysAlong DEF Along
    <2>3. PInv /\ shell[c] = "write" /\ <<ShellRuns(c)>>_system
            => (shell[c] = "read")' \/ (~(conn[c] = Nobody) /\ (conn[c] = Nobody)')
      BY ShellForward
    <2>4. PInv /\ ProcessesMove /\ shell[c] = "write" => ENABLED <<ShellRuns(c)>>_system
      BY DEF ProcessesMove, ShellMoves
    <2>5. H => (shell[c] = "write" ~> shell[c] = "read" \/ shell[c] = "idle")
      BY <2>1, <2>2, <2>3, <2>4, PTL DEF Runs, Spec, ShellIsFair
    <2>6. ASSUME NEW a \in Agents
          PROVE  FairSpec /\ []ProcessesMove => [](Listens(c, a) => <>(shell[c] = "idle"))
      <3>1. PInv /\ Listens(c, a) /\ [Next]_vars => Listens(c, a)' \/ (shell[c] = "idle")'
        BY ListensStays
      <3>2. PInv /\ Heard(a) /\ [Next]_vars => Heard(a)'
        BY HeardStays
      <3>3. PInv /\ Listens(c, a) /\ <<ShellRuns(c)>>_system
              => (shell[c] = "idle")' \/ (~(conn[c] = Nobody) /\ (conn[c] = Nobody)')
        BY ShellForward DEF Listens
      <3>4. PInv /\ ProcessesMove /\ Listens(c, a) /\ Heard(a) => ENABLED <<ShellRuns(c)>>_system
        BY ShellEnabled DEF Listens, Heard
      <3>5. Listens(c, a) => ~(shell[c] = "idle")
        BY DEF Listens
      <3>6. H => (Listens(c, a) /\ Heard(a) ~> shell[c] = "idle")
        BY <2>1, <3>1, <3>2, <3>3, <3>4, <3>5, PTL DEF Runs, Spec, ShellIsFair
      <3>7. FairSpec /\ []ProcessesMove => Runs /\ ShellIsFair(c) /\ AgentIsFair(a)
        BY DEF FairSpec, Runs
      <3> QED BY <3>6, <3>7, AgentIsHeard, PInvHolds, PTL DEF Runs
    <2>7. FairSpec /\ []ProcessesMove => [](\A a \in Agents : Listens(c, a) => <>(shell[c] = "idle"))
      BY <2>6
    <2>8. (\A a \in Agents : Listens(c, a) => <>(shell[c] = "idle"))
            => ((\E a \in Agents : Listens(c, a)) => <>(shell[c] = "idle"))
      OBVIOUS
    <2>9. PInv /\ shell[c] = "read" => \E a \in Agents : Listens(c, a)
      BY DEF PInv, ShellInv, Listens
    <2>10. FairSpec /\ []ProcessesMove => Runs /\ ShellIsFair(c)
      BY DEF FairSpec, Runs
    <2>11. shell[c] \in {"write", "read"} => shell[c] = "write" \/ shell[c] = "read"
      OBVIOUS
    <2> QED BY <2>5, <2>7, <2>8, <2>9, <2>10, <2>11, PInvHolds, PTL DEF Runs
  <1> QED BY <1>1 DEF SigninReturns

-----------------------------------------------------------------------------
Asks(c, a) == shell[c] = "ask" /\ conn[c] # Nobody /\ conn[c].to = a

LEMMA AsksStays ==
  ASSUME PInv, [Next]_vars, NEW a \in Agents, NEW c \in Shells, Asks(c, a)
  PROVE  Asks(c, a)' \/ shell'[c] = "idle"
  <1>1. shell'[c] \in {"ask", "idle"} /\ (shell'[c] = "idle" \/ conn'[c] = conn[c])
    BY AlwaysAlong DEF Along, Asks
  <1> QED BY <1>1 DEF Asks

(* A signout comes back: the agent it asked answers, or ends, and then the *)
(* connection is reset.                                                    *)
THEOREM SignoutsReturn == FairSpec /\ []ProcessesMove => SignoutReturns
  <1>1. ASSUME NEW c \in Shells
        PROVE  FairSpec /\ []ProcessesMove => (shell[c] = "ask" ~> shell[c] = "idle")
    <2>1. ASSUME NEW a \in Agents
          PROVE  FairSpec /\ []ProcessesMove => [](Asks(c, a) => <>(shell[c] = "idle"))
      <3> DEFINE H == Spec /\ []PInv /\ []ProcessesMove
                 G == shell[c] = "idle"
      <3>1. PInv /\ Asks(c, a) /\ [Next]_vars => Asks(c, a)' \/ (shell[c] = "idle")'
        BY AsksStays
      <3>2. PInv /\ Asks(c, a)
              => ag[a] = "serve" \/ ag[a] = "lock" \/ ag[a] = "expire" \/ ag[a] = "unlink" \/ ag[a] = "dead"
        BY DEF PInv, ShellInv, Asks
      <3>3. PInv /\ [Next]_vars
              => /\ ag[a] = "serve"
                      => (ag[a] = "serve")' \/ (ag[a] = "lock")' \/ (ag[a] = "expire")' \/ (ag[a] = "dead")'
                 /\ ag[a] = "lock" => (ag[a] = "lock")' \/ (ag[a] = "unlink")' \/ (ag[a] = "dead")'
                 /\ ag[a] = "expire" => (ag[a] = "expire")' \/ (ag[a] = "dead")'
                 /\ ag[a] = "unlink" => (ag[a] = "unlink")' \/ (ag[a] = "dead")'
                 /\ ag[a] = "dead" => (ag[a] = "dead")'
        BY AlwaysOnward DEF Onward, PInv
      <3>4. PInv /\ <<AgentRuns(a)>>_system
              => /\ ag[a] = "lock" => (ag[a] = "unlink")'
                 /\ ag[a] = "expire" => (ag[a] = "dead")'
        BY AgentForward DEF Forward, PInv
      <3>5. PInv /\ <<HandleSignout(a, c)>>_system /\ Asks(c, a) => (shell[c] = "idle")'
        BY DEF HandleSignout, Hangup, Asks, PInv, TypeOK
      <3>6. PInv /\ <<ShellRuns(c)>>_system /\ Asks(c, a) => (shell[c] = "idle")'
        BY ShellForward DEF Asks
      <3>7. PInv /\ ProcessesMove /\ Asks(c, a)
              => /\ ag[a] = "serve" => ENABLED <<HandleSignout(a, c)>>_system
                 /\ ag[a] = "lock" => ENABLED <<AgentRuns(a)>>_system
                 /\ ag[a] = "expire" => ENABLED <<AgentRuns(a)>>_system
                 /\ ag[a] = "unlink" => ENABLED <<ShellRuns(c)>>_system
                 /\ ag[a] = "dead" => ENABLED <<ShellRuns(c)>>_system
        BY ShellEnabled, AgentEnabled DEF Asks
      <3>8. H /\ ShellIsFair(c)
              => (Asks(c, a) /\ (ag[a] = "unlink" \/ ag[a] = "dead") ~> G)
        BY <3>1, <3>3, <3>6, <3>7, PTL DEF Spec, ShellIsFair
      <3>9. H /\ AgentIsFair(a)
              => (Asks(c, a) /\ (ag[a] = "lock" \/ ag[a] = "expire")
                    ~> G \/ (Asks(c, a) /\ (ag[a] = "unlink" \/ ag[a] = "dead")))
        BY <3>1, <3>3, <3>4, <3>7, PTL DEF Spec, AgentIsFair
      <3>10. H /\ RequestIsFair(a, c)
              => (Asks(c, a) /\ ag[a] = "serve"
                    ~> G \/ (Asks(c, a) /\ (ag[a] = "lock" \/ ag[a] = "expire" \/ ag[a] = "dead")))
        BY <3>1, <3>3, <3>5, <3>7, PTL DEF Spec, RequestIsFair
      <3>11. FairSpec /\ []ProcessesMove
               => Spec /\ []ProcessesMove /\ ShellIsFair(c) /\ AgentIsFair(a) /\ RequestIsFair(a, c)
        BY DEF FairSpec
      <3> QED BY <3>2, <3>8, <3>9, <3>10, <3>11, PInvHolds, PTL
    <2>2. FairSpec /\ []ProcessesMove => [](\A a \in Agents : Asks(c, a) => <>(shell[c] = "idle"))
      BY <2>1
    <2>3. (\A a \in Agents : Asks(c, a) => <>(shell[c] = "idle"))
            => ((\E a \in Agents : Asks(c, a)) => <>(shell[c] = "idle"))
      OBVIOUS
    <2>4. PInv /\ shell[c] = "ask" => \E a \in Agents : Asks(c, a)
      BY DEF PInv, ShellInv, TypeOK, Asks
    <2>5. FairSpec => Spec
      BY DEF FairSpec
    <2> QED BY <2>2, <2>3, <2>4, <2>5, PInvHolds, PTL
  <1> QED BY <1>1 DEF SignoutReturns

(* Either command gives the shell its prompt back.                         *)
THEOREM CommandsComeBack == FairSpec /\ []ProcessesMove => CommandsReturn
  BY SigninsReturn, SignoutsReturn DEF CommandsReturn

-----------------------------------------------------------------------------
Parent(c, a) == shell[c] = "write" /\ child[c] = a

(* The agent reads its handshake: whoever started it closes the other end. *)
LEMMA StdinIsClosed ==
  ASSUME NEW a \in Agents
  PROVE  FairSpec /\ []ProcessesMove => (ParentIn(a, "write") ~> ~ParentIn(a, "write"))
  <1>1. ASSUME NEW c \in Shells
        PROVE  FairSpec /\ []ProcessesMove => [](Parent(c, a) => <>(~ParentIn(a, "write")))
    <2>1. PInv /\ Parent(c, a) /\ [Next]_vars => Parent(c, a)' \/ ~ParentIn(a, "write")'
      BY ParentGivesWay DEF Parent
    <2>2. PInv /\ Parent(c, a) /\ <<ShellRuns(c)>>_system
            => ~ParentIn(a, "write")' \/ (~(conn[c] = Nobody) /\ (conn[c] = Nobody)')
      BY ParentGivesWay DEF Parent
    <2>3. PInv /\ Parent(c, a) /\ conn[c] = Nobody /\ [Next]_vars => (conn[c] = Nobody)'
      BY AlwaysAlong DEF Along, Parent
    <2>4. PInv /\ ProcessesMove /\ Parent(c, a) => ENABLED <<ShellRuns(c)>>_system
      BY DEF ProcessesMove, ShellMoves, Parent
    <2>5. FairSpec => Spec /\ ShellIsFair(c)
      BY DEF FairSpec
    <2> QED BY <2>1, <2>2, <2>3, <2>4, <2>5, PInvHolds, PTL DEF Spec, ShellIsFair
  <1>2. FairSpec /\ []ProcessesMove => [](\A c \in Shells : Parent(c, a) => <>(~ParentIn(a, "write")))
    BY <1>1
  <1>3. (\A c \in Shells : Parent(c, a) => <>(~ParentIn(a, "write")))
          => ((\E c \in Shells : Parent(c, a)) => <>(~ParentIn(a, "write")))
    OBVIOUS
  <1>4. ParentIn(a, "write") => \E c \in Shells : Parent(c, a)
    BY DEF ParentIn, Parent
  <1> QED BY <1>2, <1>3, <1>4, PTL

(* No decrypted vault stays in memory for ever: an agent that is not asked *)
(* for ever ends, wherever it is in its life and also one whose node was   *)
(* removed, that nobody can reach or sign out.                             *)
THEOREM QuietAgentsEnd == FairSpec /\ []ProcessesMove => AgentsEnd
  <1>1. ASSUME NEW a \in Agents
        PROVE  FairSpec /\ []ProcessesMove => (<>[]Quiet(a) => (~(ag[a] = "off") ~> ag[a] = "dead"))
    <2>1. PInv /\ [Next]_vars
            => /\ ~(ag[a] = "off") => ~(ag[a] = "off")'
               /\ ag[a] = "stdin" => (ag[a] = "stdin")' \/ (ag[a] = "open")' \/ (ag[a] = "dead")'
               /\ ag[a] = "open" => (ag[a] = "open")' \/ (ag[a] = "probe")' \/ (ag[a] = "dead")'
               /\ ag[a] = "probe" => (ag[a] = "probe")' \/ (ag[a] = "clear")' \/ (ag[a] = "dead")'
               /\ ag[a] = "clear" => (ag[a] = "clear")' \/ (ag[a] = "announce")' \/ (ag[a] = "dead")'
               /\ ag[a] = "announce" => (ag[a] = "announce")' \/ (ag[a] = "bind")' \/ (ag[a] = "dead")'
               /\ ag[a] = "bind" => (ag[a] = "bind")' \/ (ag[a] = "serve")' \/ (ag[a] = "dead")'
               /\ ag[a] = "serve"
                    => (ag[a] = "serve")' \/ (ag[a] = "lock")' \/ (ag[a] = "expire")' \/ (ag[a] = "dead")'
               /\ ag[a] = "lock" => (ag[a] = "lock")' \/ (ag[a] = "unlink")' \/ (ag[a] = "dead")'
               /\ ag[a] = "unlink" => (ag[a] = "unlink")' \/ (ag[a] = "dead")'
               /\ ag[a] = "expire" => (ag[a] = "expire")' \/ (ag[a] = "dead")'
      BY AlwaysOnward DEF Onward, PInv, TypeOK, AgentPlaces, Starting
    <2>2. PInv /\ <<AgentRuns(a)>>_system
            => /\ ag[a] = "stdin" => (ag[a] = "open")'
               /\ ag[a] = "open" => (ag[a] = "probe")' \/ (ag[a] = "dead")'
               /\ ag[a] = "probe" => (ag[a] = "clear")' \/ (ag[a] = "dead")'
               /\ ag[a] = "clear" => (ag[a] = "announce")'
               /\ ag[a] = "announce" => (ag[a] = "bind")' \/ (ag[a] = "dead")'
               /\ ag[a] = "bind" => (ag[a] = "serve")' \/ (ag[a] = "dead")'
               /\ ag[a] = "lock" => (ag[a] = "unlink")'
               /\ ag[a] = "unlink" => (ag[a] = "dead")'
               /\ ag[a] = "expire" => (ag[a] = "dead")'
      BY AgentForward DEF Forward, PInv
    <2>3. PInv /\ <<Quiet(a) /\ Expire(a)>>_system => (ag[a] = "expire")'
      BY DEF Expire, AgentAt, PInv, TypeOK
    <2>4. PInv /\ ProcessesMove
            => /\ ag[a] = "stdin" /\ ~ParentIn(a, "write") => ENABLED <<AgentRuns(a)>>_system
               /\ ag[a] = "open" => ENABLED <<AgentRuns(a)>>_system
               /\ ag[a] = "probe" => ENABLED <<AgentRuns(a)>>_system
               /\ ag[a] = "clear" => ENABLED <<AgentRuns(a)>>_system
               /\ ag[a] = "announce" => ENABLED <<AgentRuns(a)>>_system
               /\ ag[a] = "bind" => ENABLED <<AgentRuns(a)>>_system
               /\ ag[a] = "lock" => ENABLED <<AgentRuns(a)>>_system
               /\ ag[a] = "unlink" => ENABLED <<AgentRuns(a)>>_system
               /\ ag[a] = "expire" => ENABLED <<AgentRuns(a)>>_system
               /\ ag[a] = "serve" /\ Quiet(a) => ENABLED <<Quiet(a) /\ Expire(a)>>_system
      BY AgentEnabled
    <2>5. PInv => \/ ag[a] = "off" \/ ag[a] = "stdin" \/ ag[a] = "open" \/ ag[a] = "probe"
                  \/ ag[a] = "clear" \/ ag[a] = "announce" \/ ag[a] = "bind" \/ ag[a] = "serve"
                  \/ ag[a] = "lock" \/ ag[a] = "unlink" \/ ag[a] = "expire" \/ ag[a] = "dead"
      BY DEF PInv, TypeOK, AgentPlaces, Starting
    <2>6. PInv /\ ag[a] = "stdin" /\ ~ParentIn(a, "write") /\ [Next]_vars => ~ParentIn(a, "write")'
      BY OrphanStays
    <2>7. FairSpec => Spec /\ AgentIsFair(a)
      BY DEF FairSpec
    <2> DEFINE H == [][Next]_vars /\ []PInv /\ []ProcessesMove /\ AgentIsFair(a)
    <2>8. H => /\ ag[a] = "unlink" ~> ag[a] = "dead"
               /\ ag[a] = "expire" ~> ag[a] = "dead"
               /\ ag[a] = "lock" ~> ag[a] = "unlink" \/ ag[a] = "dead"
      BY <2>1, <2>2, <2>4, PTL DEF AgentIsFair
    <2>9. H /\ []Quiet(a)
            => (ag[a] = "serve" ~> ag[a] = "lock" \/ ag[a] = "expire" \/ ag[a] = "dead")
      BY <2>1, <2>3, <2>4, PTL DEF AgentIsFair
    <2>10. H => /\ ag[a] = "bind" ~> ag[a] = "serve" \/ ag[a] = "dead"
                /\ ag[a] = "announce" ~> ag[a] = "bind" \/ ag[a] = "dead"
                /\ ag[a] = "clear" ~> ag[a] = "announce" \/ ag[a] = "dead"
      BY <2>1, <2>2, <2>4, PTL DEF AgentIsFair
    <2>11. H => /\ ag[a] = "probe" ~> ag[a] = "clear" \/ ag[a] = "dead"
                /\ ag[a] = "open" ~> ag[a] = "probe" \/ ag[a] = "dead"
                /\ ag[a] = "stdin" /\ ~ParentIn(a, "write") ~> ag[a] = "open" \/ ag[a] = "dead"
      BY <2>1, <2>2, <2>4, <2>6, PTL DEF AgentIsFair
    <2>12. FairSpec /\ []ProcessesMove
             => (ag[a] = "stdin" ~> (ag[a] = "stdin" /\ ~ParentIn(a, "write")) \/ ag[a] = "open"
                                      \/ ag[a] = "dead")
      BY <2>1, <2>7, StdinIsClosed, PInvHolds, PTL DEF Spec
    <2> QED
      BY <2>1, <2>5, <2>7, <2>8, <2>9, <2>10, <2>11, <2>12, PInvHolds, PTL
         DEF Spec, AgentIsFair
  <1>2. ASSUME NEW a \in Agents
        PROVE  FairSpec /\ []ProcessesMove => (<>[]Quiet(a) => (ag[a] # "off" ~> ag[a] = "dead"))
    <2>1. ag[a] # "off" => ~(ag[a] = "off")
      OBVIOUS
    <2> QED BY <1>1, <2>1, PTL
  <1> QED BY <1>2 DEF AgentsEnd

=============================================================================
