--------------------------- MODULE AgentLifecycle ---------------------------
(***************************************************************************)
(* The life of the background agent: `signin` (src/cli/client.rs) spawns   *)
(* it and waits for its handshake line; run_agent (src/cli/agent.rs) opens *)
(* the vault, probes and clears the socket path, announces READY, binds,   *)
(* serves, and ends through `signout`, the idle watchdog, a panic or a     *)
(* kill.  The socket path is shared by every agent of the user; nothing    *)
(* ties a node at that path to the agent that removes it.                  *)
(*                                                                         *)
(* Abstracted: the vault (a passphrase opens it or not), the token (it is  *)
(* the identity of the agent that minted it), requests other than signout, *)
(* and time: the watchdog may find the agent idle at any moment            *)
(* (AgentService models when).                                             *)
(***************************************************************************)
EXTENDS Naturals

CONSTANTS Shells,  \* shells of one user that run the CLI
          Agents,  \* agent processes; each is spawned once, so the number
                   \* of agents bounds the number of sign-ins
          Nobody   \* no agent

ASSUME NobodyAssumption == Nobody \notin Agents \cup [to : Agents, tok : Agents]

VARIABLES shell,  \* what the command running in each shell does
          child,  \* the agent a signin has spawned and listens to
          conn,   \* the signout request of a shell an agent has to answer:
                  \* the agent it went to and the token it carries
          token,  \* SIMPLE_SECRETS_SESSION of each shell
          ag,     \* where each agent process is
          out,    \* the handshake line an agent has printed
          sock,   \* the agent whose socket node is at the socket path
          raced   \* history: two agents were starting or clearing up at once

system == <<shell, child, conn, token, ag, out, sock>>
vars == <<system, raced>>

(* shell: "prompt" passphrase prompt; "write" agent spawned, its stdin     *)
(* still open; "read" stdin closed, waiting for the handshake line; "ask"  *)
(* signout sent, waiting for the answer.                                   *)
ShellPlaces == {"idle", "prompt", "write", "read", "ask"}

(* ag: "stdin" reading the handshake until EOF; "open" opening the vault;  *)
(* "probe" connecting to the path; "clear" about to remove the node there; *)
(* "announce" about to print READY; "bind"; "serve"; "lock" signout        *)
(* answered, vault not yet dropped; "unlink" vault and listener dropped;   *)
(* "expire" the watchdog has removed the node and is about to exit.        *)
Starting == {"stdin", "open", "probe", "clear", "announce", "bind"}
AgentPlaces == Starting \cup {"off", "serve", "lock", "unlink", "expire", "dead"}

TypeOK ==
  /\ shell \in [Shells -> ShellPlaces]
  /\ child \in [Shells -> Agents \cup {Nobody}]
  /\ conn \in [Shells -> [to : Agents, tok : Agents] \cup {Nobody}]
  /\ token \in [Shells -> Agents \cup {Nobody}]
  /\ ag \in [Agents -> AgentPlaces]
  /\ out \in [Agents -> {"none", "READY", "ERR"}]
  /\ sock \in Agents \cup {Nobody}
  /\ raced \in BOOLEAN

(* connect() succeeds when a process still listens on the node at the path.*)
Listening(a) == ag[a] \in {"serve", "lock", "expire"}
CanConnect == sock # Nobody /\ Listening(sock)

(* The vault of an agent is decrypted in its memory.                       *)
Unlocked(a) == ag[a] \in {"probe", "clear", "announce", "bind", "serve", "lock", "expire"}

Init ==
  /\ shell = [c \in Shells |-> "idle"]
  /\ child = [c \in Shells |-> Nobody]
  /\ conn = [c \in Shells |-> Nobody]
  /\ token = [c \in Shells |-> Nobody]
  /\ ag = [a \in Agents |-> "off"]
  /\ out = [a \in Agents |-> "none"]
  /\ sock = Nobody
  /\ raced = FALSE

AgentAt(a, p, q) == ag[a] = p /\ ag' = [ag EXCEPT ![a] = q]
ShellAt(c, p, q) == shell[c] = p /\ shell' = [shell EXCEPT ![c] = q]

-----------------------------------------------------------------------------
(* signin refuses when an agent answers; only then it prompts.             *)
SigninCheck(c) ==
  /\ ~CanConnect
  /\ ShellAt(c, "idle", "prompt")
  /\ UNCHANGED <<child, conn, token, ag, out, sock>>

SigninSpawn(c) ==
  /\ ShellAt(c, "prompt", "write")
  /\ \E a \in Agents :
       /\ AgentAt(a, "off", "stdin")
       /\ child' = [child EXCEPT ![c] = a]
  /\ UNCHANGED <<conn, token, out, sock>>

(* Mutated: the handshake line is awaited with stdin still open.           *)
SigninReadsFirst(c) ==
  /\ ShellAt(c, "write", "read")
  /\ out[child[c]] # "none" \/ ag[child[c]] = "dead"
  /\ UNCHANGED <<child, conn, token, ag, out, sock>>

(* The handshake is written and stdin closed before stdout is read.        *)
SigninHandshake(c) ==
  /\ ShellAt(c, "write", "read")
  /\ UNCHANGED <<child, conn, token, ag, out, sock>>

(* READY installs the token; ERR, or the end of a dead agent's output, is  *)
(* reported.                                                               *)
SigninDone(c) ==
  /\ ShellAt(c, "read", "idle")
  /\ LET a == child[c] IN
       /\ out[a] # "none" \/ ag[a] = "dead"
       /\ token' = IF out[a] = "READY" THEN [token EXCEPT ![c] = a] ELSE token
  /\ child' = [child EXCEPT ![c] = Nobody]
  /\ UNCHANGED <<conn, ag, out, sock>>

SignoutSend(c) ==
  /\ token[c] # Nobody /\ CanConnect /\ conn[c] = Nobody
  /\ ShellAt(c, "idle", "ask")
  /\ conn' = [conn EXCEPT ![c] = [to |-> sock, tok |-> token[c]]]
  /\ UNCHANGED <<child, token, ag, out, sock>>

(* A connection ends, answered or reset; the command waiting on it, if it  *)
(* was not interrupted meanwhile, returns.                                 *)
Hangup(c) ==
  /\ conn' = [conn EXCEPT ![c] = Nobody]
  /\ shell' = IF shell[c] = "ask" THEN [shell EXCEPT ![c] = "idle"] ELSE shell

(* The agent is gone before it answered.                                   *)
SignoutReset(c) ==
  /\ conn[c] # Nobody /\ ~Listening(conn[c].to)
  /\ Hangup(c)
  /\ UNCHANGED <<child, token, ag, out, sock>>

(* The command is interrupted (Ctrl-C, closed terminal).  A request it has *)
(* sent completely is still in the agent's queue.                          *)
Interrupt(c) ==
  /\ shell[c] # "idle"
  /\ shell' = [shell EXCEPT ![c] = "idle"]
  /\ child' = [child EXCEPT ![c] = Nobody]
  /\ conn' \in {conn, [conn EXCEPT ![c] = Nobody]}
  /\ UNCHANGED <<token, ag, out, sock>>

-----------------------------------------------------------------------------
ParentIn(a, p) == \E c \in Shells : child[c] = a /\ shell[c] = p

(* read_to_string returns when nobody holds the other end of stdin.        *)
ReadHandshake(a) ==
  /\ ~ParentIn(a, "write")
  /\ AgentAt(a, "stdin", "open")
  /\ UNCHANGED <<shell, child, conn, token, out, sock>>

OpenVault(a) ==
  /\ AgentAt(a, "open", "probe")
  /\ UNCHANGED <<shell, child, conn, token, out, sock>>

(* fail_handshake: wrong passphrase, no vault path, or an agent answers.   *)
Refuse(a) ==
  /\ \/ AgentAt(a, "open", "dead")
     \/ CanConnect /\ AgentAt(a, "probe", "dead")
  /\ out' = [out EXCEPT ![a] = "ERR"]
  /\ UNCHANGED <<shell, child, conn, token, sock>>

(* Mutated: the agent does not probe the path itself.                      *)
ProbeNothing(a) ==
  /\ AgentAt(a, "probe", "clear")
  /\ UNCHANGED <<shell, child, conn, token, out, sock>>

Probe(a) ==
  /\ ~CanConnect
  /\ AgentAt(a, "probe", "clear")
  /\ UNCHANGED <<shell, child, conn, token, out, sock>>

(* Mutated: a stale node is left at the path.                              *)
ClearNothing(a) ==
  /\ AgentAt(a, "clear", "announce")
  /\ UNCHANGED <<shell, child, conn, token, out, sock>>

(* Whatever node is at the path by now is removed.                         *)
ClearPath(a) ==
  /\ AgentAt(a, "clear", "announce")
  /\ sock' = Nobody
  /\ UNCHANGED <<shell, child, conn, token, out>>

(* println! panics when the parent has gone.                               *)
Announce(a) ==
  /\ \/ ParentIn(a, "read") /\ AgentAt(a, "announce", "bind")
        /\ out' = [out EXCEPT ![a] = "READY"]
     \/ ~ParentIn(a, "read") /\ AgentAt(a, "announce", "dead")
        /\ UNCHANGED out
  /\ UNCHANGED <<shell, child, conn, token, sock>>

(* bind panics when any node, live or stale, is at the path.               *)
Bind(a) ==
  /\ \/ sock = Nobody /\ AgentAt(a, "bind", "serve") /\ sock' = a
     \/ sock # Nobody /\ AgentAt(a, "bind", "dead") /\ UNCHANGED sock
  /\ UNCHANGED <<shell, child, conn, token, out>>

(* Mutated: a request with a wrong token is neither answered nor dropped.  *)
HandleOwnOnly(a, c) ==
  /\ ag[a] = "serve"
  /\ conn[c] = [to |-> a, tok |-> a]
  /\ Hangup(c)
  /\ ag' = [ag EXCEPT ![a] = "lock"]
  /\ UNCHANGED <<child, token, out, sock>>

(* One request: a wrong token is refused, the right one is answered Ok.    *)
HandleSignout(a, c) ==
  /\ ag[a] = "serve"
  /\ conn[c] # Nobody /\ conn[c].to = a
  /\ Hangup(c)
  /\ ag' = IF conn[c].tok = a THEN [ag EXCEPT ![a] = "lock"] ELSE ag
  /\ UNCHANGED <<child, token, out, sock>>

(* serve drops the vault, then returns and drops the listener.             *)
LockVault(a) ==
  /\ AgentAt(a, "lock", "unlink")
  /\ UNCHANGED <<shell, child, conn, token, out, sock>>

RemoveNode(a) ==
  /\ AgentAt(a, "unlink", "dead")
  /\ sock' = Nobody
  /\ UNCHANGED <<shell, child, conn, token, out>>

(* Mutated: the watchdog ends the agent only while the path leads to it.   *)
ExpireIfReachable(a) ==
  /\ sock = a
  /\ AgentAt(a, "serve", "expire")
  /\ sock' = Nobody
  /\ UNCHANGED <<shell, child, conn, token, out>>

(* The watchdog finds the agent idle: it removes the node, then exits.     *)
Expire(a) ==
  /\ AgentAt(a, "serve", "expire")
  /\ sock' = Nobody
  /\ UNCHANGED <<shell, child, conn, token, out>>

ExitProcess(a) ==
  /\ AgentAt(a, "expire", "dead")
  /\ UNCHANGED <<shell, child, conn, token, out, sock>>

(* The process is killed; a node it has bound stays behind, stale.         *)
Kill(a) ==
  /\ ag[a] \notin {"off", "dead"}
  /\ ag' = [ag EXCEPT ![a] = "dead"]
  /\ UNCHANGED <<shell, child, conn, token, out, sock>>

-----------------------------------------------------------------------------
ShellRuns(c) == SigninHandshake(c) \/ SigninDone(c) \/ SignoutReset(c)

User(c) == SigninCheck(c) \/ SigninSpawn(c) \/ SignoutSend(c) \/ Interrupt(c)

AgentRuns(a) ==
  \/ ReadHandshake(a) \/ OpenVault(a) \/ Refuse(a) \/ Probe(a) \/ ClearPath(a)
  \/ Announce(a) \/ Bind(a) \/ LockVault(a) \/ RemoveNode(a) \/ ExitProcess(a)
  \/ \E c \in Shells : HandleSignout(a, c)

Step ==
  \/ \E c \in Shells : ShellRuns(c) \/ User(c)
  \/ \E a \in Agents : AgentRuns(a) \/ Expire(a) \/ Kill(a)

(* No agent starts while another starts or is about to remove its node:    *)
(* one shell at a time signs in or out.  The code does not enforce it.     *)
OneStarts ==
  \A a, b \in Agents :
    ag[a] \in Starting /\ ag[b] \in Starting \cup {"unlink"} => a = b

Next == Step /\ raced' = (raced \/ ~OneStarts')

Spec == Init /\ [][Next]_vars

Quiet(a) == \A c \in Shells : conn[c] \notin [to : {a}, tok : Agents]

ShellIsFair(c) == WF_system(ShellRuns(c))
AgentIsFair(a) == WF_system(AgentRuns(a)) /\ WF_system(Quiet(a) /\ Expire(a))
RequestIsFair(a, c) == WF_system(HandleSignout(a, c))

(* Running processes are scheduled, and an agent that is not asked anything*)
(* any more is found idle.  Pending connections are accepted in turn (the  *)
(* kernel queues them), so none waits for ever behind younger ones.        *)
(* Nothing is assumed of the user.                                         *)
FairSpec ==
  /\ Spec
  /\ \A c \in Shells : ShellIsFair(c)
  /\ \A a \in Agents : AgentIsFair(a) /\ \A c \in Shells : RequestIsFair(a, c)

-----------------------------------------------------------------------------
(* A live agent, which holds the unlocked vault, stays reachable: nobody   *)
(* removes or replaces its node while it serves (bind_socket "refuses to   *)
(* start if a live agent already answers, clears a stale socket node").    *)
LiveAgentKeepsPath == \A a \in Agents : ag[a] = "serve" => sock = a

(* As long as agents have started and cleared up one at a time, a live     *)
(* agent keeps the path.                                                   *)
SerialAgentKeepsPath == raced \/ LiveAgentKeepsPath

(* And after READY has been handed to the parent, the bind cannot fail     *)
(* (agent.rs:242-243 calls a failure there unrecoverable).                 *)
SerialBindFindsPathFree ==
  raced \/ \A a \in Agents : ag[a] = "bind" => sock = Nobody

ShellMoves(c) ==
  /\ shell[c] = "write" => ENABLED <<ShellRuns(c)>>_system
  /\ shell[c] = "read" /\ (out[child[c]] # "none" \/ ag[child[c]] = "dead")
       => ENABLED <<ShellRuns(c)>>_system
  /\ conn[c] # Nobody /\ ~Listening(conn[c].to) => ENABLED <<ShellRuns(c)>>_system

AgentMoves(a) ==
  /\ ag[a] = "stdin" /\ ~ParentIn(a, "write") => ENABLED <<AgentRuns(a)>>_system
  /\ ag[a] \in (Starting \ {"stdin"}) \cup {"lock", "unlink", "expire"}
       => ENABLED <<AgentRuns(a)>>_system
  /\ ag[a] = "serve" /\ Quiet(a) => ENABLED <<Quiet(a) /\ Expire(a)>>_system

RequestMoves(a, c) ==
  ag[a] = "serve" /\ conn[c] # Nobody /\ conn[c].to = a => ENABLED <<HandleSignout(a, c)>>_system

(* Commands and agents wait for each other over the two pipes and the      *)
(* socket, and for nothing else.                                           *)
ProcessesMove ==
  /\ \A c \in Shells : ShellMoves(c)
  /\ \A a \in Agents : AgentMoves(a) /\ \A c \in Shells : RequestMoves(a, c)

(* A signin that has spawned its agent comes back to the user: the         *)
(* handshake over the two pipes neither deadlocks nor waits for a dead     *)
(* agent, whatever fails, dies or is interrupted.                          *)
SigninReturns ==
  \A c \in Shells : shell[c] \in {"write", "read"} ~> shell[c] = "idle"

(* A signout comes back, even when the agent it reached ends first.        *)
SignoutReturns == \A c \in Shells : shell[c] = "ask" ~> shell[c] = "idle"

(* The shell gets its prompt back from either command.                     *)
CommandsReturn == SigninReturns /\ SignoutReturns

(* No decrypted vault stays in memory for ever: an agent that is not       *)
(* asked for ever, if only with wrong tokens, ends, also one whose node    *)
(* was removed, that nobody can reach or sign out.                         *)
AgentsEnd ==
  \A a \in Agents : <>[]Quiet(a) => (ag[a] # "off" ~> ag[a] = "dead")
=============================================================================
