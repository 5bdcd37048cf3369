# Simple Secrets: a TLA+ model

Simple Secrets is a local secret manager in Rust: an encrypted vault file, a background agent that holds
the unlocked vault for the command line, a terminal UI that opens the vault itself, a post-quantum pairing
protocol that moves one secret between devices, threshold sharing of a secret into files, and generators
for passwords, passphrases and TOTP codes. This directory holds TLA+ modules of these parts, TLC
configurations that check them on small instances, and theorems that TLAPS proves for every instance.

    tlc -config Vault.cfg MCVaultStore            # a run: a module and a configuration
    tlapm VaultStoreProofs.tla                    # the proofs of a module

`PROJECT.json` lists the runs with their modules and properties, the source lines every definition models,
for every property a mutation of the code that breaks it (the operators marked "Mutated:" in the modules),
the hazards the properties are for, the findings and the theorems.

## 1. The system

| component | state it keeps | operations | what makes it correct |
|---|---|---|---|
| local store (`storage/local_store.rs`) | the vault file, its `.tmp`, a map of sealed entries in memory | create, open, set, delete, get, list, save | a vault that exists stays whole and can be opened; an answer tells what the file holds; creating replaces nothing |
| secret manager (`core/manager.rs`) | the open store, an entropy source | create, open, lock, put, get, delete, generate, share, reconstruct | as its parts |
| agent (`cli/agent.rs`) | socket node, token, unlocked vault, activity clock | handshake, bind, serve, signout, watchdog | one reachable agent; it ends; it is not unlocked for longer than its idle lifetime; every request gets an answer or a reset |
| client commands (`cli/client.rs`) | the token in the shell | init, signin, signout, put, get, list, status, otp, otp-add | they return; a signed-in shell can sign out |
| wire protocol (`cli/protocol.rs`) | none | read and write a frame | a frame arrives whole or not at all |
| pairing commands (`cli/pairing.rs`) | a session key, a listening port | pair-send, pair-receive | an acknowledgement is true; a stray peer does not keep the sender out; nothing is overwritten |
| transfer (`network/`, `crypto/pqc_auth.rs`) | none | new_pairing, seal_for, open_bundle | a bundle opens for its session only |
| sharing commands (`cli/sharing.rs`) | share files | share, reconstruct | success leaves every share; a wrong set is refused |
| threshold sharing (`sharing/multisig.rs`, `shamir.rs`) | none | split, reconstruct, GF(2^8) | enough shares give the secret, fewer say nothing |
| TOTP (`core/totp.rs`) | none | parse, serialize, code, seconds_remaining | what is stored reads back; a code is valid as long as shown |
| generators (`core/passphrase.rs`, `manager.rs`) | none | words, passwords | unbiased; no random bit used twice |
| terminal UI (`ui/mod.rs`) | mode, list, selection, editor, timers, its own vault | every key, the poll, auto-lock | a locked App holds nothing; the list is the file; nothing is replaced unseen |
| clipboard (`ui/clipboard.rs`) | a sleeping thread per copy | copy, clear | a copied secret is cleared |
| editor (`ui/editor.rs`) | a buffer of fixed capacity | open a value, type, delete, replace, save | what was typed is what is saved |
| vault header and KDF parameters (`storage/local_store.rs`, `crypto/vdf_kdf.rs`) | none | encode, decode, check | what create writes, open accepts |
| names, RAM store, paths, rendering, argument parsing, FFI stubs, Lean model, scripts | see section 7 | | |

How they interact. A shell runs `signin`, which spawns an agent and talks to it over pipes (handshake); every
later command connects to the agent's Unix socket, sends one request and reads one answer. The agent has two
threads: the serve loop, which owns the manager, and a watchdog, which shares only the clock with it and ends the
process. The agent and the terminal UI are processes that work on the same vault file, each with the whole
map in memory, and no lock between them. `pair-receive` and `pair-send` talk over TCP, by files or by pasting, and reach
their vaults through their agents. `share` and `reconstruct` use files only.

What is hard: processes that interleave on the vault file and at the socket path; crashes and kills
between the steps of a save; the watchdog against the serve loop; timeouts against people; peers
that never speak; failures half-way through a sequence of files; plaintext that outlives its screen; arithmetic at its edges.

## 2. Modules

| module | models | state and actions |
|---|---|---|
| VaultFile | what the store promises | `disk` is replaced at once or not at all; create, load, change, commit, fail, drop |
| VaultStore | local_store.rs and the vault session of manager.rs | inodes, two directory entries, file descriptors, one entry map per process; one action per system call: reserve (O_EXCL), derive, read, unlock, open `.tmp` (truncating), write (whole, torn, failed), rename, failed rename, lock, crash |
| AgentLifecycle | signin, run_agent, bind_socket, signout, watchdog | `shell`, `child`, `conn`, `token`, `ag`, `out`, `sock`, the history `raced`; one action per step between two points where somebody else can act |
| VaultUpdates | VaultStore with the history of every change | `dirty`, `fresh`: what a session has changed, and what others have changed since it read the file |
| AgentService | Agent::serve, watchdog, get, put, list, signout, a refused token, receive | `queue`, `cur`, `link`, `req`, `answer`, `idle`, `nap`; accept, handle, wake, exit, tick |
| Pairing | pair_send, pair_receive, accept_until_valid, open_bundle | two sequential programs, a backlog, what each end of a connection has sent |
| Gf256 | gf_add, gf_mul, gf_inv of shamir.rs | no state: the arithmetic byte by byte, with masks and shifts, and GF(2^8) as polynomials |
| Shamir | split, eval_poly, reconstruct of shamir.rs, over any field of bytes | a secret, its shares, the shares used and what came of them |
| Sharing | sharing.rs, multisig.rs | a directory of files, runs that write them one at a time, people that move or delete them |
| Generation | passphrase.rs and the generators of manager.rs | rejection sampling round by round; the words of a stream of random bytes |
| Totp | totp.rs, otp, otp-add | base32 and URI as functions over small texts; a clock that runs on |
| TuiApp | ui/mod.rs | every mode and key as an action or an alternative of one; the poll as `Tick` |
| Clipboard | clipboard.rs | tools that are missing, work or are broken; timers; quitting |
| Editor | editor.rs and the editing mode of ui/mod.rs | the buffer byte by byte, its capacity; open (cut to the capacity), type, delete, replace, save, cancel |
| VaultHeader | write_header, read_header, the checks of create, open and derive_key | a header as a sequence of bytes; parameters at every limit |
| Limits | the limits of name, editor, frame, bundle, LAN reader | the length of a secret on its way through them |
| Parts | Shamir, Generation, Totp, Clipboard, Editor, VaultHeader and Limits side by side | the variables and properties of all |
| MCVaultStore, MCAgentLifecycle, MCTuiApp, MCSharing | | symmetry sets and constants that a configuration cannot write |
| MCParts | Parts with the field of Gf256 | `part` says which of them a behaviour runs; the inputs of all |
| VaultStoreProofs (with VaultUpdates), AgentLifecycleProofs, AgentServiceProofs, PairingProofs, TuiAppProofs, SharingProofs | | section 6 |
| PartsProofs (clipboard, limits, header, characters, shares), DataProofs (TOTP, editor, words) | | section 6 |

What is abstracted, throughout: encryption (content is whole, torn or empty; a passphrase is right or wrong; a bundle opens for
its session), text (a name is a name, nothing, or one that validation refuses), tokens (the agent that minted
them), wall-clock time (ticks where a property compares times, otherwise a timeout may strike whenever
the code waits). What is not abstracted: the order of the steps, every early return and error
path that changes state, and what is left behind by each.

Points worth knowing when reading the modules against the code:

- VaultStore: `put` and `delete` change memory first and save afterwards, and do not roll back. `Reclaim` empties an
  inode that has no name and no descriptor left, so that inodes can be used again. `Overlay` says what a
  writer at offset 0 leaves in a file that is not empty any more because another process wrote to it: its own vault when that
  is at least as long as what is there, otherwise a mixture.
- AgentLifecycle: the probe (connect), the removal of the node, READY, and bind are separate actions, as in
  bind_socket and open_listener. A panic in bind is an exit. `OneStarts` says that one agent at a time starts or clears up;
  the code does not enforce it, so `raced` remembers whether it was ever broken, the safety properties speak of the
  behaviours in which it was not, and `agent_two_signins` shows what happens in the others.
- VaultUpdates: `dirty` is what a session's memory has that it did not read from or write to the file, `fresh` what the file has
  that the session has not read. A save writes the whole memory, so it takes the fresh names of others back out.
- AgentService: a request of `pair-receive` to store is a list, then a put by the same client. `Exit` may
  fall before or after the effect of the request being served. A signout ends the process after its answer; a request with the
  token of another session is refused, and keeps the agent awake like any other.
- Pairing: a bundle goes to whoever listens at the address in the code (`AtAddress`), which may be a later run of
  pair-receive; that run cannot open it and answers ERR.
- TuiApp: history variables record what a property compares with, and no guard reads them: `failed`, the names whose last change did
  not reach the file; `heap`, the plaintext the last step freed without wiping it. `Revealed` is what the screen shows in clear.
- Shamir: the three operations on bytes are constants, and `InputsAreSound` says that they are a field. `IsField` asks for laws of
  two bytes and a generator only, which TLC can look through for Gf256 in every run (it is an assumption of MCParts); the laws of
  three bytes follow, and are proved. Gf256 computes each sum and product once (`SumTable`, `MulTable`).
- FewSharesHide speaks of all bytes as coefficients, not of the few in `Coeffs` that a split of the run draws: it is about what could
  have been drawn. As many coefficients as there are values of m - 1 shares, and every value reached, is one choice for each value.
- VaultHeader: the header is its 57 bytes, the salt included. `Replace` cuts the file short or changes a byte of magic or version, as
  damage between create and open may.
- Limits: lengths only; a name, a secret and the overhead of the sealing (at most a kilobyte) through every message they are part of.
- Sharing: a split is named by the run that made it. Its keys, commitments and shares belong to that split only.

## 3. Runs

Every passing property has a mutation of the code that makes TLC find it violated under the same
configuration. The type invariants are in no run: they are proved (section 6). A run with verdict "violation" shows a disagreement between a sentence in the repository and what the
code does (section 5).

| run | instance | what it shows |
|---|---|---|
| vault (Vault.cfg) | 2 processes, 2 names, 4 inodes, MAX_VAULT_LEN of 1 entry; saves do not overlap, everything else does | a creator is alone; a whole vault stays whole; an answer tells what the file holds; an entry is lost only to a session that changed it or read an older file; VaultStore implements VaultFile |
| agent (Agent.cfg) | 2 shells, 2 agents, fairness | as long as agents start and clear up one at a time, a serving agent is at the path and an announced one binds; always, no process is stuck, signin and signout return and agents end |
| serve (Serve.cfg) | 2 clients, 1 name, 2 values, Idle 2, Nap 1, fairness | the idle bound; a receive replaces no name it was told of; nothing holds the watchdog up; every request is answered or reset, with signouts and refused tokens between |
| pair (Pair.cfg) | 2 receiver runs, 1 sender, 1 stray, 2 attempts, fairness | OK means stored; no program is stuck; a waiting bundle is opened; pair-send returns |
| tui (Tui.cfg) | 3 names, auto-lock after 2 ticks, fairness | selection, list and file agree; adding replaces nothing; a locked App holds nothing; a reveal stays with its secret; only a lock leaves plaintext; time passes in every mode, and an idle App locks |
| share_files (ShareFiles.cfg) | 2 runs, 2 secrets, 3 shares | success means all shares; enough files reconstruct; no mixture is silently wrong |
| parts (Parts.cfg) | all pairs of bytes; secrets of up to 2 bytes, 3 shares, thresholds 1 to 3; sizes at every limit; URIs of up to 3 fields; 3 clipboard tools of any kind and 3 copies; an editor of 4 bytes; parameters and lengths at every limit | GF(256); Shamir's two promises; unbiased passwords and phrases; TOTP that reads back and is valid as long as shown; a copied secret is cleared while the UI runs; typed text is kept; a written header opens; a secret that passes one limit passes the next |
| vault_two_writers (violation) | 2 processes, overlapping saves | two saves share `.tmp` |
| agent_two_signins (violation) | 2 shells, 2 agents | one agent removes another's socket |
| tui_delete (violation) | 2 names | a delete that failed is taken for done when it is tried again |
| vault_too_long (violation) | 1 process, 2 names, MAX_VAULT_LEN of 1 entry | a vault that was saved can be too long to be opened |
| pair_manual (violation) | 2 receiver runs, 1 sender | a later run cannot import what was sealed for an earlier one |

## 4. Bounds and fairness

Every bound is a constant of a module or the size of a constant set.

- Two processes, shells, clients or runs: each hazard of section 1 that involves several actors is between two of them. In `agent`
  every agent is spawned once, so two agents are two sign-ins, of the same shell or of both; the theorems
  hold for any number.
- `vault`: two names let a vault outgrow a MAX_VAULT_LEN of one entry, and let a shorter vault be written
  over a longer one; one process changes one name while the other changes the other. Two saves never overlap, so at most four inodes are live (the vault, `.tmp`, and what the
  two processes hold); one value is enough because the properties compare whole maps, and adding and deleting already
  make different ones.
- `serve`: an idle lifetime of two ticks and a nap of one are the smallest for which the deadline falls between two
  wake-ups, before one and after one. A put needs two values to differ; names do not interact.
- `pair`: a run makes two attempts and there are two peers, each of which connects once, so the cap is reached exactly, and
  a bundle may be the last attempt. With as many strays as attempts the code gives up, as its comment says.
- `tui`: three names are what it takes for a selection to be left behind by two deletes; two ticks let a reveal end
  before the lock and a key come between. Values are one: what they are is no part of a property.
- `share_files`: three shares allow thresholds below, at and above what is handed out.
- `parts`: the tables of GF(256) are complete. Three clipboard tools as in the code, so that a missing or broken tool may come
  before and after a working one; three copies are one more than two overlapping timers. The thresholds are one that is
  refused, one that three shares exceed and one that they just reach. The editor holds four bytes, so that a
  character of two bytes can be cut, fit exactly, or not fit. Header and limits take each parameter one below, at and one above every
  limit some check has for it. The inputs are listed in MCParts.

CHECK_DEADLOCK is off everywhere because every part may really stop: all agents dead, the UI quit, both pairing
programs ended, every command returned, every algorithm through.

Fairness is weak fairness of what the programs do by themselves and of nothing people do:

- AgentLifecycle: a running process is scheduled; a signin that has spawned its agent goes on to read the pipe; each connection that
  waits is accepted at last, since the kernel queues them and the serve loop takes them in turn; a watchdog finds an
  agent idle that no request reaches any more. No shell need sign out, or do anything.
- AgentService: both threads run and time passes (`Tick` cannot overtake a watchdog that is due); a command acts on an answer it
  has. A client need never send its request, and that is the case of interest.
- Pairing: accepting, reading, storing and answering go on, and the timeouts the code sets do strike. Users need not
  confirm, strays need not send.
- TuiApp: the poll of run_app returns within half a second, so `Tick` happens. No key is assumed.

VaultStore, Sharing and the modules of `parts` are checked for safety only.

Fairness promises only steps that are possible, so a guard that keeps a step from happening makes it void. Four
invariants say of each fair step in which states it is possible: `ProcessesMove` (agent), `WatchdogIsFree` (serve), `ProgramsMove`
(pair), `TickIsEnabled` (tui). A command that waits for an agent that waits for the command would break them.

## 5. Where the code and its documents disagree

With a run (quotations and lines in PROJECT.json under "findings"):

- vault_two_writers: local_store.rs:261 names the temporary file after the vault only. Two processes that save at once
  truncate each other's file, and the rename of one may install what the other has just emptied.
- agent_two_signins: agent.rs:225-247 probes, removes and binds in three steps. A second sign-in between them removes the node of
  an agent that is by then alive and unlocked; it stays so, out of reach, until its watchdog ends it.
- tui_delete: local_store.rs:338 removes from memory before it saves. When the save fails, trying again finds nothing
  to delete, answers without saving, and the name leaves the list while the file still has it.
- vault_too_long: MAX_VAULT_LEN (local_store.rs:27) is checked by open and not by save (264): a vault can grow until nothing opens
  it, although every put was answered with success.
- pair_manual: pairing.rs:95 makes a new session for each run, also for `--bundle-in`, so the two-call handoff of the
  manual cannot work.

Noticed while modelling, and part of the models' behaviours, but no run of their own:

- save does not sync before the rename (local_store.rs:264); power loss is not modelled.
- A reveal outlives the selection it was asked for: only Up and Down end it, not a delete or an import (ui/mod.rs:414). RevealsOnlySelected
  says that nothing else moves it: a step that leaves the list as it is shows no other secret.
- lock replaces the mode without Mode::zeroize (ui/mod.rs:301), so a received secret waiting for confirmation is freed as it is.
- Ctrl-L on the first-run screen leads to an unlock prompt for a vault that does not exist (ui/mod.rs:505).
- A value longer than the editor's capacity is cut on opening without a word (editor.rs:31), and saving it stores what is left.
- Quitting the UI within CLEAR_AFTER leaves the secret on the clipboard (clipboard.rs:25); a tool that starts and fails counts as
  success (clipboard.rs:56).
- pair-receive lists and then puts (pairing.rs:177), so a put of another terminal in between is overwritten; pair-send reports success for
  an ERR and for the end of the stream (pairing.rs:75).
- The watchdog tests and exits in two steps (agent.rs:279): a connection accepted in between is reset.
- The share command's own check admits a threshold of 1 (sharing.rs:80), the split beneath refuses it.

## 6. What is proved

Every property of the passing runs but five (see the end of this section) is also a theorem: TLC checks it on the small instance
of section 3, TLAPS proves it for every value of the constants. What the theorems assume is in the modules, by name: sentinels differ
from the values they stand beside, names of the UI are a finite set of numbers (the list is sorted), a sentinel of AgentLifecycle is no
connection either, lengths of time are natural numbers
(an idle lifetime is not zero, a nap not longer than it), a clipboard's ClearAfter is positive, inputs are sequences of bytes (salts of
32), keys are UTF-8 characters. No assumption bounds the sessions, names, inodes, shells, agents, clients, runs, copies, or the lengths of
secrets, texts, URIs and buffers.

VaultStore, under `Spec`, with any interleaving: `TypeCorrect` and `CreateClobbersNothing` (CreatorIsAlone). CreatorIsAlone is not inductive: it must be known that
nobody else can come to hold the reserved inode. The inductive invariant `CInv` adds that vault and `.tmp` are different inodes
(`Apart`), that exactly the sessions in "write" hold a descriptor, that while the vault is absent or reserved nobody
has a store (`NobodyBefore`), that a session that creates is before or in its first save, and that a creator writes to
`.tmp` and to nothing else.

Under `SerialSpec` (saves do not overlap): `SerialSavesKeepTheVault` (VaultStaysWhole), `SerialRepliesAreTrue` (ReplyTellsTheDisk) and
`VaultStoreRefinesVaultFile` (ImplementsVaultFile). The invariant `SInv` adds to CInv that one session saves, that the
descriptor of a writer is `.tmp`, that between write and rename `.tmp` is exactly the session's memory, and that
whoever has a store has a whole vault behind it. With it a rename is a Commit of VaultFile, the failing steps are Fail or
Leave, and every other system call of a save is a stutter.

VaultUpdates, under `SerialUpdates` (SerialSpec with the history): `SavesLoseOnlyUnseen` (LosesOnlyUnseen). To SInv the invariant `UInv` adds
`CopyIsFile`: a session's memory and the file agree on every name that is neither dirty nor fresh for it. Only a rename changes the file, and it
installs the session's memory, so what it changes is one of the two.

AgentLifecycle, under `Spec`: `TypeCorrect`, `ServingAgentIsReachable` (SerialAgentKeepsPath) and `AnnouncedAgentBinds` (SerialBindFindsPathFree). The
invariant is TypeOK and (raced or SInv): as long as agents started one at a time, a serving agent is the one at the path, and from
"clear" to "bind" the path leads to no live agent, and from "announce" on to nothing. A step that sets `raced` has nothing to show; any other is
taken from a state in which no second agent was between its probe and its bind.

AgentService, under `Spec`: `TypeCorrect`, `IdleAgentExpires` (NeverIdleForLong), `ReceiveReplacesNothingListed` (ReceiveKeepsListed). The bound
Idle + Nap is not inductive by itself; `NapInv` says that an agent that is not expiring has been idle for less than Idle and the
part of the nap that is over. A store is never of a listed name (`StoreInv`), from the check in the client to the put in the agent.

Pairing, under `Spec`: `TypeCorrect` and `AcknowledgedIsStored` (AckIsTruthful). `ReceiverInv` follows a run of pair-receive: while it listens it has attempts
left, what it confirms and stores came from the sender its connection belongs to, that sender sealed for this run, and an ack of "ok"
is only ever about to be sent when the secret is stored. `SenderInv` says that who has not started has sealed for nobody.

TuiApp, under `Spec`: all its invariants (`TypeCorrect`, `SelectionStaysOnTheList`, `ListTellsTheFile`, `AddingReplacesNothing`, `LockedIsEmpty`) and
both action properties (`PlaintextIsWiped`, `RevealStaysPut`). They need each other: the invariant `IInv` adds to them that memory and
file of an open App agree outside `failed` (`OpenInv`), and that a form that adds is about a name the list does not have while one
that edits or deletes is about the selected one (`FormInv`). The proofs about the selection rest on two lemmas: a member's rank
is a position of the list (from the cardinality of a strict subset), and so is a clamped selection. RevealStaysPut follows because every step that changes the
selection and leaves the reveal running adds a name the list did not have, takes one away that it had, or saves the selected one.

Clipboard, under `Spec`: `TypeCorrect` and `SecretsAreCleared` (ClearedWhileRunning), by `CoverInv`: as long as the UI's secret is on the clipboard some sleeping
thread has a tool that works and wakes up in time.

Sharing, under `Spec`: `TypeCorrect`, `SuccessIsComplete`, `ThresholdReconstructs`, `WrongSetsAreRejected`. The invariant says of the tokens that exist or
existed (`Kept`) that they belong to runs whose arguments were accepted, and that none of those a run is past is missing; create_new is what
keeps another run from replacing one.

The parts that stand alone (PartsProofs, DataProofs):

- Limits: `LimitsTogether` (LimitsAgree). `LimitsInv` says which limit a secret has been held to wherever it is. The arithmetic is in two
  lemmas: what the editor can hold fits a put, a LAN read and a bundle, and what a bundle can hold fits an answer.
- VaultHeader: `VaultsWrittenAreRead` (WrittenHeaderOpens), by `HeaderInv`: the file is what create wrote or one that parse refuses.
  `HeaderLayout` places each field in the 57 bytes, `NumberIsRead` says that the four bytes of a number within the limits give it back, and
  `ValidIsDerivable` that every set of parameters the checks admit is one Argon2id takes.
- Generation: `NoCharacterIsFavoured` (CharactersAreUnbiased): the accepted bytes that make a character are, by division, in bijection
  with 1..Fits(n).
- Also Generation: `PhrasesReadTheStream` (WordsReadTheStream), in DataProofs, for any number of words and lists of up to 2^16 (`MaxBits`). The bits of the bytes make one
  stream (`BitsOf`); the number of its first m + n bits is 2^n times that of the first m plus that of the n behind them (`BitsBehind`), so words and
  bytes are two ways to cut the same stream.
- Shamir: `EnoughSharesGiveTheSecret` (EnoughSharesReconstruct) and `FewSharesSayNothing` (FewSharesHide), over any field of bytes. `ShamirInv` says that shares that were made
  are the values of polynomials (`Made`) with as many coefficients as the threshold, and the secret at 0. `FieldLaws` gets associativity and
  distributivity from IsField by going through the powers of the generator. From there: the functions eval_poly computes are the set
  `Pol(k)`, closed under sums and multiples; one with a root is divisible (`PolDivided`); one with k roots in Pol(k) is zero
  (`TooManyRoots`). What reconstruct computes is the value at 0 of a polynomial through the points (`Interpolates`), so of the one that was
  dealt (`InterpolationIsExact`); and some polynomial takes any m - 1 values and any value at 0 (`AnyValuesAtPoints`).
- Totp: `SecretsReadBack` (StoredReadsBack) and `CodesLastAsLongAsShown` (ValidForAsLongAsShown), by `TotpInv`: what is stored parses to what was meant. The encoder
  and the decoder are followed byte by byte, with the bits that wait between two characters; what the 16 bits of an accumulator forget
  is never read.
- Editor: `WhatIsTypedIsKept` (TypedIsKept), by `EditorInv`: the buffer is the bytes of the text followed by zeros, for any capacity, and a value
  cut within a character is cut there on the screen too.

These go through recursive functions over sequences, and the library's induction theorems cannot be used (they take an operator). The
modules therefore have induction in the form of a set: `SetInduction` follows from the well-foundedness of the strict subsets of a finite set, and
`RecursionExists` builds the function a recursion defines step by step; `StepByStep` says that there is only one.

Liveness. Each theorem has the form FairSpec /\ []E => P, where E is the invariant of section 4 that says when the fair steps
are possible: the prover cannot look into ENABLED, so what the guards allow is a hypothesis, and TLC checks it in the run that
checks P. Everything else (which steps lead on, that no other step leads back, that the end is reached) is proved, for every value of the constants.

- TuiApp: `AppsLeftAloneLock` (IdleVaultLocks). A poll brings the deadline closer or locks, and only a key takes it back (`PollStep`); by
  induction over the ticks that are left, an App that gets no key locks.
- AgentService: `AskedAreAnswered` (AskedIsAnswered). Every place in the queue is worth more than the longest idle time there can be
  (`Span`), so that the sum of a command's place and the time left until the watchdog acts (`Near`, `Slack`) falls with every accept, although accepting
  sets the clock back, and with every tick and nap. When nothing is left the watchdog has expired, and its exit resets
  whoever waits. No assumption on the clients: the one being served may be silent for ever.
- Pairing: `SendersReturn` (SenderReturns) goes through the stages of pair-send; the read timeout ends the last one.
  `BundlesAreOpened` (BundleIsOpened) assumes no more peers than attempts, finitely many: with more the code gives up. `CountInv` says that a run's
  attempts and its backlog together are no more than the peers that have connected, so a run that has a bundle in its backlog has
  an attempt left for it; each accept and each read, failed read or deadline brings the bundle nearer (`Near`).
- AgentLifecycle: `CommandsComeBack` (CommandsReturn) and `QuietAgentsEnd` (AgentsEnd). `Onward` and `Forward` say what any step may do to
  an agent, and what its own does: from "stdin" each of its own steps is one nearer to an answer, or its end. A signin waits first for its own
  write, then for the agent it spawned, which waits for nobody but the parent that closes stdin (`StdinIsClosed`); a signout waits
  for an agent that serves, whose request is handled, or that ends, which resets the connection.

An induction over ticks or places is one over a temporal formula; there the number is rigid and the formula is proved for n + 1 from
the formula for n (`LocksFrom`, `ServedFrom`, `SettledFrom`).

Only model-checked:

- ProcessesMove, WatchdogIsFree, ProgramsMove, TickIsEnabled: ENABLED is beyond the prover. They are invariants about single states and the guards
  of single steps, without fairness.
- ArithmeticIsGF256. It has no parameter: TLC looks at every product and every inverse there is, and a theorem would say no more. It
  is also what makes the theorems about Shamir apply to the code.
- The violation runs, which show that something can happen.

## 7. What is not modelled

- Encryption, the KEM, commitments, Argon2id and the hash chain: pure functions with their own tests, abstracted as in section 2. The bytes of
  frames and bundles; their lengths are in Limits.
- Power loss and file systems that reorder; a remote file system under the vault or the socket.
- The RAM store, which no command reaches; argument parsing, path lookup, rendering, the empty FFI entry points, the Lean model, the scripts.
- That a name has no control character: a pure function with tests. Its length is in Limits.
- vdf_calibrate, which measures the machine.
- Reading a secret from a terminal and printing it.

## 8. Plan

Done: all components that keep state, alone and where they meet (processes on the vault file, commands and agents, two devices, files of
several splits); the proofs of section 6.

What could be added, in this order:

1. Power loss as an action of VaultStore, with content that is not yet on the disk; ReplyTellsTheDisk would then fail without a sync.
2. Frames cut at any byte and the answer to `list` at its limit, composed with AgentService.
3. Word lists of more than 2^16 words, with the powers of two as a recursive function; the bundled list has 2^11.
