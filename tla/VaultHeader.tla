----------------------------- MODULE VaultHeader -----------------------------
(***************************************************************************)
(* The header of a vault file: VaultHeader and validate_kdf_params of      *)
(* src/storage/local_store.rs, and what derive_key (src/crypto/vdf_kdf.rs) *)
(* and the Argon2 library accept.  The header is 57 bytes: magic, version, *)
(* salt, and the four cost parameters of the key derivation, little-endian.*)
(*                                                                         *)
(* Abstracted: the passphrase and the key.                                 *)
(* A parameter is below 2^31, where TLC's integers end.                    *)
(***************************************************************************)
EXTENDS Naturals, Sequences

CONSTANTS Times, Memories, Threads, Iterations,  \* the parameters tried
          Salts,      \* the salts drawn, as sequences of bytes
          None, Err

VARIABLES made,   \* the parameters create was called with
          file,   \* the vault file: its bytes up to the ciphertext, or None
          read    \* what open made of it

vars == <<made, file, read>>

Byte == 0..255

MAGIC == <<83, 83, 86, 49>>
HEADER_VERSION == 1
SALT_LEN == 32
HEADER_LEN == 4 + 1 + SALT_LEN + 4 + 4 + 4 + 8
MIN_ARGON_MEMORY_KIB == 8 * 1024
MAX_ARGON_MEMORY_KIB == 1024 * 1024
MAX_VDF_ITERATIONS == 50000000

Params == [time : Times, memory : Memories, threads : Threads, vdf : Iterations, salt : Salts]

(* What the constants may be.                                              *)
InputsAreSound ==
  /\ Times \cup Memories \cup Threads \cup Iterations \subseteq Nat
  /\ Salts \subseteq [1..SALT_LEN -> Byte]
  /\ None \notin Params \cup {Err, <<>>} /\ Err \notin Params

(* validate_kdf_params.                                                    *)
ValidKdfParams(p) ==
  /\ p.time \in 1..32
  /\ p.memory >= MIN_ARGON_MEMORY_KIB /\ p.memory <= MAX_ARGON_MEMORY_KIB
  /\ p.threads \in 1..16
  /\ p.vdf <= MAX_VDF_ITERATIONS

(* derive_key, and Params::new of the argon2 crate.                        *)
Derivable(p) ==
  p.vdf <= MAX_VDF_ITERATIONS /\ p.time >= 1 /\ p.threads >= 1 /\ p.memory >= 8 * p.threads

u32_to_le_bytes(v) ==
  <<v % 256, (v \div 256) % 256, (v \div 65536) % 256, (v \div 16777216) % 256>>
u64_to_le_bytes(v) == u32_to_le_bytes(v) \o <<0, 0, 0, 0>>

(* The number at an offset of the header.                                  *)
u32_from_le_bytes(data, off) ==
  data[off + 1] + 256 * (data[off + 2] + 256 * (data[off + 3] + 256 * data[off + 4]))
u64_from_le_bytes(data, off) ==
  data[off + 1] + 256 * (data[off + 2] + 256 * (data[off + 3] + 256 * (data[off + 4]
    + 256 * u32_from_le_bytes(data, off + 4))))

(* Mutated: the fields are written in the order of the library's arguments.*)
MemoryFirst(p) ==
  MAGIC \o <<HEADER_VERSION>> \o p.salt
    \o u32_to_le_bytes(p.memory) \o u32_to_le_bytes(p.time) \o u32_to_le_bytes(p.threads)
    \o u64_to_le_bytes(p.vdf)

to_bytes(p) ==
  MAGIC \o <<HEADER_VERSION>> \o p.salt
    \o u32_to_le_bytes(p.time) \o u32_to_le_bytes(p.memory) \o u32_to_le_bytes(p.threads)
    \o u64_to_le_bytes(p.vdf)

parse(data) ==
  IF \/ Len(data) < HEADER_LEN
     \/ SubSeq(data, 1, 4) # MAGIC \/ data[5] # HEADER_VERSION
    THEN Err
    ELSE LET off == 5 + SALT_LEN
             p == [salt |-> SubSeq(data, 6, off), time |-> u32_from_le_bytes(data, off),
                   memory |-> u32_from_le_bytes(data, off + 4),
                   threads |-> u32_from_le_bytes(data, off + 8),
                   vdf |-> u64_from_le_bytes(data, off + 12)]
         IN  IF ValidKdfParams(p) THEN p ELSE Err

Init == made = None /\ file = None /\ read = None

-----------------------------------------------------------------------------
(* create, up to the save: a refused one makes no file, a derivation that  *)
(* fails leaves the empty one.                                             *)
Create(p) ==
  /\ made = None
  /\ made' = p
  /\ file' = IF ~ValidKdfParams(p) THEN None ELSE IF Derivable(p) THEN to_bytes(p) ELSE <<>>
  /\ UNCHANGED read

(* The file is cut short, or another program's, or a later version's.      *)
Replace ==
  /\ file # None /\ file = to_bytes(made) /\ read = None
  /\ \E i \in {1, 5} : file' \in {SubSeq(file, 1, HEADER_LEN - i), [file EXCEPT ![i] = @ + 1]}
  /\ UNCHANGED <<made, read>>

(* open, up to the key: the derivation is asked with what the header says. *)
Open ==
  /\ file # None /\ read = None
  /\ read' = LET p == parse(file) IN IF p # Err /\ Derivable(p) THEN p ELSE Err
  /\ UNCHANGED <<made, file>>

Next == Open \/ Replace \/ \E p \in Params : Create(p)

Spec == Init /\ [][Next]_vars

-----------------------------------------------------------------------------
(* What create accepts can be derived, at every limit, and open derives    *)
(* from the same parameters: no vault is made that nothing opens again, or *)
(* that opens with other costs than it was made with.  A file that is not  *)
(* such a vault is refused.                                                *)
WrittenHeaderOpens ==
  /\ made # None /\ ValidKdfParams(made) => Len(file) # 0
  /\ read # None => read = IF file = to_bytes(made) THEN made ELSE Err
=============================================================================
