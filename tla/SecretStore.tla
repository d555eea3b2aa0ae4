----------------------------- MODULE SecretStore -----------------------------
(***************************************************************************)
(* The secrets of oracle.cjs at rest: _encrypt, _decrypt, loadSecrets and  *)
(* saveSecret under an ORACLE_ENCRYPTION_KEY that the operator may set,    *)
(* change or drop from one start to the next.                              *)
(*                                                                         *)
(* An entry is the key it was encrypted with, or PLAIN.  What happens to   *)
(* the file when the process dies or a write fails is module Oracle.       *)
(***************************************************************************)
EXTENDS Integers

CONSTANTS
    Commits,          \* commitments, each submitted once
    Keys32,           \* well-formed keys
    PLAIN,            \* no key: an entry is the secret in hex
    BADKEY,           \* a key the cipher refuses
    MaxStarts         \* bound of the model

NONE == "none"

ASSUME SecretStoreAssumption ==
    /\ PLAIN \notin Keys32 /\ BADKEY \notin Keys32 /\ PLAIN # BADKEY
    /\ NONE \notin Keys32 \cup {PLAIN, BADKEY}
    /\ MaxStarts \in Nat

VARIABLES
    ENCRYPTION_KEY,   \* of the running process
    secretsFile,      \* commitment -> how its entry is written, or NONE
    knownSecrets,     \* commitments whose secrets the process knows
    onChain,          \* commitment -> key of the process that submitted it (history)
    starts            \* (history)

storeVars == <<ENCRYPTION_KEY, secretsFile, knownSecrets, onChain, starts>>

SecretStoreInit ==
    /\ ENCRYPTION_KEY \in Keys32 \cup {PLAIN, BADKEY}
    /\ secretsFile = [c \in Commits |-> NONE]
    /\ knownSecrets = {}
    /\ onChain = [c \in Commits |-> NONE]
    /\ starts = 0

\* _decrypt: a plain entry is read under any key, an encrypted one only under
\* its own; any other throws.
Decrypts(entry, key) == entry = PLAIN \/ (entry \in Keys32 /\ entry = key)

\* loadSecrets leaves out, with a message, what it cannot decrypt.
Loaded(key) == {c \in Commits : Decrypts(secretsFile[c], key)}

\* Faulty: what is written is what the process could read.
SavedFromMemory(c) ==
    [d \in Commits |-> IF d = c \/ d \in Loaded(ENCRYPTION_KEY) THEN ENCRYPTION_KEY ELSE NONE]

\* saveSecret writes the raw entries of the others back as they are.
Saved(c) == [secretsFile EXCEPT ![c] = ENCRYPTION_KEY]

-----------------------------------------------------------------------------

\* The commitment lands, its secret is saved, and then the loop knows it.
SubmitCommitment(c) ==
    /\ onChain[c] = NONE
    /\ ENCRYPTION_KEY # BADKEY
    /\ onChain' = [onChain EXCEPT ![c] = ENCRYPTION_KEY]
    /\ secretsFile' = Saved(c)
    /\ knownSecrets' = knownSecrets \cup {c}
    /\ UNCHANGED <<ENCRYPTION_KEY, starts>>

\* The commitment lands, then _encrypt throws: the loop takes it for a failed
\* submission and submits another one.
SubmitUnderBadKey(c) ==
    /\ onChain[c] = NONE
    /\ ENCRYPTION_KEY = BADKEY
    /\ onChain' = [onChain EXCEPT ![c] = BADKEY]
    /\ UNCHANGED <<ENCRYPTION_KEY, secretsFile, knownSecrets, starts>>

\* The operator starts the process again, under any key.
StartWithKey(key) ==
    /\ starts < MaxStarts
    /\ starts' = starts + 1
    /\ ENCRYPTION_KEY' = key
    /\ knownSecrets' = Loaded(key)
    /\ UNCHANGED <<secretsFile, onChain>>

SecretStoreNext ==
    \/ \E c \in Commits : SubmitCommitment(c) \/ SubmitUnderBadKey(c)
    \/ \E key \in Keys32 \cup {PLAIN, BADKEY} : StartWithKey(key)

SecretStoreSpec == SecretStoreInit /\ [][SecretStoreNext]_storeVars

-----------------------------------------------------------------------------
(* Correctness.                                                            *)

\* File, memory and history are well formed.
SecretStoreTypeOK ==
    /\ ENCRYPTION_KEY \in Keys32 \cup {PLAIN, BADKEY}
    /\ secretsFile \in [Commits -> Keys32 \cup {PLAIN, NONE}]
    /\ knownSecrets \subseteq Commits
    /\ onChain \in [Commits -> Keys32 \cup {PLAIN, BADKEY, NONE}]
    /\ starts \in 0..MaxStarts

\* Saving under one key loses no secret saved under another: it is in the file
\* as it was written, through any sequence of keys, and the running process
\* knows it if it has the right key.  Only a key that the cipher refuses
\* leaves commitments on the chain that nobody can reveal.
SecretsSurviveKeys ==
    \A c \in Commits : onChain[c] \notin {NONE, BADKEY} =>
      /\ secretsFile[c] = onChain[c]
      /\ Decrypts(secretsFile[c], ENCRYPTION_KEY) => c \in knownSecrets

=============================================================================
