----------------------------- MODULE WalletCore -----------------------------
(***************************************************************************)
(* The wallet in WebAssembly (rust-wasm): the key and the phrase that the  *)
(* WalletManager holds, its operations on them, what it derives from a     *)
(* phrase, and the vault encryption of CryptoManager.  Calls run to their  *)
(* end one at a time.                                                      *)
(*                                                                         *)
(* External: SLIP-10 gives a key for a phrase and a path with an index     *)
(* that it accepts; PBKDF2 and AES-GCM give back a plaintext for the       *)
(* password and iterations it was sealed with and fail otherwise.  A call  *)
(* that fails answers None.  Salts, nonces and encodings are left out.     *)
(***************************************************************************)
EXTENDS Naturals, Sequences

CONSTANTS
  None,
  Phrases,     \* texts that are BIP-39 phrases in English
  Blank,       \* the empty text
  Misspelt,    \* other texts
  Passwords,
  Indices,     \* account indices
  Derivable,   \* those of them that SLIP-10 takes in a hardened path
  Iterations   \* of PBKDF2 when sealing, 900000 in the code

Keys == [phrase : Phrases, path : Seq(Nat)]

ASSUME WalletAssumption ==
  /\ None \notin Phrases \cup Misspelt \cup {Blank} \cup Passwords
  /\ None \notin Keys \cup [address : Keys]
  /\ Blank \notin Phrases \cup Misspelt
  /\ Phrases \cap Misspelt = {}
  /\ Indices \subseteq Nat /\ Derivable \subseteq Indices
  /\ 0 \in Derivable
  /\ Iterations \in Nat

Texts == Phrases \cup Misspelt \cup {Blank}

VARIABLES
  initialized, key, secured,  \* is_initialized, current_keypair and
                              \* secured_mnemonic of the WalletManager
  apart        \* auxiliary: why the phrase may not be the one of the key

manager == <<initialized, key, secured, apart>>

---------------------------------------------------------------------------
(* Keys.  A key is what SLIP-10 derives, an address its public half.       *)

\* External: slip10.
Slip10(text, path) ==
  IF path[3] \in Derivable THEN [phrase |-> text, path |-> path] ELSE None

Address(k) == IF k = None THEN None ELSE [address |-> k]

\* networks/mod.rs.
DerivationPath(network, index) ==
  IF network = "solana" THEN <<44, 501, index, 0>>
                        ELSE <<44, 148, index>>

\* The path that lib.rs spells out.
SolanaPath(index) == <<44, 501, index, 0>>

\* Mnemonic::parse_in_normalized.
Parses(text) == text \in Phrases

DerivePublicKeyBip44(text, index) ==
  IF Parses(text) THEN Address(Slip10(text, SolanaPath(index))) ELSE None

\* Slip: the account index is left out of the path.
DerivePrivateKeyAtZero(text, index) ==
  IF Parses(text) THEN Slip10(text, SolanaPath(0)) ELSE None

DerivePrivateKeyBip44(text, index) ==
  IF Parses(text) THEN Slip10(text, SolanaPath(index)) ELSE None

\* Here the text may be in any language that the library is built with,
\* which is English only.
VerifyPrivateKeyInternal(text, index, expected) ==
  IF Parses(text) /\ Slip10(text, SolanaPath(index)) # None
  THEN Address(Slip10(text, SolanaPath(index))) = expected
  ELSE None

DeriveSolanaAddress(text, index) ==
  Address(Slip10(text, DerivationPath("solana", index)))

SorobanKey(text, index) == Slip10(text, DerivationPath("soroban", index))

\* Both addresses or none.
DeriveDualNetworkAddresses(text, index) ==
  IF /\ Parses(text)
     /\ DeriveSolanaAddress(text, index) # None
     /\ SorobanKey(text, index) # None
  THEN [solana |-> DeriveSolanaAddress(text, index),
        soroban |-> Address(SorobanKey(text, index))]
  ELSE None

---------------------------------------------------------------------------
(* CryptoManager.  A blob carries the iterations it was sealed with.       *)

DeriveKey(password, iterations) ==
  [password |-> password, iterations |-> iterations]

EncryptData(plain, password) ==
  [content |-> plain, sealedWith |-> DeriveKey(password, Iterations),
   iterations |-> Iterations]

\* Slip: the key is derived with the iterations of new blobs.
DecryptDataCurrent(blob, password) ==
  IF blob.sealedWith = DeriveKey(password, Iterations)
  THEN blob.content ELSE None

DecryptData(blob, password) ==
  IF blob.sealedWith = DeriveKey(password, blob.iterations)
  THEN blob.content ELSE None

---------------------------------------------------------------------------
(* Calls that take the encrypted phrase and leave the manager alone.       *)

DeriveSorobanAddress(blob, password, index) ==
  LET text == DecryptData(blob, password)
  IN IF Parses(text) THEN Address(SorobanKey(text, index)) ELSE None

ExportPrivateKeyFromEncrypted(blob, password, index) ==
  DerivePrivateKeyBip44(DecryptData(blob, password), index)

VerifyPrivateKeySecure(blob, password, index, expected) ==
  VerifyPrivateKeyInternal(DecryptData(blob, password), index, expected)

\* The Solana key for the server and, under the password, for the client.
DeriveAndEncryptForServer(blob, password, index, serverKey) ==
  LET k == DerivePrivateKeyBip44(DecryptData(blob, password), index)
  IN IF k = None THEN None
     ELSE [client |-> EncryptData(k, password),
           server |-> [content |-> k, sealedFor |-> serverKey]]

\* The signature names the key that made it.
SignStellarTransactionHash(blob, password, index, hash) ==
  LET text == DecryptData(blob, password)
  IN IF Parses(text) /\ SorobanKey(text, index) # None
     THEN [hash |-> hash, by |-> SorobanKey(text, index)]
     ELSE None

---------------------------------------------------------------------------
(* Calls that read the manager.                                            *)

GetPublicKey == Address(key)

SignMessage(message) ==
  IF key = None THEN None ELSE [hash |-> message, by |-> key]

IsWalletLoaded == initialized /\ key # None

\* The phrase stays available.
GetMnemonicForBackupDisplay == secured

---------------------------------------------------------------------------
(* Calls that change the manager.                                          *)

ManagerInit ==
  /\ initialized = FALSE
  /\ key = None
  /\ secured = None
  /\ apart = {}

\* derive_public_key_bip44_and_store_keypair: a failure leaves the old key.
StoreKeypair(text, index) ==
  LET k == IF Parses(text) THEN Slip10(text, SolanaPath(index)) ELSE None
  IN IF k = None THEN UNCHANGED <<key, initialized>>
     ELSE key' = k /\ initialized' = TRUE

Loads(text, index) == Parses(text) /\ index \in Derivable

\* The phrase is new; it is kept before the key is derived.
GenerateNewWallet(phrase) ==
  /\ phrase \in Phrases
  /\ secured' = phrase
  /\ StoreKeypair(phrase, 0)
  /\ apart' = {}

FromSeedPhrase(text, index) ==
  /\ StoreKeypair(text, index)
  /\ apart' = IF Loads(text, index) THEN apart \cup {"from_seed_phrase"} ELSE apart
  /\ UNCHANGED secured

\* What an import does to the phrase on display: at index 0 it replaces it,
\* also when the text turns out not to be a phrase.
Explained(text, index) ==
  LET failed == index = 0 /\ text \notin Phrases \cup {Blank}
      other == index # 0 /\ Loads(text, index) /\ text # secured
  IN apart' = IF index = 0 /\ Loads(text, 0) THEN {}
              ELSE apart \cup (IF failed THEN {"failed_import"} ELSE {})
                         \cup (IF other THEN {"other_phrase"} ELSE {})

\* Slip: an import does not touch the phrase on display.
ImportFromSeedPhraseKeyOnly(text, index) ==
  /\ UNCHANGED secured
  /\ StoreKeypair(text, index)
  /\ Explained(text, index)

ImportFromSeedPhrase(text, index) ==
  /\ secured' = IF index = 0 /\ text # Blank THEN text ELSE secured
  /\ StoreKeypair(text, index)
  /\ Explained(text, index)

FromEncryptedSeedPhrase(blob, password, index) ==
  IF DecryptData(blob, password) = None THEN UNCHANGED manager
  ELSE ImportFromSeedPhrase(DecryptData(blob, password), index)

ClearSecuredMnemonic ==
  /\ secured' = None
  /\ apart' = {}
  /\ UNCHANGED <<key, initialized>>

ClearWallet ==
  /\ initialized' = FALSE
  /\ key' = None
  /\ secured' = None
  /\ apart' = {}
=============================================================================
