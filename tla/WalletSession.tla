--------------------------- MODULE WalletSession ---------------------------
(***************************************************************************)
(* An unlocked session of the wallet (frontend-lib/custody): the phrase in *)
(* JavaScript (sessionSeed.ts), the WalletManager, the vault record of     *)
(* saveWalletData and loadWalletData (encryptedSessionManager.ts), and the *)
(* flag that the backup of a new phrase has yet to be confirmed            *)
(* (seedBackupGate.ts).                                                    *)
(*                                                                         *)
(* External: the product code that calls these functions in any order, and *)
(* walletKV, which answers from memory and is flushed to the browser's     *)
(* storage later.  A lock is two of these calls, clearSessionMnemonic and  *)
(* clear_wallet: logout, the session timeout and resetWallet make neither, *)
(* and logout and the timeout remove nothing that is modelled here.        *)
(* Passwords have the 8 characters that encryptSensitiveData asks for.     *)
(***************************************************************************)
EXTENDS WalletCore

CONSTANTS
  Vaults,    \* what may be stored in the beginning
  Outdated   \* an address that an older version stored

VARIABLES
  live, backup,   \* sessionSeedPhrase and seedPhraseBackup
  vault,          \* None or the encrypted wallet record
  local, kv, flushed, legacy,  \* the backup flag in localStorage, walletKV,
                               \* the storage under it and sessionStorage
  localWorks,     \* whether localStorage can be used
  marking,        \* a markSeedBackupPendingAsync waits for its flush
  load,           \* None or a loadWalletData that waits
  wallet,         \* auxiliary: the phrase and password last stored
  revived,        \* auxiliary: a load has written a record back after a
                  \* later one
  gate, unflushed      \* auxiliary: what was last done to the flag, and
                       \* whether it was lost before the flush

session == <<live, backup>>
stored == <<vault, wallet, revived>>
flag == <<local, kv, flushed, legacy, localWorks, marking, gate, unflushed>>
vars == <<manager, session, stored, flag, load>>

Maybe(S) == S \cup {None}
Records == [blob : [content : Phrases,
                    sealedWith : [password : Passwords, iterations : Nat],
                    iterations : Nat],
            password : Passwords, index : Indices,
            address : [address : Keys] \cup {Outdated}]

\* A record opens with its own password; its address is that of its account
\* unless an older version stored it.
Sealed(record) ==
  record.blob.sealedWith = DeriveKey(record.password, record.blob.iterations)

Current(record) ==
  /\ record.index \in Derivable
  /\ record.address = DerivePublicKeyBip44(record.blob.content, record.index)

ASSUME VaultsAssumption ==
  \A record \in Vaults \ {None} :
    /\ record \in Records /\ Sealed(record)
    /\ record.address # Outdated => Current(record)

ASSUME RecordAssumption ==
  /\ None \notin Records \cup [phrase : Phrases, password : Passwords]
  /\ Outdated \notin {None} \cup [address : Keys]

TypeOK ==
  /\ initialized = (key # None)
  /\ key # None => key.phrase \in Phrases /\ key.path[3] \in Derivable
  /\ secured \in Maybe(Texts \ {Blank})
  /\ live \in Maybe(Texts \ {Blank}) /\ backup \in Maybe(Texts \ {Blank})
  /\ vault \in Maybe(Records)
  /\ \A b \in {local, kv, flushed, legacy, localWorks, marking, revived,
               unflushed} : b \in BOOLEAN
  /\ local => localWorks
  /\ load # None => load.record \in Records
  /\ gate \in {"none", "marked", "cleared", "raced"}

Init ==
  /\ ManagerInit
  /\ live = None /\ backup = None
  /\ vault \in Vaults
  /\ wallet = IF vault = None THEN None
              ELSE [phrase |-> vault.blob.content, password |-> vault.password]
  /\ local = FALSE /\ kv = FALSE /\ flushed = FALSE /\ marking = FALSE
  /\ legacy \in BOOLEAN /\ localWorks \in BOOLEAN
  /\ load = None
  /\ revived = FALSE
  /\ gate = "none" /\ unflushed = FALSE

---------------------------------------------------------------------------
(* sessionSeed.ts.                                                         *)

ClearSessionMnemonic == live' = None /\ backup' = None

\* Slip: blank text is kept.
SetSessionMnemonicAny(text) == live' = text /\ backup' = text

SetSessionMnemonic(text) ==
  IF text = Blank THEN ClearSessionMnemonic
  ELSE live' = text /\ backup' = text

\* A lost live copy is restored from the backup.
GetSessionMnemonic == IF live = None THEN backup ELSE live

---------------------------------------------------------------------------
(* seedBackupGate.ts.                                                      *)

WriteLocal(value) == local' = (value /\ localWorks)

Mark == WriteLocal(TRUE) /\ kv' = TRUE /\ legacy' = FALSE

Marked == gate' = "marked" /\ unflushed' = FALSE

\* Slip: the flag in walletKV stays.
ClearPendingLocal == WriteLocal(FALSE) /\ legacy' = FALSE /\ UNCHANGED kv

ClearPending == WriteLocal(FALSE) /\ kv' = FALSE /\ legacy' = FALSE

ClearSeedBackupPending ==
  /\ ClearPending
  /\ gate' = "cleared"
  /\ unflushed' = FALSE
  /\ UNCHANGED <<flushed, localWorks, marking>>

\* Slip: only the flag of the tab is written.
StartMarkingInTab ==
  /\ ~marking
  /\ legacy' = TRUE
  /\ Marked
  /\ UNCHANGED <<local, kv, flushed, localWorks, marking>>

\* The first half, up to the await; one at a time.
StartMarking ==
  /\ ~marking
  /\ marking' = TRUE
  /\ WriteLocal(TRUE) /\ kv' = TRUE
  /\ Marked
  /\ UNCHANGED <<flushed, legacy, localWorks>>

\* The flush succeeds, or it fails and the flag is written a second time,
\* whatever has become of it since.
MarkSeedBackupPendingAsyncEnds ==
  /\ marking
  /\ marking' = FALSE
  /\ \/ flushed' = TRUE /\ UNCHANGED <<kv, gate>>
     \/ /\ kv' = TRUE /\ UNCHANGED flushed
        /\ gate' = IF gate = "cleared" THEN "raced" ELSE gate
  /\ legacy' = FALSE
  /\ UNCHANGED <<manager, session, stored, load, local, localWorks, unflushed>>

Pending == local \/ kv \/ legacy

\* Whoever asks copies the flag to where it is looked for first.
IsSeedBackupPending ==
  /\ Pending
  /\ \/ kv /\ WriteLocal(TRUE) /\ UNCHANGED <<kv, legacy, gate, unflushed>>
     \/ ~local /\ ~kv /\ Mark /\ Marked
  /\ UNCHANGED <<manager, session, stored, load, flushed, localWorks, marking>>

\* External: walletKV.
Flush ==
  /\ flushed # kv
  /\ flushed' = kv
  /\ UNCHANGED <<manager, session, stored, load, local, kv, legacy, localWorks,
                 marking, gate, unflushed>>

---------------------------------------------------------------------------
(* The vault record.                                                       *)

SaveWalletData(text, password, index) ==
  /\ vault' = [blob |-> EncryptData(text, password), password |-> password,
               index |-> index, address |-> DerivePublicKeyBip44(text, index)]
  /\ wallet' = [phrase |-> text, password |-> password]
  /\ UNCHANGED revived

\* loadWalletData reads the record and waits; a wrong password ends it.
LoadWalletData(password) ==
  /\ vault # None /\ load = None
  /\ password = vault.password /\ DecryptData(vault.blob, password) # None
  /\ load' = [record |-> vault, wallet |-> wallet]
  /\ UNCHANGED <<manager, session, stored, flag>>

\* A record with another address is written back, as it was read.
Repair(address) ==
  IF address \in {None, load.record.address} THEN UNCHANGED stored
  ELSE /\ vault' = [load.record EXCEPT !.address = address]
       /\ revived' = (revived \/ wallet # load.wallet)
       /\ UNCHANGED wallet

Loaded == DecryptData(load.record.blob, load.record.password)

LoadEnds ==
  /\ load # None
  /\ LET both == DeriveDualNetworkAddresses(Loaded, load.record.index)
     IN both # None /\ Repair(both.solana)
  /\ load' = None
  /\ UNCHANGED <<manager, session, flag>>

\* Without the two addresses the phrase is imported to derive one.
LoadImports ==
  /\ load # None
  /\ ImportFromSeedPhrase(Loaded, load.record.index)
  /\ Repair(DerivePublicKeyBip44(Loaded, load.record.index))
  /\ load' = None
  /\ UNCHANGED <<session, flag>>

\* Neither works: the record's address is taken.
LoadUnderived ==
  /\ load # None
  /\ load' = None
  /\ UNCHANGED <<manager, session, stored, flag>>

---------------------------------------------------------------------------
(* The flows.                                                              *)

CreateWallet(phrase, password) ==
  /\ vault = None
  /\ phrase \notin {live, secured} /\ (key # None => phrase # key.phrase)
  /\ GenerateNewWallet(phrase)
  /\ SaveWalletData(phrase, password, 0)
  /\ SetSessionMnemonic(phrase)
  /\ StartMarking
  /\ UNCHANGED load

ConfirmSeedBackup ==
  /\ Pending
  /\ ClearSecuredMnemonic
  /\ ClearSeedBackupPending
  /\ UNCHANGED <<session, stored, load>>

\* The words are checked before.
ImportWallet(text, password) ==
  /\ vault = None /\ Parses(text)
  /\ ImportFromSeedPhrase(text, 0)
  /\ SaveWalletData(text, password, 0)
  /\ SetSessionMnemonic(text)
  /\ UNCHANGED <<flag, load>>

\* Another seed phrase, or another account of the session's phrase.
ImportSeed(text, index) ==
  /\ ImportFromSeedPhrase(text, index)
  /\ UNCHANGED <<session, stored, flag, load>>

SelectAccount(index) ==
  /\ GetSessionMnemonic # None
  /\ live' = GetSessionMnemonic
  /\ ImportFromSeedPhrase(GetSessionMnemonic, index)
  /\ UNCHANGED <<backup, stored, flag, load>>

RestoreSeed(text, index) ==
  /\ FromSeedPhrase(text, index)
  /\ UNCHANGED <<session, stored, flag, load>>

RememberPhrase(text) ==
  /\ SetSessionMnemonic(text)
  /\ UNCHANGED <<manager, stored, flag, load>>

\* A wrong password changes nothing.
Unlock(password) ==
  /\ vault # None
  /\ FromEncryptedSeedPhrase(vault.blob, password, vault.index)
  /\ IF DecryptData(vault.blob, password) = None THEN UNCHANGED session
     ELSE SetSessionMnemonic(DecryptData(vault.blob, password))
  /\ UNCHANGED <<stored, flag, load>>

\* The two halves of a lock.  Neither knows of a load that waits.
ForgetPhrase ==
  /\ ClearSessionMnemonic
  /\ UNCHANGED <<manager, stored, flag, load>>

ForgetKey ==
  /\ ClearWallet
  /\ UNCHANGED <<session, stored, flag, load>>

\* The stores and the flag go; phrase and key stay, and so does a load.
ResetWallet ==
  /\ vault' = None /\ wallet' = None /\ revived' = FALSE
  /\ ClearSeedBackupPending
  /\ UNCHANGED <<manager, session, load>>

\* The page is loaded anew, in the same tab or in another popup.
Reload(sameTab) ==
  /\ ClearWallet
  /\ ClearSessionMnemonic
  /\ load' = None /\ marking' = FALSE
  /\ kv' = flushed
  /\ unflushed' = (unflushed \/ kv # flushed)
  /\ legacy' = (legacy /\ sameTab)
  /\ UNCHANGED <<stored, local, flushed, localWorks, gate>>

Next ==
  \/ \E password \in Passwords :
       \/ \E text \in Phrases :
            CreateWallet(text, password) \/ ImportWallet(text, password)
       \/ Unlock(password)
       \/ LoadWalletData(password)
  \/ \E text \in Texts :
       \/ RememberPhrase(text)
       \/ \E index \in Indices : ImportSeed(text, index) \/ RestoreSeed(text, index)
  \/ \E index \in Indices : SelectAccount(index)
  \/ LoadEnds \/ LoadImports \/ LoadUnderived
  \/ ConfirmSeedBackup
  \/ MarkSeedBackupPendingAsyncEnds \/ IsSeedBackupPending \/ Flush
  \/ ForgetPhrase \/ ForgetKey \/ ResetWallet
  \/ \E sameTab \in BOOLEAN : Reload(sameTab)

Spec == Init /\ [][Next]_vars

---------------------------------------------------------------------------
(* Properties.                                                             *)

\* The mark of a backup that is not confirmed survives reloads; without a
\* localStorage it has to be flushed before.
PendingKept == gate = "marked" /\ (localWorks \/ ~unflushed) => Pending

\* A confirmed backup is not asked for again, also when the mark was still
\* waiting for its flush.  Two cases bring it back: that flush fails and the
\* mark is written again, and the page goes before the removal is flushed.
ClearedStays == gate = "cleared" /\ ~unflushed => ~Pending

\* The phrase shown for backup is the one of the loaded key, unless another
\* phrase was loaded without it or an import failed after replacing it.
ShownPhraseExplained ==
  GetMnemonicForBackupDisplay # None /\ key # None /\ apart = {} =>
    GetMnemonicForBackupDisplay = key.phrase

\* The stored vault is the wallet last stored and opens with its password,
\* whatever iterations it was sealed with, unless a load that began before
\* wrote back an older record.
EveryVaultOpens ==
  ~revived =>
    IF wallet = None THEN vault = None
    ELSE vault # None /\ DecryptData(vault.blob, wallet.password) = wallet.phrase

\* What is signed, exported, verified and handed to the server for a vault
\* goes back to the keys of the addresses that are shown for it.
KeysAgree ==
  vault # None /\ vault.address # Outdated =>
    LET blob == vault.blob
        password == vault.password
        index == vault.index
        both == DeriveDualNetworkAddresses(DecryptData(blob, password), index)
        escrow == DeriveAndEncryptForServer(blob, password, index, "server")
        stellar == SignStellarTransactionHash(blob, password, index, "hash")
    IN /\ both.solana = vault.address
       /\ VerifyPrivateKeySecure(blob, password, index, vault.address)
       /\ Address(ExportPrivateKeyFromEncrypted(blob, password, index)) = vault.address
       /\ Address(escrow.server.content) = vault.address
       /\ DecryptData(escrow.client, password) = escrow.server.content
       /\ Address(stellar.by) = both.soroban
       /\ DeriveSorobanAddress(blob, password, index) = both.soroban
       /\ key # None /\ key.phrase = DecryptData(blob, password) /\ key.path[3] = index =>
            GetPublicKey = vault.address /\ Address(SignMessage("hash").by) = vault.address
=============================================================================
