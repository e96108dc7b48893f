------------------------ MODULE WalletSessionProofs ------------------------
(***************************************************************************)
(* The backup flag is kept and removed when it should be, the phrase on    *)
(* display is the one of the key, and a vault opens to the keys of its     *)
(* address, for any phrases, passwords, indices and stored vaults.  The    *)
(* invariants behind them: GateInv names what each mark of the flag has    *)
(* written; VaultInv that a record which a load under way may write back   *)
(* is the wallet that was stored when it was read; and KeyInv that the     *)
(* loaded key is derived.                                                  *)
(***************************************************************************)
EXTENDS WalletSession, TLAPS

---------------------------------------------------------------------------
(* The backup flag.                                                        *)

Booleans ==
  /\ local \in BOOLEAN /\ kv \in BOOLEAN /\ flushed \in BOOLEAN
  /\ legacy \in BOOLEAN /\ localWorks \in BOOLEAN /\ marking \in BOOLEAN
  /\ unflushed \in BOOLEAN

\* A mark is in localStorage where there is one and in walletKV until it is
\* lost before the flush; once it is removed no store has it, also while a
\* mark waits, until that mark fails and is written again.
GateInv ==
  /\ Booleans
  /\ gate = "marked" => (localWorks => local) /\ (~unflushed => kv)
  /\ gate = "cleared" /\ ~unflushed => ~local /\ ~kv /\ ~legacy

\* What marks, what removes, and what only moves the flag.
LEMMA GateStep == GateInv /\ [Next]_vars => GateInv'
<1> SUFFICES ASSUME GateInv, [Next]_vars PROVE GateInv'
  OBVIOUS
<1>1. ASSUME UNCHANGED flag
      PROVE  GateInv'
  BY <1>1 DEF flag, GateInv, Booleans
<1>2. ASSUME StartMarking
      PROVE  GateInv'
  BY <1>2 DEF StartMarking, WriteLocal, Marked, GateInv, Booleans
<1>3. ASSUME ClearSeedBackupPending
      PROVE  GateInv'
  BY <1>3 DEF ClearSeedBackupPending, ClearPending, WriteLocal, GateInv,
              Booleans
<1>4. ASSUME MarkSeedBackupPendingAsyncEnds
      PROVE  GateInv'
  <2>1. Booleans'
    BY <1>4 DEF MarkSeedBackupPendingAsyncEnds, GateInv, Booleans
  <2>2. UNCHANGED <<local, localWorks, unflushed>> /\ legacy' = FALSE
    BY <1>4 DEF MarkSeedBackupPendingAsyncEnds
  <2>3. CASE UNCHANGED <<kv, gate>>
    BY <2>1, <2>2, <2>3 DEF GateInv
  <2>4. CASE kv' = TRUE /\ gate' = IF gate = "cleared" THEN "raced" ELSE gate
    BY <2>1, <2>2, <2>4 DEF GateInv
  <2> QED
    BY <1>4, <2>3, <2>4 DEF MarkSeedBackupPendingAsyncEnds
<1>5. ASSUME IsSeedBackupPending
      PROVE  GateInv'
  <2>1. /\ localWorks \in BOOLEAN /\ UNCHANGED <<flushed, localWorks, marking>>
    BY <1>5 DEF IsSeedBackupPending, GateInv, Booleans
  <2>2. CASE kv /\ WriteLocal(TRUE) /\ UNCHANGED <<kv, legacy, gate, unflushed>>
    <3>1. local' = localWorks
      BY <2>1, <2>2 DEF WriteLocal
    <3> QED
      BY <2>1, <2>2, <3>1 DEF GateInv, Booleans
  <2>3. CASE Mark /\ Marked
    <3>1. local' = localWorks
      BY <2>1, <2>3 DEF Mark, WriteLocal
    <3> QED
      BY <2>1, <2>3, <3>1 DEF Mark, Marked, GateInv, Booleans
  <2> QED
    BY <1>5, <2>2, <2>3 DEF IsSeedBackupPending
<1>6. ASSUME Flush
      PROVE  GateInv'
  BY <1>6 DEF Flush, GateInv, Booleans
<1>7. ASSUME NEW sameTab \in BOOLEAN, Reload(sameTab)
      PROVE  GateInv'
  BY <1>7 DEF Reload, GateInv, Booleans
<1>8. ASSUME NEW text, NEW password, CreateWallet(text, password)
      PROVE  GateInv'
  BY <1>2, <1>8 DEF CreateWallet
<1>9. ASSUME ConfirmSeedBackup \/ ResetWallet
      PROVE  GateInv'
  BY <1>3, <1>9 DEF ConfirmSeedBackup, ResetWallet
<1>10. ASSUME NEW text, NEW password, NEW index,
              \/ ImportWallet(text, password) \/ Unlock(password)
              \/ LoadWalletData(password) \/ RememberPhrase(text)
              \/ ImportSeed(text, index) \/ RestoreSeed(text, index)
              \/ SelectAccount(index) \/ ForgetPhrase \/ ForgetKey
              \/ LoadEnds \/ LoadImports \/ LoadUnderived
       PROVE  GateInv'
  BY <1>1, <1>10
     DEF ImportWallet, Unlock, LoadWalletData, RememberPhrase, ImportSeed,
         RestoreSeed, SelectAccount, ForgetPhrase, ForgetKey, LoadEnds,
         LoadImports, LoadUnderived
<1>11. CASE UNCHANGED vars
  BY <1>1, <1>11 DEF vars
<1> QED
  BY <1>4, <1>5, <1>6, <1>7, <1>8, <1>9, <1>10, <1>11 DEF Next

LEMMA GateInit == Init => GateInv
  BY DEF Init, GateInv, Booleans

\* A backup that is not confirmed is asked for again after any reload.
THEOREM PendingSurvives == Spec => []PendingKept
<1>1. GateInv => PendingKept
  BY DEF GateInv, Booleans, PendingKept, Pending
<1> QED
  BY <1>1, GateInit, GateStep, PTL DEF Spec

\* A confirmed backup is not asked for again, also when a mark was waiting
\* for its flush; the two cases of ClearedStays, a flush that fails after the
\* confirm and a page that goes before the removal is flushed, are excepted.
THEOREM ClearedForGood == Spec => []ClearedStays
<1>1. GateInv => ClearedStays
  BY DEF GateInv, Booleans, ClearedStays, Pending
<1> QED
  BY <1>1, GateInit, GateStep, PTL DEF Spec

---------------------------------------------------------------------------
(* The phrase on display.                                                  *)

\* What a derivation leaves in the manager.
LEMMA Stored ==
  ASSUME NEW text, NEW index, StoreKeypair(text, index)
  PROVE  key' = IF Loads(text, index)
                THEN [phrase |-> text, path |-> SolanaPath(index)] ELSE key
<1>1. SolanaPath(index)[3] = index
  BY DEF SolanaPath
<1>2. CASE Parses(text) /\ index \in Derivable
  <2>1. Slip10(text, SolanaPath(index))
          = [phrase |-> text, path |-> SolanaPath(index)]
    BY <1>1, <1>2 DEF Slip10
  <2>2. [phrase |-> text, path |-> SolanaPath(index)] \in Keys
    BY <1>2, WalletAssumption DEF Keys, SolanaPath, Parses
  <2> QED
    BY <1>2, <2>1, <2>2, WalletAssumption DEF StoreKeypair, Loads
<1>3. CASE ~(Parses(text) /\ index \in Derivable)
  BY <1>1, <1>3 DEF StoreKeypair, Slip10, Loads
<1> QED
  BY <1>2, <1>3

\* An import replaces the phrase on display together with the key, or says
\* why the two part.
LEMMA ImportExplained ==
  ASSUME ShownPhraseExplained, NEW text, NEW index,
         ImportFromSeedPhrase(text, index)
  PROVE  ShownPhraseExplained'
  BY Stored, WalletAssumption
     DEF ImportFromSeedPhrase, Explained, Loads, Parses, ShownPhraseExplained,
         GetMnemonicForBackupDisplay

\* A key that is loaded without the phrase on display says so.
LEMMA RestoreExplained ==
  ASSUME ShownPhraseExplained, NEW text, NEW index, FromSeedPhrase(text, index)
  PROVE  ShownPhraseExplained'
  BY Stored
     DEF FromSeedPhrase, Loads, ShownPhraseExplained,
         GetMnemonicForBackupDisplay

\* Each change of the phrase or the key.
LEMMA PhraseStep == ShownPhraseExplained /\ [Next]_vars => ShownPhraseExplained'
<1> SUFFICES ASSUME ShownPhraseExplained, [Next]_vars
             PROVE  ShownPhraseExplained'
  OBVIOUS
<1>1. ASSUME UNCHANGED manager
      PROVE  ShownPhraseExplained'
  BY <1>1 DEF manager, ShownPhraseExplained, GetMnemonicForBackupDisplay
<1>2. ASSUME ClearWallet \/ ClearSecuredMnemonic
      PROVE  ShownPhraseExplained'
  BY <1>2 DEF ClearWallet, ClearSecuredMnemonic, ShownPhraseExplained,
              GetMnemonicForBackupDisplay
<1>3. ASSUME NEW text, NEW password, CreateWallet(text, password)
      PROVE  ShownPhraseExplained'
  <2>1. key' = [phrase |-> text, path |-> SolanaPath(0)]
    BY <1>3, Stored, WalletAssumption
       DEF CreateWallet, GenerateNewWallet, Loads, Parses
  <2> QED
    BY <1>3, <2>1 DEF CreateWallet, GenerateNewWallet, ShownPhraseExplained,
                      GetMnemonicForBackupDisplay
<1>4. ASSUME NEW password, Unlock(password)
      PROVE  ShownPhraseExplained'
  BY <1>1, <1>4, ImportExplained DEF Unlock, FromEncryptedSeedPhrase
<1>5. ASSUME NEW text, NEW password, NEW index,
             \/ ImportWallet(text, password) \/ ImportSeed(text, index)
             \/ SelectAccount(index) \/ LoadImports
      PROVE  ShownPhraseExplained'
  BY <1>5, ImportExplained
     DEF ImportWallet, ImportSeed, SelectAccount, LoadImports
<1>6. ASSUME NEW text, NEW index, RestoreSeed(text, index)
      PROVE  ShownPhraseExplained'
  BY <1>6, RestoreExplained DEF RestoreSeed
<1>7. ASSUME NEW sameTab, ConfirmSeedBackup \/ ForgetKey \/ Reload(sameTab)
      PROVE  ShownPhraseExplained'
  BY <1>2, <1>7 DEF ConfirmSeedBackup, ForgetKey, Reload
<1>8. ASSUME NEW text, NEW password,
             \/ LoadWalletData(password) \/ RememberPhrase(text)
             \/ LoadEnds \/ LoadUnderived \/ ForgetPhrase \/ ResetWallet
             \/ MarkSeedBackupPendingAsyncEnds \/ IsSeedBackupPending \/ Flush
      PROVE  ShownPhraseExplained'
  BY <1>1, <1>8
     DEF LoadWalletData, RememberPhrase, LoadEnds, LoadUnderived,
         ForgetPhrase, ResetWallet, MarkSeedBackupPendingAsyncEnds, IsSeedBackupPending, Flush
<1>9. CASE UNCHANGED vars
  BY <1>1, <1>9 DEF vars
<1> QED
  BY <1>3, <1>4, <1>5, <1>6, <1>7, <1>8, <1>9 DEF Next

\* The phrase shown for backup is the one of the loaded key.
THEOREM PhraseOfTheKey == Spec => []ShownPhraseExplained
<1>1. Init => ShownPhraseExplained
  BY DEF Init, ManagerInit, ShownPhraseExplained, GetMnemonicForBackupDisplay
<1> QED
  BY <1>1, PhraseStep, PTL DEF Spec

---------------------------------------------------------------------------
(* The vault record.                                                       *)

Opens(record, w) == DecryptData(record.blob, w.password) = w.phrase

RecordOK(record) ==
  /\ record \in Records /\ Sealed(record)
  /\ record.address # Outdated => Current(record)

\* A record that a load can still write back shows an old address, and such
\* a record is the wallet that was stored when the load read it; a record
\* that was written back shows a new one.
VaultInv ==
  /\ vault # None => RecordOK(vault)
  /\ IF revived THEN vault # None /\ vault.address # Outdated
     ELSE IF wallet = None THEN vault = None
     ELSE vault # None /\ Opens(vault, wallet)
  /\ load # None =>
       /\ RecordOK(load.record)
       /\ \/ load.record.address # Outdated
          \/ load.wallet # None /\ Opens(load.record, load.wallet)

\* What a phrase and an account derive.
LEMMA Derived ==
  ASSUME NEW text \in Phrases, NEW index
  PROVE  /\ DerivePublicKeyBip44(text, index)
              = IF index \in Derivable
                THEN [address |-> [phrase |-> text, path |-> SolanaPath(index)]]
                ELSE None
         /\ DerivePrivateKeyBip44(text, index)
              = IF index \in Derivable
                THEN [phrase |-> text, path |-> SolanaPath(index)]
                ELSE None
         /\ DeriveSolanaAddress(text, index) = DerivePublicKeyBip44(text, index)
         /\ index \in Derivable =>
              /\ DerivePublicKeyBip44(text, index) \in [address : Keys]
              /\ [phrase |-> text, path |-> SolanaPath(index)] \in Keys
<1>1. SolanaPath(index)[3] = index /\ DerivationPath("solana", index)[3] = index
  BY DEF SolanaPath, DerivationPath
<1>2. DerivationPath("solana", index) = SolanaPath(index)
  BY DEF SolanaPath, DerivationPath
<1>3. ASSUME index \in Derivable
      PROVE  [phrase |-> text, path |-> SolanaPath(index)] \in Keys
  BY <1>3, WalletAssumption DEF Keys, SolanaPath
<1>4. Slip10(text, SolanaPath(index))
        = IF index \in Derivable
          THEN [phrase |-> text, path |-> SolanaPath(index)] ELSE None
  BY <1>1 DEF Slip10
<1>5. [phrase |-> text, path |-> SolanaPath(index)] # None \/ index \notin Derivable
  BY <1>3, WalletAssumption
<1>6. Address(Slip10(text, SolanaPath(index)))
        = IF index \in Derivable
          THEN [address |-> [phrase |-> text, path |-> SolanaPath(index)]]
          ELSE None
  BY <1>4, <1>5 DEF Address
<1>7. /\ DerivePublicKeyBip44(text, index) = Address(Slip10(text, SolanaPath(index)))
      /\ DerivePrivateKeyBip44(text, index) = Slip10(text, SolanaPath(index))
      /\ DeriveSolanaAddress(text, index) = Address(Slip10(text, SolanaPath(index)))
  BY <1>2 DEF DerivePublicKeyBip44, DerivePrivateKeyBip44, DeriveSolanaAddress,
              Parses
<1> QED
  BY <1>3, <1>4, <1>6, <1>7

\* What a record opens to.
LEMMA Opened ==
  ASSUME NEW record, RecordOK(record)
  PROVE  /\ DecryptData(record.blob, record.password) = record.blob.content
         /\ record.blob.content \in Phrases /\ record.index \in Indices
         /\ record.password \in Passwords
         /\ record.address \in [address : Keys] \cup {Outdated}
  BY DEF RecordOK, Sealed, Records, DecryptData

\* A new record is current and opens to the wallet that is stored.
LEMMA SaveVault ==
  ASSUME VaultInv, vault = None, NEW text \in Phrases,
         NEW password \in Passwords, SaveWalletData(text, password, 0),
         UNCHANGED load
  PROVE  VaultInv'
<1>1. /\ DerivePublicKeyBip44(text, 0) \in [address : Keys]
      /\ 0 \in Derivable /\ 0 \in Indices
  <2>1. 0 \in Derivable /\ 0 \in Indices
    BY WalletAssumption
  <2> QED
    BY <2>1, Derived
<1>2. /\ vault'.blob = EncryptData(text, password) /\ vault'.password = password
      /\ vault'.index = 0 /\ vault'.address = DerivePublicKeyBip44(text, 0)
      /\ vault'.blob.content = text
      /\ vault'.blob.sealedWith = DeriveKey(password, Iterations)
      /\ vault'.blob.iterations = Iterations
  BY DEF SaveWalletData, EncryptData
<1>3. vault' \in Records
  BY <1>1, WalletAssumption DEF SaveWalletData, EncryptData, DeriveKey, Records
<1>4. RecordOK(vault')
  BY <1>1, <1>2, <1>3 DEF RecordOK, Sealed, Current
<1>5. /\ wallet' = [phrase |-> text, password |-> password]
      /\ wallet' \in [phrase : Phrases, password : Passwords]
      /\ wallet' # None /\ vault' # None /\ ~revived'
  BY <1>3, RecordAssumption DEF SaveWalletData, VaultInv
<1>6. Opens(vault', wallet')
  BY <1>2, <1>5 DEF Opens, DecryptData
<1> QED
  BY <1>4, <1>5, <1>6 DEF VaultInv

\* A record is written back only with an old address, and then its wallet
\* is the one of the load.
LEMMA RepairVault ==
  ASSUME VaultInv, load # None, load' = None,
         NEW address,
         address = DerivePublicKeyBip44(Loaded, load.record.index),
         Repair(address)
  PROVE  VaultInv'
<1> DEFINE record == load.record
<1>1. /\ RecordOK(record) /\ Loaded = record.blob.content
      /\ record.blob.content \in Phrases
  BY Opened DEF VaultInv, Loaded
<1>2. CASE address \in {None, record.address}
  BY <1>2 DEF Repair, VaultInv, stored
<1>3. CASE address \notin {None, record.address}
  <2>1. record.index \in Derivable /\ address \in [address : Keys]
    BY <1>1, <1>3, Derived
  <2>2. /\ record.address = Outdated
        /\ load.wallet # None /\ Opens(record, load.wallet)
    BY <1>1, <1>3 DEF RecordOK, Current, VaultInv
  <2>3. /\ vault' = [record EXCEPT !.address = address] /\ wallet' = wallet
        /\ revived' = (revived \/ wallet # load.wallet)
    BY <1>3 DEF Repair
  <2>4. /\ vault' \in Records /\ vault'.blob = record.blob
        /\ vault'.index = record.index /\ vault'.password = record.password
        /\ vault'.address = address
    BY <1>1, <2>1, <2>3 DEF RecordOK, Records
  <2>5. /\ RecordOK(vault') /\ vault' # None /\ vault'.address # Outdated
    BY <1>1, <2>1, <2>4, RecordAssumption DEF RecordOK, Sealed, Current
  <2>6. ~revived' => wallet' # None /\ Opens(vault', wallet')
    BY <2>2, <2>3, <2>4 DEF Opens
  <2> QED
    BY <2>5, <2>6 DEF VaultInv
<1> QED
  BY <1>2, <1>3

\* The record is changed by the two savings, the removal and the end of a
\* load.
LEMMA VaultStep == VaultInv /\ [Next]_vars => VaultInv'
<1> SUFFICES ASSUME VaultInv, [Next]_vars PROVE VaultInv'
  OBVIOUS
<1>1. ASSUME UNCHANGED <<vault, wallet, revived, load>>
      PROVE  VaultInv'
  BY <1>1 DEF VaultInv
<1>2. ASSUME UNCHANGED <<vault, wallet, revived>>, load' = None
      PROVE  VaultInv'
  BY <1>2 DEF VaultInv
<1>3. ASSUME NEW text \in Phrases, NEW password \in Passwords,
             CreateWallet(text, password) \/ ImportWallet(text, password)
      PROVE  VaultInv'
  BY <1>3, SaveVault DEF CreateWallet, ImportWallet
<1>4. ASSUME NEW password, LoadWalletData(password)
      PROVE  VaultInv'
  <2>1. /\ UNCHANGED <<vault, wallet, revived>> /\ vault # None
        /\ load' = [record |-> vault, wallet |-> wallet]
    BY <1>4 DEF LoadWalletData, stored
  <2>2. load'.record = vault /\ load'.wallet = wallet
    BY <2>1
  <2> QED
    BY <2>1, <2>2 DEF VaultInv
<1>5. ASSUME LoadEnds
      PROVE  VaultInv'
  <2>1. PICK both :
          /\ both = DeriveDualNetworkAddresses(Loaded, load.record.index)
          /\ both # None /\ Repair(both.solana)
    BY <1>5 DEF LoadEnds
  <2>2. load # None /\ load' = None
    BY <1>5 DEF LoadEnds
  <2>3. Loaded \in Phrases
    BY <2>2, Opened DEF VaultInv, Loaded
  <2>4. both.solana = DeriveSolanaAddress(Loaded, load.record.index)
    BY <2>1 DEF DeriveDualNetworkAddresses
  <2> QED
    BY <2>1, <2>2, <2>3, <2>4, Derived, RepairVault
<1>6. ASSUME LoadImports
      PROVE  VaultInv'
  BY <1>6, RepairVault DEF LoadImports
<1>7. ASSUME ResetWallet
      PROVE  VaultInv'
  BY <1>7 DEF ResetWallet, VaultInv
<1>8. ASSUME NEW sameTab, LoadUnderived \/ Reload(sameTab)
      PROVE  VaultInv'
  BY <1>2, <1>8 DEF LoadUnderived, Reload, stored
<1>9. ASSUME NEW text, NEW password, NEW index,
             \/ Unlock(password) \/ RememberPhrase(text)
             \/ ImportSeed(text, index) \/ RestoreSeed(text, index)
             \/ SelectAccount(index) \/ ConfirmSeedBackup
             \/ MarkSeedBackupPendingAsyncEnds \/ IsSeedBackupPending \/ Flush
             \/ ForgetPhrase \/ ForgetKey
      PROVE  VaultInv'
  BY <1>1, <1>9
     DEF Unlock, RememberPhrase, ImportSeed, RestoreSeed, SelectAccount,
         ConfirmSeedBackup, MarkSeedBackupPendingAsyncEnds,
         IsSeedBackupPending, Flush, ForgetPhrase, ForgetKey, stored
<1>10. CASE UNCHANGED vars
  BY <1>1, <1>10 DEF vars, stored
<1> QED
  BY <1>3, <1>4, <1>5, <1>6, <1>7, <1>8, <1>9, <1>10 DEF Next

LEMMA VaultInit == Init => VaultInv
<1> SUFFICES ASSUME Init PROVE VaultInv
  OBVIOUS
<1>1. ~revived /\ load = None /\ vault \in Vaults
  BY DEF Init
<1>2. CASE vault = None
  BY <1>1, <1>2 DEF Init, VaultInv
<1>3. CASE vault # None
  <2>1. RecordOK(vault)
    BY <1>1, <1>3, VaultsAssumption DEF RecordOK
  <2>2. wallet = [phrase |-> vault.blob.content, password |-> vault.password]
    BY <1>3 DEF Init
  <2>3. wallet # None
    BY <2>1, <2>2, Opened, RecordAssumption
  <2>4. Opens(vault, wallet)
    BY <2>1, <2>2, Opened DEF Opens
  <2> QED
    BY <1>1, <1>3, <2>1, <2>3, <2>4 DEF VaultInv
<1> QED
  BY <1>2, <1>3

\* The stored vault is the wallet last stored, unless a load that began
\* before wrote back an older record.
THEOREM VaultsOpen == Spec => []EveryVaultOpens
<1>1. VaultInv => EveryVaultOpens
  BY DEF VaultInv, EveryVaultOpens, Opens
<1> QED
  BY <1>1, VaultInit, VaultStep, PTL DEF Spec

---------------------------------------------------------------------------
(* The keys.                                                               *)

KeyInv ==
  key # None => key = [phrase |-> key.phrase, path |-> SolanaPath(key.path[3])]

LEMMA KeyStored ==
  ASSUME KeyInv, NEW text, NEW index, StoreKeypair(text, index)
  PROVE  KeyInv'
<1>1. CASE Loads(text, index)
  <2>1. key' = [phrase |-> text, path |-> SolanaPath(index)]
    BY <1>1, Stored
  <2>2. key'.phrase = text /\ key'.path[3] = index
    BY <2>1 DEF SolanaPath
  <2> QED
    BY <2>1, <2>2 DEF KeyInv
<1>2. CASE ~Loads(text, index)
  BY <1>2, Stored DEF KeyInv
<1> QED
  BY <1>1, <1>2

\* Whatever loads a key derives it on the path of its account.
LEMMA KeyStep == KeyInv /\ [Next]_vars => KeyInv'
<1> SUFFICES ASSUME KeyInv, [Next]_vars PROVE KeyInv'
  OBVIOUS
<1>1. ASSUME UNCHANGED key
      PROVE  KeyInv'
  BY <1>1 DEF KeyInv
<1>2. ASSUME ClearWallet
      PROVE  KeyInv'
  BY <1>2 DEF ClearWallet, KeyInv
<1>3. ASSUME NEW text, NEW index, ImportFromSeedPhrase(text, index)
      PROVE  KeyInv'
  BY <1>3, KeyStored DEF ImportFromSeedPhrase
<1>4. ASSUME NEW text, NEW index, NEW password,
             CreateWallet(text, password) \/ RestoreSeed(text, index)
      PROVE  KeyInv'
  BY <1>4, KeyStored
     DEF CreateWallet, GenerateNewWallet, RestoreSeed, FromSeedPhrase
<1>5. ASSUME NEW text, NEW index, NEW password,
             \/ ImportWallet(text, password) \/ ImportSeed(text, index)
             \/ SelectAccount(index) \/ LoadImports
      PROVE  KeyInv'
  BY <1>3, <1>5 DEF ImportWallet, ImportSeed, SelectAccount, LoadImports
<1>6. ASSUME NEW password, Unlock(password)
      PROVE  KeyInv'
  BY <1>1, <1>3, <1>6 DEF Unlock, FromEncryptedSeedPhrase, manager
<1>7. ASSUME NEW sameTab, ForgetKey \/ Reload(sameTab)
      PROVE  KeyInv'
  BY <1>2, <1>7 DEF ForgetKey, Reload
<1>8. ASSUME NEW text, NEW password,
             \/ LoadWalletData(password) \/ RememberPhrase(text)
             \/ LoadEnds \/ LoadUnderived \/ ConfirmSeedBackup
             \/ ForgetPhrase \/ ResetWallet
             \/ MarkSeedBackupPendingAsyncEnds \/ IsSeedBackupPending \/ Flush
      PROVE  KeyInv'
  BY <1>1, <1>8
     DEF LoadWalletData, RememberPhrase, LoadEnds, LoadUnderived,
         ForgetPhrase, ResetWallet, ConfirmSeedBackup, ClearSecuredMnemonic,
         MarkSeedBackupPendingAsyncEnds, IsSeedBackupPending, Flush, manager
<1>9. CASE UNCHANGED vars
  BY <1>1, <1>9 DEF vars, manager
<1> QED
  BY <1>4, <1>5, <1>6, <1>7, <1>8, <1>9 DEF Next

LEMMA SorobanDerived ==
  ASSUME NEW text \in Phrases, NEW index \in Derivable
  PROVE  /\ SorobanKey(text, index) # None
         /\ Address(SorobanKey(text, index)) = [address |-> SorobanKey(text, index)]
<1>1. /\ DerivationPath("soroban", index)[3] = index
      /\ DerivationPath("soroban", index) \in Seq(Nat)
  BY WalletAssumption DEF DerivationPath
<1>2. SorobanKey(text, index)
        = [phrase |-> text, path |-> DerivationPath("soroban", index)]
  BY <1>1 DEF SorobanKey, Slip10
<1>3. SorobanKey(text, index) \in Keys
  BY <1>1, <1>2 DEF Keys
<1> QED
  BY <1>3, WalletAssumption DEF Address

\* Each of the calls comes down to the derivation of the shown address.
LEMMA CurrentKeysAgree == VaultInv /\ KeyInv => KeysAgree
<1> SUFFICES ASSUME VaultInv, KeyInv, vault # None, vault.address # Outdated
             PROVE  KeysAgree
  BY DEF KeysAgree
<1> DEFINE text == vault.blob.content
           index == vault.index
           password == vault.password
           blob == vault.blob
           k == [phrase |-> text, path |-> SolanaPath(index)]
           both == DeriveDualNetworkAddresses(text, index)
           escrow == DeriveAndEncryptForServer(blob, password, index, "server")
           stellar == SignStellarTransactionHash(blob, password, index, "hash")
<1>1. /\ text \in Phrases /\ index \in Derivable
      /\ DecryptData(blob, password) = text
      /\ vault.address = DerivePublicKeyBip44(text, index)
  BY Opened DEF VaultInv, RecordOK, Current
<1>2. /\ vault.address = [address |-> k] /\ vault.address # None
      /\ DerivePrivateKeyBip44(text, index) = k
      /\ DeriveSolanaAddress(text, index) = vault.address
  BY <1>1, Derived, WalletAssumption
<1>3. k # None /\ Address(k) = vault.address
  <2>1. k \in Keys
    BY <1>1, Derived
  <2> QED
    BY <1>2, <2>1, WalletAssumption DEF Address
<1>4. Slip10(text, SolanaPath(index)) = k
  BY <1>1, <1>2 DEF DerivePrivateKeyBip44, Parses
<1>5. /\ SorobanKey(text, index) # None /\ Parses(text)
  BY <1>1, SorobanDerived DEF Parses
<1> HIDE DEF k, text, index, password, blob
<1>6. both.solana = vault.address /\ both.soroban = Address(SorobanKey(text, index))
  BY <1>2, <1>5 DEF DeriveDualNetworkAddresses
<1>7. VerifyPrivateKeySecure(blob, password, index, vault.address)
  BY <1>1, <1>3, <1>4, <1>5 DEF VerifyPrivateKeySecure, VerifyPrivateKeyInternal
<1>8. Address(ExportPrivateKeyFromEncrypted(blob, password, index)) = vault.address
  BY <1>1, <1>2, <1>3 DEF ExportPrivateKeyFromEncrypted
<1>9. /\ escrow.server.content = k /\ escrow.client = EncryptData(k, password)
  BY <1>1, <1>2, <1>3 DEF DeriveAndEncryptForServer
<1>10. DecryptData(EncryptData(k, password), password) = k
  BY DEF EncryptData, DecryptData, DeriveKey
<1>11. stellar.by = SorobanKey(text, index)
  BY <1>1, <1>5 DEF SignStellarTransactionHash
<1>12. DeriveSorobanAddress(blob, password, index) = Address(SorobanKey(text, index))
  BY <1>1, <1>5 DEF DeriveSorobanAddress
<1>13. ASSUME key # None, key.phrase = text, key.path[3] = index
       PROVE  /\ GetPublicKey = vault.address
              /\ Address(SignMessage("hash").by) = vault.address
  <2>1. key = k
    BY <1>13 DEF KeyInv, k
  <2>2. SignMessage("hash").by = k
    BY <1>3, <2>1 DEF SignMessage
  <2> QED
    BY <1>3, <2>1, <2>2 DEF GetPublicKey
<1> HIDE DEF both, escrow, stellar
<1>14. /\ both = DeriveDualNetworkAddresses(DecryptData(vault.blob, vault.password), vault.index)
       /\ escrow = DeriveAndEncryptForServer(vault.blob, vault.password, vault.index, "server")
       /\ stellar = SignStellarTransactionHash(vault.blob, vault.password, vault.index, "hash")
       /\ blob = vault.blob /\ password = vault.password /\ index = vault.index
  BY <1>1 DEF both, escrow, stellar, blob, password, index
<1> QED
  BY <1>1, <1>3, <1>6, <1>7, <1>8, <1>9, <1>10, <1>11, <1>12, <1>13, <1>14
     DEF KeysAgree

\* What is signed, exported, verified and handed to the server for a vault
\* goes back to the keys of the addresses that are shown for it.
THEOREM KeysOfTheAddresses == Spec => []KeysAgree
<1>1. Init => KeyInv
  BY DEF Init, ManagerInit, KeyInv
<1>2. VaultInv /\ KeyInv /\ [Next]_vars => VaultInv' /\ KeyInv'
  BY VaultStep, KeyStep
<1> QED
  BY <1>1, <1>2, VaultInit, CurrentKeysAgree, PTL DEF Spec

---------------------------------------------------------------------------
(* Types.                                                                  *)

Shown == Maybe(Texts \ {Blank})

ManagerOK ==
  /\ initialized = (key # None)
  /\ key # None => key.phrase \in Phrases /\ key.path[3] \in Derivable
  /\ secured \in Shown

SessionOK ==
  /\ live \in Shown /\ backup \in Shown
  /\ revived \in BOOLEAN

FlagOK ==
  /\ Booleans
  /\ local => localWorks
  /\ gate \in {"none", "marked", "cleared", "raced"}

LEMMA PhrasesShown == Phrases \subseteq Shown /\ None \in Shown
  BY WalletAssumption DEF Shown, Maybe, Texts

LEMMA ManagerStored ==
  ASSUME ManagerOK, NEW text, NEW index, StoreKeypair(text, index)
  PROVE  /\ initialized' = (key' # None)
         /\ key' # None => key'.phrase \in Phrases /\ key'.path[3] \in Derivable
<1>1. CASE Loads(text, index)
  <2>1. key' = [phrase |-> text, path |-> SolanaPath(index)]
    BY <1>1, Stored
  <2>2. key'.phrase = text /\ key'.path[3] = index /\ key' # None
    BY <1>1, <2>1, Derived, WalletAssumption DEF SolanaPath, Loads, Parses
  <2>3. initialized' = TRUE
    BY <1>1, <2>1, <2>2, Derived DEF StoreKeypair, Loads, Parses, DerivePrivateKeyBip44
  <2> QED
    BY <1>1, <2>2, <2>3 DEF Loads, Parses
<1>2. CASE ~Loads(text, index)
  <2>1. key' = key
    BY <1>2, Stored
  <2>2. Slip10(text, SolanaPath(index)) = None \/ ~Parses(text)
    BY <1>2 DEF Slip10, SolanaPath, Loads
  <2> QED
    BY <2>1, <2>2 DEF StoreKeypair, ManagerOK
<1> QED
  BY <1>1, <1>2

LEMMA ManagerImported ==
  ASSUME ManagerOK, NEW text \in Shown \cup {Blank}, NEW index,
         text # None, ImportFromSeedPhrase(text, index)
  PROVE  ManagerOK'
  BY ManagerStored DEF ImportFromSeedPhrase, ManagerOK, Shown, Maybe

\* The wallet and what JavaScript has of it.
LEMMA SessionStep ==
  ManagerOK /\ SessionOK /\ VaultInv /\ [Next]_vars => ManagerOK' /\ SessionOK'
<1> SUFFICES ASSUME ManagerOK, SessionOK, VaultInv, [Next]_vars
             PROVE  ManagerOK' /\ SessionOK'
  OBVIOUS
<1>1. ASSUME UNCHANGED <<manager, session, revived>>
      PROVE  ManagerOK' /\ SessionOK'
  BY <1>1 DEF manager, session, ManagerOK, SessionOK
<1>2. ASSUME UNCHANGED manager
      PROVE  ManagerOK'
  BY <1>2 DEF manager, ManagerOK
<1>3. ASSUME NEW text \in Texts, SetSessionMnemonic(text)
      PROVE  live' \in Shown /\ backup' \in Shown
  BY <1>3 DEF SetSessionMnemonic, ClearSessionMnemonic, Shown, Maybe, Texts
<1>4. ASSUME NEW text \in Phrases, NEW password, CreateWallet(text, password)
      PROVE  ManagerOK' /\ SessionOK'
  <2>1. ManagerOK'
    BY <1>4, ManagerStored, PhrasesShown
       DEF CreateWallet, GenerateNewWallet, ManagerOK
  <2> QED
    BY <1>3, <1>4, <2>1 DEF CreateWallet, SaveWalletData, SessionOK, Texts
<1>5. ASSUME NEW text \in Phrases, NEW password, ImportWallet(text, password)
      PROVE  ManagerOK' /\ SessionOK'
  <2>1. ManagerOK'
    BY <1>5, ManagerImported, PhrasesShown, WalletAssumption DEF ImportWallet
  <2> QED
    BY <1>3, <1>5, <2>1 DEF ImportWallet, SaveWalletData, SessionOK, Texts
<1>6. ASSUME NEW password, Unlock(password)
      PROVE  ManagerOK' /\ SessionOK'
  <2>1. CASE DecryptData(vault.blob, password) = None
    BY <1>1, <1>6, <2>1 DEF Unlock, FromEncryptedSeedPhrase, stored
  <2>2. CASE DecryptData(vault.blob, password) # None
    <3>1. DecryptData(vault.blob, password) \in Phrases
      BY <1>6, <2>2, Opened DEF Unlock, VaultInv, DecryptData
    <3>2. ManagerOK'
      BY <1>6, <2>2, <3>1, ManagerImported, PhrasesShown
         DEF Unlock, FromEncryptedSeedPhrase
    <3> QED
      BY <1>3, <1>6, <2>2, <3>1, <3>2 DEF Unlock, stored, SessionOK, Texts
  <2> QED
    BY <2>1, <2>2
<1>7. ASSUME NEW text \in Texts, RememberPhrase(text)
      PROVE  ManagerOK' /\ SessionOK'
  BY <1>2, <1>3, <1>7 DEF RememberPhrase, stored, SessionOK
<1>8. ASSUME NEW text \in Texts, NEW index, ImportSeed(text, index)
      PROVE  ManagerOK' /\ SessionOK'
  <2>1. text \in Shown \cup {Blank} /\ text # None
    BY WalletAssumption DEF Texts, Shown, Maybe
  <2> QED
    BY <1>8, <2>1, ManagerImported DEF ImportSeed, session, stored, SessionOK
<1>9. ASSUME NEW text, NEW index, RestoreSeed(text, index)
      PROVE  ManagerOK' /\ SessionOK'
  BY <1>9, ManagerStored
     DEF RestoreSeed, FromSeedPhrase, session, stored, ManagerOK, SessionOK
<1>10. ASSUME NEW index, SelectAccount(index)
       PROVE  ManagerOK' /\ SessionOK'
  <2>1. GetSessionMnemonic \in Shown /\ GetSessionMnemonic # None
    BY <1>10 DEF SelectAccount, GetSessionMnemonic, SessionOK
  <2> QED
    BY <1>10, <2>1, ManagerImported DEF SelectAccount, stored, SessionOK
<1>11. ASSUME LoadImports
       PROVE  ManagerOK' /\ SessionOK'
  <2>1. load # None /\ Loaded \in Phrases
    BY <1>11, Opened DEF LoadImports, VaultInv, Loaded
  <2>2. ManagerOK'
    BY <1>11, <2>1, ManagerImported, PhrasesShown, WalletAssumption
       DEF LoadImports
  <2>3. revived' \in BOOLEAN
    BY <1>11 DEF LoadImports, Repair, stored, SessionOK
  <2> QED
    BY <1>11, <2>2, <2>3 DEF LoadImports, session, SessionOK
<1>12. ASSUME LoadEnds
       PROVE  ManagerOK' /\ SessionOK'
  <2>1. revived' \in BOOLEAN
    BY <1>12 DEF LoadEnds, Repair, stored, SessionOK
  <2> QED
    BY <1>2, <1>12, <2>1 DEF LoadEnds, session, SessionOK
<1>13. ASSUME NEW sameTab,
              ForgetPhrase \/ ForgetKey \/ ResetWallet \/ Reload(sameTab)
       PROVE  ManagerOK' /\ SessionOK'
  <2>1. CASE ForgetPhrase
    BY <1>2, <2>1, PhrasesShown
       DEF ForgetPhrase, ClearSessionMnemonic, stored, SessionOK
  <2>2. CASE ForgetKey
    BY <2>2, PhrasesShown
       DEF ForgetKey, ClearWallet, session, stored, ManagerOK, SessionOK
  <2>3. CASE ResetWallet
    BY <1>2, <2>3 DEF ResetWallet, session, SessionOK
  <2>4. CASE Reload(sameTab)
    BY <2>4, PhrasesShown
       DEF Reload, ClearWallet, ClearSessionMnemonic, stored, ManagerOK,
           SessionOK
  <2> QED
    BY <1>13, <2>1, <2>2, <2>3, <2>4
<1>14. ASSUME ConfirmSeedBackup
       PROVE  ManagerOK' /\ SessionOK'
  BY <1>14, PhrasesShown
     DEF ConfirmSeedBackup, ClearSecuredMnemonic, session, stored, ManagerOK,
         SessionOK
<1>15. ASSUME NEW password,
              \/ LoadWalletData(password) \/ LoadUnderived
              \/ MarkSeedBackupPendingAsyncEnds \/ IsSeedBackupPending \/ Flush
       PROVE  ManagerOK' /\ SessionOK'
  BY <1>1, <1>15
     DEF LoadWalletData, LoadUnderived, MarkSeedBackupPendingAsyncEnds,
         IsSeedBackupPending, Flush, stored
<1>16. CASE UNCHANGED vars
  BY <1>1, <1>16 DEF vars, stored
<1> QED
  BY <1>4, <1>5, <1>6, <1>7, <1>8, <1>9, <1>10, <1>11, <1>12, <1>13, <1>14,
     <1>15, <1>16 DEF Next

\* What writes localStorage and the gate.
LEMMA FlagStep == FlagOK /\ GateInv /\ [Next]_vars => FlagOK'
<1> SUFFICES ASSUME FlagOK, GateInv, [Next]_vars PROVE FlagOK'
  OBVIOUS
<1>1. Booleans'
  BY GateStep DEF GateInv
<1>2. ASSUME UNCHANGED <<local, localWorks, gate>>
      PROVE  FlagOK'
  BY <1>1, <1>2 DEF FlagOK
<1>3. ASSUME NEW value \in BOOLEAN, WriteLocal(value), UNCHANGED localWorks,
             gate' \in {gate, "marked", "cleared", "raced"}
      PROVE  FlagOK'
  <2>1. local' => localWorks'
    BY <1>3 DEF WriteLocal
  <2>2. gate' \in {"none", "marked", "cleared", "raced"}
    BY <1>3 DEF FlagOK
  <2> QED
    BY <1>1, <2>1, <2>2 DEF FlagOK
<1>4. ASSUME StartMarking
      PROVE  FlagOK'
  BY <1>3, <1>4 DEF StartMarking, Marked
<1>5. ASSUME ClearSeedBackupPending
      PROVE  FlagOK'
  BY <1>3, <1>5 DEF ClearSeedBackupPending, ClearPending
<1>6. ASSUME IsSeedBackupPending
      PROVE  FlagOK'
  BY <1>3, <1>6 DEF IsSeedBackupPending, Mark, Marked
<1>7. ASSUME NEW sameTab, Flush \/ Reload(sameTab)
      PROVE  FlagOK'
  BY <1>2, <1>7 DEF Flush, Reload
<1>8. ASSUME NEW text, NEW password,
             \/ CreateWallet(text, password) \/ ConfirmSeedBackup
             \/ ResetWallet
      PROVE  FlagOK'
  BY <1>4, <1>5, <1>8 DEF CreateWallet, ConfirmSeedBackup, ResetWallet
<1>9. ASSUME NEW text, NEW password, NEW index,
             \/ ImportWallet(text, password) \/ Unlock(password)
             \/ LoadWalletData(password) \/ RememberPhrase(text)
             \/ ImportSeed(text, index) \/ RestoreSeed(text, index)
             \/ SelectAccount(index) \/ ForgetPhrase \/ ForgetKey
             \/ LoadEnds \/ LoadImports \/ LoadUnderived
      PROVE  FlagOK'
  BY <1>2, <1>9
     DEF ImportWallet, Unlock, LoadWalletData, RememberPhrase, ImportSeed,
         RestoreSeed, SelectAccount, ForgetPhrase, ForgetKey, LoadEnds,
         LoadImports, LoadUnderived, flag
<1>10. ASSUME MarkSeedBackupPendingAsyncEnds
       PROVE  FlagOK'
  <2>1. UNCHANGED <<local, localWorks>> /\ gate' \in {gate, "raced"}
    BY <1>10 DEF MarkSeedBackupPendingAsyncEnds
  <2> QED
    BY <1>1, <2>1 DEF FlagOK
<1>11. CASE UNCHANGED vars
  BY <1>2, <1>11 DEF vars, flag
<1> QED
  BY <1>6, <1>7, <1>8, <1>9, <1>10, <1>11 DEF Next

Typed == ManagerOK /\ SessionOK /\ FlagOK /\ VaultInv /\ GateInv

\* Every variable keeps its type, and a wallet is loaded exactly when there
\* is a key.
THEOREM TypeCorrect == Spec => []TypeOK
<1>1. Init => Typed
  BY VaultInit, GateInit, PhrasesShown
     DEF Init, ManagerInit, Typed, ManagerOK, SessionOK, FlagOK, GateInv
<1>2. Typed /\ [Next]_vars => Typed'
  BY SessionStep, FlagStep, VaultStep, GateStep DEF Typed
<1>3. ASSUME Typed
      PROVE  TypeOK
  <2>1. /\ vault \in Maybe(Records)
        /\ load # None => load.record \in Records
    BY <1>3 DEF Typed, VaultInv, RecordOK, Maybe
  <2>2. \A b \in {local, kv, flushed, legacy, localWorks, marking, revived,
                  unflushed} : b \in BOOLEAN
    BY <1>3 DEF Typed, SessionOK, FlagOK, Booleans
  <2>3. /\ initialized = (key # None)
        /\ key # None => key.phrase \in Phrases /\ key.path[3] \in Derivable
        /\ secured \in Shown /\ live \in Shown /\ backup \in Shown
        /\ local => localWorks
        /\ gate \in {"none", "marked", "cleared", "raced"}
    BY <1>3 DEF Typed, ManagerOK, SessionOK, FlagOK
  <2> QED
    BY <2>1, <2>2, <2>3 DEF TypeOK, Shown
<1> QED
  BY <1>1, <1>2, <1>3, PTL DEF Spec
=============================================================================
