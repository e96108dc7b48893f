---------------------------- MODULE UnifiedSeeds ----------------------------
(***************************************************************************)
(* The seed stores of the custody vault                                    *)
(* (frontend-lib/custody/encryptedSessionManager.ts): the unified store of *)
(* numbered seeds and the three legacy stores that are migrated into it.   *)
(* The methods are async.  What one does between two awaits is one step,   *)
(* and any other call may run while it waits for the cryptography, so a    *)
(* call is a task that remembers what it has read.                         *)
(*                                                                         *)
(* The unified store is an array that grows by null placeholders; a slot   *)
(* that is None is a placeholder when a later one is filled.  It is never  *)
(* written without a seed, so the key is present when some slot is filled. *)
(***************************************************************************)
EXTENDS Naturals, FiniteSets

CONSTANTS
  None, Phrases, Passwords,
  SeedHash,      \* phrase -> its 32-bit hash
  LegacyVaults,  \* what earlier versions left in the legacy stores
  Tasks,         \* bound on the calls under way together
  MaxSeed,       \* bound on seed numbers
  MaxResets      \* bound on resets

Slots == 0 .. MaxSeed
Numbers == Slots \ {0}   \* 0 is the main seed
Epochs == 0 .. MaxResets

\* A stored phrase under its password.  The epoch is auxiliary: the number
\* of resets before the phrase came in.
Seeds == [phrase : Phrases, password : Passwords, epoch : Epochs]

\* Whether the stored public key is the one derived from the phrase.
Wallets == [seed : Seeds, canonical : BOOLEAN]

Unified == [Slots -> Seeds \cup {None}]
Imported == [Numbers -> Seeds \cup {None}]

ASSUME BoundsAssumption ==
  /\ MaxSeed \in Nat /\ MaxResets \in Nat
  /\ None \notin Seeds \cup Wallets
\* What is left is from before the first reset, and a record that is both
\* plain and encrypted is one whose conversion was interrupted.
ASSUME LegacyVaultsAssumption ==
  /\ LegacyVaults \subseteq [wallet : Wallets \cup {None},
                             plain : Seeds \cup {None}, imported : Imported]
  /\ \A v \in LegacyVaults :
       /\ v.wallet # None => v.wallet.seed.epoch = 0
       /\ v.plain # None => v.plain.epoch = 0
       /\ \A n \in Numbers : v.imported[n] # None => v.imported[n].epoch = 0
       /\ v.wallet # None /\ v.plain # None
            => v.wallet.seed.phrase = v.plain.phrase

VARIABLES
  unified,   \* UNIFIED_SEEDS
  imported,  \* ENCRYPTED_IMPORTED_SEEDS
  wallet,    \* ENCRYPTED_WALLET_DATA
  plain,     \* LEGACY_WALLET_DATA
  tasks,     \* task -> its call, None when there is none
  epoch, returned, overlapped
  \* auxiliary: the number of resets, the seed numbers returned to callers
  \* since the last one, and whether any call has ever met another one

stores == <<unified, imported, wallet, plain>>
vars == <<stores, tasks, epoch, returned, overlapped>>

\* saveUnifiedSeed under way; a migration first decrypts an imported seed
\* with its password and goes on with todo afterwards.
Saves == [op : {"save"}, by : {"main", "assign", "migration"}, slot : Slots,
          seed : Seeds, password : Passwords, todo : SUBSET Numbers]
\* loadWalletData under way, for an unlock or a migration.
Loads == [op : {"load"}, by : {"unlock", "migration"},
          wallet : Wallets, password : Passwords]
\* saveImportedSeed under way, with the store it has read.
Imports == [op : {"import"}, slot : Numbers, seed : Seeds, read : Imported]
\* migrateLegacyWallet before it encrypts and before it removes the plain
\* record.
Conversions == [op : {"convert", "clean"}, seed : Seeds]

Calls == Saves \cup Loads \cup Imports \cup Conversions

Returns == [store : {"unified", "imported"}, slot : Slots, phrase : Phrases]

ASSUME NoneCallAssumption == None \notin Calls

TypeOK ==
  /\ unified \in Unified /\ imported \in Imported
  /\ wallet \in Wallets \cup {None} /\ plain \in Seeds \cup {None}
  /\ tasks \in [Tasks -> Calls \cup {None}]
  /\ epoch \in Epochs /\ returned \subseteq Returns /\ overlapped \in BOOLEAN

Empty(S) == [n \in S |-> None]

Init ==
  /\ unified = Empty(Slots)
  /\ \E v \in LegacyVaults :
       wallet = v.wallet /\ plain = v.plain /\ imported = v.imported
  /\ tasks = [t \in Tasks |-> None]
  /\ epoch = 0 /\ returned = {} /\ overlapped = FALSE

---------------------------------------------------------------------------
(* Helpers.                                                                *)

Filled(store) == {n \in DOMAIN store : store[n] # None}
HasUnifiedSeeds == Filled(unified) # {}
HasWallet == wallet # None \/ plain # None \/ HasUnifiedSeeds

Least(S) == CHOOSE n \in S : \A m \in S : n <= m

\* The numbers under which a store has a seed with the hash of the phrase.
SameHash(store, phrase) ==
  {n \in Filled(store) : SeedHash[store[n].phrase] = SeedHash[phrase]}

\* Slip: the count of stored seeds is taken for the next number.
NextNumberByCount(store) ==
  {n \in Numbers : n >= Cardinality(Filled(store))}

\* The numbers an import may get; the first of them is taken.
NextNumbers(store) == Numbers \ Filled(store)

Running == {t \in Tasks : tasks[t] # None}

\* A call that runs beside another one is marked.
Mark == overlapped' = (overlapped \/ Running # {})

Begin(t, call) ==
  /\ tasks[t] = None
  /\ tasks' = [tasks EXCEPT ![t] = call]
  /\ Mark

NewSeed(phrase, password) ==
  [phrase |-> phrase, password |-> password, epoch |-> epoch]

Return(store, slot, phrase) ==
  returned' = returned \cup {[store |-> store, slot |-> slot, phrase |-> phrase]}

SaveCall(by, slot, seed, password, todo) ==
  [op |-> "save", by |-> by, slot |-> slot, seed |-> seed,
   password |-> password, todo |-> todo]

\* A migration goes on with the first listed number that is still imported.
MigrateNext(password, todo) ==
  LET left == todo \cap Filled(imported)
  IN  IF left = {} THEN None
      ELSE SaveCall("migration", Least(left), imported[Least(left)], password,
                    left \ {Least(left)})

\* What a call does when its save has ended.  After the main seed a
\* migration lists the imported ones.
AfterSave(call) ==
  IF call.by # "migration" THEN None
  ELSE MigrateNext(call.password,
                   IF call.slot = 0 THEN Filled(imported) ELSE call.todo)

---------------------------------------------------------------------------
(* The unified store.                                                      *)

\* A new wallet's main seed; the callers do this while there is no wallet.
SaveMain(t, phrase, password) ==
  /\ ~HasWallet
  /\ Begin(t, SaveCall("main", 0, NewSeed(phrase, password), password, {}))
  /\ UNCHANGED <<stores, epoch, returned>>

\* The seed is stored already.
FindSeedNumber(phrase) ==
  /\ SameHash(unified, phrase) # {}
  /\ Return("unified", Least(SameHash(unified, phrase)), phrase)
  /\ Mark
  /\ UNCHANGED <<stores, tasks, epoch>>

AssignSeedNumber(t, phrase, password) ==
  /\ HasUnifiedSeeds
  /\ SameHash(unified, phrase) = {}
  /\ NextNumbers(unified) # {}
  /\ Begin(t, SaveCall("assign", Least(NextNumbers(unified)),
                       NewSeed(phrase, password), password, {}))
  /\ UNCHANGED <<stores, epoch, returned>>

\* The store is read, changed and written in one step.  A seed that the
\* migration's password does not open is not saved.
SaveUnifiedSeed(t) ==
  LET call == tasks[t] IN
  /\ call # None /\ call.op = "save"
  /\ call.seed.password = call.password
  /\ unified' = [unified EXCEPT ![call.slot] = call.seed]
  /\ tasks' = [tasks EXCEPT ![t] = AfterSave(call)]
  /\ IF call.by = "assign" THEN Return("unified", call.slot, call.seed.phrase)
     ELSE UNCHANGED returned
  /\ UNCHANGED <<imported, wallet, plain, epoch, overlapped>>

\* Slip: the result of a failed encryption is stored.
FailSaveStored(t) ==
  LET call == tasks[t] IN
  /\ call # None /\ call.op = "save"
  /\ unified' = [unified EXCEPT ![call.slot] = [call.seed EXCEPT !.phrase = None]]
  /\ tasks' = [tasks EXCEPT ![t] = AfterSave(call)]
  /\ UNCHANGED <<imported, wallet, plain, epoch, returned, overlapped>>

\* The encryption fails, or for a migrated seed its decryption or the
\* password check.
FailSave(t) ==
  LET call == tasks[t] IN
  /\ call # None /\ call.op = "save"
  /\ tasks' = [tasks EXCEPT ![t] = AfterSave(call)]
  /\ UNCHANGED <<stores, epoch, returned, overlapped>>

---------------------------------------------------------------------------
(* Migration and the encrypted wallet record.                              *)

\* Once the unified store has a seed a migration has nothing to do.  A plain
\* record is migrated under whatever password is given.
Migrate(t, password) ==
  /\ ~HasUnifiedSeeds
  /\ Begin(t,
       IF wallet # None
         THEN [op |-> "load", by |-> "migration", wallet |-> wallet,
               password |-> password]
       ELSE IF plain # None
         THEN SaveCall("migration", 0, [plain EXCEPT !.password = password],
                       password, {})
       ELSE MigrateNext(password, Filled(imported)))
  /\ UNCHANGED <<stores, epoch, returned>>

Unlock(t, password) ==
  /\ wallet # None
  /\ Begin(t, [op |-> "load", by |-> "unlock", wallet |-> wallet,
               password |-> password])
  /\ UNCHANGED <<stores, epoch, returned>>

\* The record is decrypted, and the one read before the awaits is written
\* back with the derived public key where that differs.
LoadWalletData(t) ==
  LET call == tasks[t] IN
  /\ call # None /\ call.op = "load"
  /\ call.wallet.seed.password = call.password
  /\ \/ UNCHANGED wallet
     \/ ~call.wallet.canonical /\ wallet' = [call.wallet EXCEPT !.canonical = TRUE]
  /\ tasks' = [tasks EXCEPT ![t] =
       IF call.by = "migration"
         THEN SaveCall("migration", 0, call.wallet.seed, call.password, {}) ELSE None]
  /\ UNCHANGED <<unified, imported, plain, epoch, returned, overlapped>>

\* A wrong password or a failed decryption.  A migration goes on.
FailLoad(t) ==
  LET call == tasks[t] IN
  /\ call # None /\ call.op = "load"
  /\ tasks' = [tasks EXCEPT ![t] =
       IF call.by = "migration" THEN MigrateNext(call.password, Filled(imported))
       ELSE None]
  /\ UNCHANGED <<stores, epoch, returned, overlapped>>

---------------------------------------------------------------------------
(* The legacy stores.                                                      *)

\* The seed is imported already.
FindImportedSeed(phrase) ==
  /\ SameHash(imported, phrase) # {}
  /\ Return("imported", Least(SameHash(imported, phrase)), phrase)
  /\ Mark
  /\ UNCHANGED <<stores, tasks, epoch>>

SaveImportedSeed(t, phrase, password) ==
  /\ SameHash(imported, phrase) = {}
  /\ NextNumbers(imported) # {}
  /\ Begin(t, [op |-> "import", slot |-> Least(NextNumbers(imported)),
               seed |-> NewSeed(phrase, password), read |-> imported])
  /\ UNCHANGED <<stores, epoch, returned>>

\* What is written is the store as it was read, with the seed.
WriteImportedSeed(t) ==
  LET call == tasks[t] IN
  /\ call # None /\ call.op = "import"
  /\ imported' = [call.read EXCEPT ![call.slot] = call.seed]
  /\ tasks' = [tasks EXCEPT ![t] = None]
  /\ Return("imported", call.slot, call.seed.phrase)
  /\ UNCHANGED <<unified, wallet, plain, epoch, overlapped>>

MigrateLegacyWallet(t, password) ==
  /\ plain # None /\ plain.password = password
  /\ Begin(t, [op |-> "convert", seed |-> plain])
  /\ UNCHANGED <<stores, epoch, returned>>

\* Slip: the plain record is removed while the write is still to come.
StoreWalletDataUnawaited(t) ==
  LET call == tasks[t] IN
  /\ call # None /\ call.op = "convert"
  /\ plain' = None
  /\ tasks' = [tasks EXCEPT ![t].op = "clean"]
  /\ UNCHANGED <<unified, imported, wallet, epoch, returned, overlapped>>

\* The encrypted record is written, and the write awaited, first.
StoreWalletData(t) ==
  LET call == tasks[t] IN
  /\ call # None /\ call.op = "convert"
  /\ \E canonical \in BOOLEAN :
       wallet' = [seed |-> call.seed, canonical |-> canonical]
  /\ tasks' = [tasks EXCEPT ![t].op = "clean"]
  /\ UNCHANGED <<unified, imported, plain, epoch, returned, overlapped>>

RemovePlain(t) ==
  /\ tasks[t] # None /\ tasks[t].op = "clean"
  /\ plain' = None
  /\ tasks' = [tasks EXCEPT ![t] = None]
  /\ UNCHANGED <<unified, imported, wallet, epoch, returned, overlapped>>

\* An import or a conversion whose encryption fails changes nothing.
FailLegacy(t) ==
  /\ tasks[t] # None /\ tasks[t].op \in {"import", "convert"}
  /\ tasks' = [tasks EXCEPT ![t] = None]
  /\ UNCHANGED <<stores, epoch, returned, overlapped>>

---------------------------------------------------------------------------
(* The whole vault.                                                        *)

\* Slip: the imported seeds are left when the wallet is reset.
ResetWalletOnly ==
  /\ epoch < MaxResets
  /\ epoch' = epoch + 1
  /\ unified' = Empty(Slots)
  /\ wallet' = None /\ plain' = None
  /\ returned' = {}
  /\ Mark
  /\ UNCHANGED <<imported, tasks>>

\* All stores are cleared at once; calls under way go on.
ResetWallet ==
  /\ epoch < MaxResets
  /\ epoch' = epoch + 1
  /\ unified' = Empty(Slots) /\ imported' = Empty(Numbers)
  /\ wallet' = None /\ plain' = None
  /\ returned' = {}
  /\ Mark
  /\ UNCHANGED tasks

\* The page or the extension's popup is closed: no call goes on.
Close ==
  /\ tasks' = [t \in Tasks |-> None]
  /\ UNCHANGED <<stores, epoch, returned, overlapped>>

Next ==
  \/ \E t \in Tasks, phrase \in Phrases, password \in Passwords :
       \/ SaveMain(t, phrase, password)
       \/ AssignSeedNumber(t, phrase, password)
       \/ SaveImportedSeed(t, phrase, password)
  \/ \E t \in Tasks, password \in Passwords :
       \/ Migrate(t, password)
       \/ Unlock(t, password)
       \/ MigrateLegacyWallet(t, password)
  \/ \E t \in Tasks :
       \/ SaveUnifiedSeed(t) \/ FailSave(t)
       \/ LoadWalletData(t) \/ FailLoad(t)
       \/ WriteImportedSeed(t) \/ StoreWalletData(t) \/ RemovePlain(t)
       \/ FailLegacy(t)
  \/ \E phrase \in Phrases : FindSeedNumber(phrase) \/ FindImportedSeed(phrase)
  \/ ResetWallet
  \/ Close

Spec == Init /\ [][Next]_vars

---------------------------------------------------------------------------
(* The abstract specification and the mapping to it.                       *)

Entry(store, slot, phrase) ==
  [store |-> store, slot |-> slot, hash |-> SeedHash[phrase]]

Entered(store, seeds) ==
  {Entry(store, n, seeds[n].phrase) : n \in Filled(seeds)}

Book == INSTANCE SeedNumbers WITH
  Stores <- {"unified", "imported"},
  Hashes <- {SeedHash[phrase] : phrase \in Phrases},
  book <- Entered("unified", unified) \cup Entered("imported", imported),
  given <- {Entry(r.store, r.slot, r.phrase) : r \in returned},
  met <- overlapped

---------------------------------------------------------------------------
(* Properties.                                                             *)

\* A number that was returned for a phrase has a seed with its hash.
ReturnedNumbers ==
  \A r \in returned :
    r.slot \in SameHash(IF r.store = "unified" THEN unified ELSE imported,
                        r.phrase)

\* Calls that do not meet keep every number they returned, through
\* migrations, interrupted or failed saves, closings and resets.
SequentialNumbers == ~overlapped => ReturnedNumbers

\* While calls do not meet, a number is written once between two resets, for
\* one seed, and returned for that seed only.
NumbersSpec == Book!Spec

\* While calls do not meet, the number of a seed that waits for its migration
\* is given to no other seed.
SequentialMigration ==
  ~overlapped =>
    \A n \in Filled(imported) \cap Filled(unified) :
      SeedHash[unified[n].phrase] = SeedHash[imported[n].phrase]

\* Nothing stored is older than the last reset.
ResetClears ==
  /\ \A n \in Filled(unified) : unified[n].epoch = epoch
  /\ \A n \in Filled(imported) : imported[n].epoch = epoch
  /\ wallet # None => wallet.seed.epoch = epoch
  /\ plain # None => plain.epoch = epoch

\* A reset that meets no call clears all, and nothing comes back.
SequentialReset == ~overlapped => ResetClears

\* Whatever meets or interrupts it, a conversion removes the plain record only
\* when the encrypted one has its phrase.
PlainKept ==
  [][plain # None /\ plain' = None /\ epoch' = epoch =>
       wallet' # None /\ wallet'.seed.phrase = plain.phrase]_vars
=============================================================================
