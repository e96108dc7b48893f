------------------------- MODULE UnifiedSeedsProofs -------------------------
(***************************************************************************)
(* The seed stores, for any number of calls, seeds and resets: calls that  *)
(* do not meet keep the book of seed numbers, a reset leaves nothing       *)
(* behind, and no interleaving loses the phrase of a plain record.  The    *)
(* argument: a call that has met no other one writes to a slot that was    *)
(* free when it read the store and still is (Fresh), whatever is stored or *)
(* under way is from after the last reset (Recent), and while the plain    *)
(* record is there the encrypted one and every call that may write it have *)
(* its phrase (PlainInv).                                                  *)
(***************************************************************************)
EXTENDS UnifiedSeeds, TLAPS, FiniteSetTheorems

\* One call at most is under way.
Alone == \A t, u \in Running : t = u

\* A call's slot is still free; so are those that a migration lists.
Fresh(call, store, legacy) ==
  /\ call.op = "save" =>
       /\ call.slot \notin Filled(store) \cup call.todo
       /\ call.todo \cap Filled(store) = {}
       /\ call.by = "migration" /\ call.slot = 0 => Filled(store) = {}
  /\ call.op = "load" /\ call.by = "migration" => Filled(store) = {}
  /\ call.op = "import" =>
       /\ call.read = legacy
       /\ call.slot \notin Filled(legacy)

NumbersInv ==
  ~overlapped =>
    /\ Alone
    /\ \A t \in Running : Fresh(tasks[t], unified, imported)
    /\ ReturnedNumbers

\* The seed a call works on.
SeedOf(call) == IF call.op = "load" THEN call.wallet.seed ELSE call.seed

Recent ==
  ~overlapped =>
    /\ ResetClears
    /\ \A t \in Running : SeedOf(tasks[t]).epoch = epoch

\* What a call must have while the plain record is there.
Agrees(call) ==
  /\ call.op = "load" => call.wallet.seed.phrase = plain.phrase
  /\ call.op \in {"convert", "clean"} => call.seed = plain
  /\ call.op = "clean" => wallet # None

PlainInv ==
  plain # None =>
    /\ wallet # None => wallet.seed.phrase = plain.phrase
    /\ \A t \in Running : Agrees(tasks[t])

---------------------------------------------------------------------------
(* The steps of Next.                                                      *)

Begins(t) ==
  \E password \in Passwords :
    \/ \E phrase \in Phrases :
         \/ SaveMain(t, phrase, password)
         \/ AssignSeedNumber(t, phrase, password)
         \/ SaveImportedSeed(t, phrase, password)
    \/ Migrate(t, password)
    \/ Unlock(t, password)
    \/ MigrateLegacyWallet(t, password)

GoesOn(t) ==
  \/ SaveUnifiedSeed(t) \/ FailSave(t)
  \/ LoadWalletData(t) \/ FailLoad(t)
  \/ WriteImportedSeed(t) \/ StoreWalletData(t) \/ RemovePlain(t)
  \/ FailLegacy(t)

Finds == \E phrase \in Phrases : FindSeedNumber(phrase) \/ FindImportedSeed(phrase)

LEMMA Steps ==
  [Next]_vars =>
    \/ \E t \in Tasks : Begins(t) \/ GoesOn(t)
    \/ Finds \/ ResetWallet \/ Close \/ UNCHANGED vars
<1> SUFFICES ASSUME [Next]_vars
             PROVE  \/ \E t \in Tasks : Begins(t) \/ GoesOn(t)
                    \/ Finds \/ ResetWallet \/ Close \/ UNCHANGED vars
  OBVIOUS
<1>1. ASSUME NEW t \in Tasks, NEW phrase \in Phrases, NEW password \in Passwords,
             \/ SaveMain(t, phrase, password)
             \/ AssignSeedNumber(t, phrase, password)
             \/ SaveImportedSeed(t, phrase, password)
      PROVE  Begins(t)
  BY <1>1 DEF Begins
<1>2. ASSUME NEW t \in Tasks, NEW password \in Passwords,
             \/ Migrate(t, password)
             \/ Unlock(t, password)
             \/ MigrateLegacyWallet(t, password)
      PROVE  Begins(t)
  BY <1>2 DEF Begins
<1> QED
  BY <1>1, <1>2 DEF Next, GoesOn, Finds

---------------------------------------------------------------------------
(* Numbers and migrations.                                                 *)

\* A set of numbers has a least one.
LEMMA LeastOf ==
  ASSUME NEW S \in SUBSET Nat, S # {}
  PROVE  Least(S) \in S /\ \A m \in S : Least(S) <= m
<1> DEFINE Below(n) == 0 .. (n - 1)
           Segments == {Below(n) : n \in S}
<1>1. Segments \in SUBSET FiniteSubsetsOf(Nat) /\ Segments # {}
  <2>1. ASSUME NEW n \in S
        PROVE  Below(n) \in SUBSET Nat /\ IsFiniteSet(Below(n))
    BY FS_Interval
  <2> QED
    BY <2>1 DEF FiniteSubsetsOf
<1>2. PICK X \in Segments :
        \A Y \in Segments : <<Y, X>> \notin StrictSubsetOrdering(Nat)
  <2> HIDE DEF Segments
  <2> QED
    BY <1>1, FS_StrictSubsetOrderingWellFounded, WFMin
<1>3. PICK n \in S : X = Below(n)
  OBVIOUS
<1>4. ASSUME NEW m \in S, m < n
      PROVE  FALSE
  <2>1. /\ Below(m) \in Segments /\ Below(m) \subseteq X
        /\ n - 1 \in X /\ n - 1 \notin Below(m)
    BY <1>3, <1>4
  <2>2. <<Below(m), X>> \in (SUBSET Nat) \X (SUBSET Nat)
    BY <1>3
  <2>3. <<Below(m), X>> \in StrictSubsetOrdering(Nat)
    BY <2>1, <2>2 DEF StrictSubsetOrdering
  <2> QED
    BY <1>2, <2>1, <2>3
<1>5. \A m \in S : n <= m
  BY <1>4
<1> QED
  BY <1>5 DEF Least

LEMMA BoundTypes ==
  /\ Slots \in SUBSET Nat /\ 0 \in Slots /\ Numbers = Slots \ {0}
  /\ Epochs \in SUBSET Nat /\ 0 \in Epochs
  BY BoundsAssumption DEF Slots, Numbers, Epochs

\* A migration goes on with a seed it has listed, or is at its end.
LEMMA MigrationGoesOn ==
  ASSUME imported \in Imported, NEW password \in Passwords, NEW todo \in SUBSET Numbers
  PROVE  \/ MigrateNext(password, todo) = None
         \/ \E n \in todo \cap Filled(imported) :
              /\ imported[n] \in Seeds
              /\ MigrateNext(password, todo)
                   = SaveCall("migration", n, imported[n], password,
                              (todo \cap Filled(imported)) \ {n})
<1> DEFINE left == todo \cap Filled(imported)
<1>1. CASE left = {}
  BY <1>1 DEF MigrateNext
<1>2. CASE left # {}
  <2>1. Least(left) \in left
    BY <1>2, LeastOf, BoundTypes
  <2>2. imported[Least(left)] \in Seeds
    BY <2>1 DEF Imported, Filled
  <2> QED
    BY <1>2, <2>1, <2>2 DEF MigrateNext
<1> QED
  BY <1>1, <1>2

LEMMA SaveTyped ==
  ASSUME NEW by \in {"main", "assign", "migration"}, NEW slot \in Slots,
         NEW seed \in Seeds, NEW password \in Passwords, NEW todo \in SUBSET Numbers
  PROVE  SaveCall(by, slot, seed, password, todo) \in Saves
  BY DEF SaveCall, Saves

LEMMA MigrationTyped ==
  ASSUME imported \in Imported, NEW password \in Passwords, NEW todo \in SUBSET Numbers
  PROVE  MigrateNext(password, todo) \in Saves \cup {None}
<1>1. CASE MigrateNext(password, todo) = None
  BY <1>1
<1>2. ASSUME NEW n \in todo \cap Filled(imported), imported[n] \in Seeds,
             MigrateNext(password, todo)
               = SaveCall("migration", n, imported[n], password,
                          (todo \cap Filled(imported)) \ {n})
      PROVE  MigrateNext(password, todo) \in Saves
  <2>1. n \in Slots /\ (todo \cap Filled(imported)) \ {n} \in SUBSET Numbers
    BY <1>2, BoundTypes
  <2> QED
    BY <1>2, <2>1, SaveTyped
<1> QED
  BY <1>1, <1>2, MigrationGoesOn

\* What a call is, by its op.
LEMMA CallTypes ==
  ASSUME NEW call \in Calls
  PROVE  /\ call # None
         /\ call.op \in {"save", "load", "import", "convert", "clean"}
         /\ call.op = "save" <=> call \in Saves
         /\ call.op = "load" <=> call \in Loads
         /\ call.op = "import" <=> call \in Imports
         /\ call.op \in {"convert", "clean"} <=> call \in Conversions
  BY NoneCallAssumption DEF Calls, Saves, Loads, Imports, Conversions

LEMMA AfterSaveTyped ==
  ASSUME imported \in Imported, NEW call \in Saves
  PROVE  AfterSave(call) \in Saves \cup {None}
<1>1. call.password \in Passwords /\ call.todo \in SUBSET Numbers
      /\ Filled(imported) \in SUBSET Numbers
  BY DEF Saves, Filled, Imported
<1> QED
  BY <1>1, MigrationTyped DEF AfterSave

---------------------------------------------------------------------------
(* The types.                                                              *)

TaskTypes == tasks \in [Tasks -> Calls \cup {None}] /\ overlapped \in BOOLEAN

LEMMA SetTask ==
  ASSUME TaskTypes, NEW t \in Tasks, NEW call \in Calls \cup {None},
         \/ Begin(t, call)
         \/ tasks' = [tasks EXCEPT ![t] = call] /\ UNCHANGED overlapped
  PROVE  TaskTypes'
  BY DEF TaskTypes, Begin, Mark

LEMMA NewSeedTyped ==
  ASSUME TypeOK, NEW phrase \in Phrases, NEW password \in Passwords
  PROVE  NewSeed(phrase, password) \in Seeds
  BY DEF TypeOK, NewSeed, Seeds

\* What begins, begins with a call.
LEMMA BeginsTyped ==
  ASSUME TypeOK, NEW t \in Tasks, Begins(t)
  PROVE  TypeOK'
<1> USE DEF TypeOK, stores
<1>1. ASSUME NEW call \in Calls \cup {None}, Begin(t, call),
             UNCHANGED <<stores, epoch, returned>>
      PROVE  TypeOK'
  BY <1>1, SetTask DEF TaskTypes
<1>2. ASSUME NEW phrase \in Phrases, NEW password \in Passwords,
             SaveMain(t, phrase, password)
      PROVE  TypeOK'
  <2>1. SaveCall("main", 0, NewSeed(phrase, password), password, {}) \in Calls
    BY <1>2, NewSeedTyped, SaveTyped, BoundTypes DEF Calls
  <2> QED
    BY <1>1, <1>2, <2>1 DEF SaveMain
<1>3. ASSUME NEW phrase \in Phrases, NEW password \in Passwords,
             AssignSeedNumber(t, phrase, password)
      PROVE  TypeOK'
  <2>1. Least(NextNumbers(unified)) \in Slots
    BY <1>3, LeastOf, BoundTypes DEF AssignSeedNumber, NextNumbers
  <2>2. SaveCall("assign", Least(NextNumbers(unified)), NewSeed(phrase, password),
                 password, {}) \in Calls
    BY <1>3, <2>1, NewSeedTyped, SaveTyped DEF Calls
  <2> QED
    BY <1>1, <1>3, <2>2 DEF AssignSeedNumber
<1>4. ASSUME NEW phrase \in Phrases, NEW password \in Passwords,
             SaveImportedSeed(t, phrase, password)
      PROVE  TypeOK'
  <2>1. Least(NextNumbers(imported)) \in Numbers
    BY <1>4, LeastOf, BoundTypes DEF SaveImportedSeed, NextNumbers
  <2>2. [op |-> "import", slot |-> Least(NextNumbers(imported)),
         seed |-> NewSeed(phrase, password), read |-> imported] \in Calls
    BY <1>4, <2>1, NewSeedTyped DEF Calls, Imports
  <2> QED
    BY <1>1, <1>4, <2>2 DEF SaveImportedSeed
<1>5. ASSUME NEW password \in Passwords, Migrate(t, password)
      PROVE  TypeOK'
  <2>1. wallet # None =>
          [op |-> "load", by |-> "migration", wallet |-> wallet,
           password |-> password] \in Calls
    BY DEF Calls, Loads
  <2>2. plain # None =>
          SaveCall("migration", 0, [plain EXCEPT !.password = password], password, {})
            \in Calls
    <3>1. plain # None => [plain EXCEPT !.password = password] \in Seeds
      BY DEF Seeds
    <3> QED
      BY <3>1, SaveTyped, BoundTypes DEF Calls
  <2>3. MigrateNext(password, Filled(imported)) \in Calls \cup {None}
    BY MigrationTyped DEF Filled, Imported, Calls
  <2> QED
    BY <1>1, <1>5, <2>1, <2>2, <2>3 DEF Migrate
<1>6. ASSUME NEW password \in Passwords, Unlock(t, password)
      PROVE  TypeOK'
  <2>1. [op |-> "load", by |-> "unlock", wallet |-> wallet,
         password |-> password] \in Calls
    BY <1>6 DEF Unlock, Calls, Loads
  <2> QED
    BY <1>1, <1>6, <2>1 DEF Unlock
<1>7. ASSUME NEW password \in Passwords, MigrateLegacyWallet(t, password)
      PROVE  TypeOK'
  <2>1. [op |-> "convert", seed |-> plain] \in Calls
    BY <1>7 DEF MigrateLegacyWallet, Calls, Conversions
  <2> QED
    BY <1>1, <1>7, <2>1 DEF MigrateLegacyWallet
<1> QED
  BY <1>2, <1>3, <1>4, <1>5, <1>6, <1>7 DEF Begins

\* What goes on, goes on with a call or ends.
LEMMA GoesOnTyped ==
  ASSUME TypeOK, NEW t \in Tasks, GoesOn(t)
  PROVE  TypeOK'
<1> DEFINE call == tasks[t]
<1> USE DEF TypeOK, stores
<1>0. call \in Calls
  BY DEF GoesOn, SaveUnifiedSeed, FailSave, LoadWalletData, FailLoad, WriteImportedSeed,
         StoreWalletData, RemovePlain, FailLegacy
<1>1. ASSUME NEW next \in Calls \cup {None},
             tasks' = [tasks EXCEPT ![t] = next], UNCHANGED overlapped
      PROVE  TaskTypes'
  BY <1>1, SetTask DEF TaskTypes
<1>2. CASE SaveUnifiedSeed(t) \/ FailSave(t)
  <2>1. call \in Saves
    BY <1>0, <1>2, CallTypes DEF SaveUnifiedSeed, FailSave
  <2>2. AfterSave(call) \in Calls \cup {None}
    BY <2>1, AfterSaveTyped DEF Calls
  <2>3. TaskTypes'
    BY <1>1, <1>2, <2>2 DEF SaveUnifiedSeed, FailSave
  <2>4. unified' \in Unified
    BY <1>2, <2>1 DEF SaveUnifiedSeed, FailSave, Unified, Saves
  <2>5. returned' \subseteq Returns
    BY <1>2, <2>1 DEF SaveUnifiedSeed, FailSave, Saves, Seeds, Return, Returns
  <2> QED
    BY <1>2, <2>3, <2>4, <2>5 DEF SaveUnifiedSeed, FailSave, TaskTypes
<1>3. CASE LoadWalletData(t) \/ FailLoad(t)
  <2>1. call \in Loads /\ call.wallet \in Wallets /\ call.wallet.seed \in Seeds
        /\ call.password \in Passwords
    BY <1>0, <1>3, CallTypes DEF LoadWalletData, FailLoad, Loads, Wallets
  <2>2. SaveCall("migration", 0, call.wallet.seed, call.password, {}) \in Calls
    BY <2>1, SaveTyped, BoundTypes DEF Calls
  <2>3. MigrateNext(call.password, Filled(imported)) \in Calls \cup {None}
    BY <2>1, MigrationTyped DEF Filled, Imported, Calls
  <2>4. TaskTypes'
    BY <1>1, <1>3, <2>2, <2>3 DEF LoadWalletData, FailLoad
  <2>5. wallet' \in Wallets \cup {None}
    BY <1>3, <2>1 DEF LoadWalletData, FailLoad, Wallets
  <2> QED
    BY <1>3, <2>4, <2>5 DEF LoadWalletData, FailLoad, TaskTypes
<1>4. CASE WriteImportedSeed(t)
  <2>1. call \in Imports
    BY <1>0, <1>4, CallTypes DEF WriteImportedSeed
  <2>2. imported' \in Imported /\ returned' \subseteq Returns
    BY <1>4, <2>1, BoundTypes
       DEF WriteImportedSeed, Imports, Imported, Seeds, Return, Returns
  <2>3. TaskTypes'
    BY <1>1, <1>4 DEF WriteImportedSeed
  <2> QED
    BY <1>4, <2>2, <2>3 DEF WriteImportedSeed, TaskTypes
<1>5. CASE StoreWalletData(t)
  <2>1. call \in Conversions
    BY <1>0, <1>5, CallTypes DEF StoreWalletData
  <2>2. wallet' \in Wallets
    BY <1>5, <2>1 DEF StoreWalletData, Conversions, Wallets
  <2>3. [call EXCEPT !.op = "clean"] \in Calls
    BY <2>1 DEF Conversions, Calls
  <2>4. TaskTypes'
    BY <1>1, <1>5, <2>3 DEF StoreWalletData
  <2> QED
    BY <1>5, <2>2, <2>4 DEF StoreWalletData, TaskTypes
<1>6. CASE RemovePlain(t) \/ FailLegacy(t)
  <2>1. TaskTypes'
    BY <1>1, <1>6 DEF RemovePlain, FailLegacy
  <2> QED
    BY <1>6, <2>1 DEF RemovePlain, FailLegacy, TaskTypes
<1> QED
  BY <1>2, <1>3, <1>4, <1>5, <1>6 DEF GoesOn

\* The seed that is found is stored.
LEMMA FoundStored ==
  ASSUME TypeOK, NEW phrase \in Phrases
  PROVE  /\ FindSeedNumber(phrase) =>
              Least(SameHash(unified, phrase)) \in SameHash(unified, phrase)
         /\ FindImportedSeed(phrase) =>
              Least(SameHash(imported, phrase)) \in SameHash(imported, phrase)
<1>1. SameHash(unified, phrase) \in SUBSET Nat /\ SameHash(imported, phrase) \in SUBSET Nat
  BY BoundTypes DEF TypeOK, SameHash, Filled, Unified, Imported
<1> QED
  BY <1>1, LeastOf DEF FindSeedNumber, FindImportedSeed

LEMMA EmptyTyped == Empty(Slots) \in Unified /\ Empty(Numbers) \in Imported
  BY DEF Empty, Unified, Imported

LEMMA TypesKept ==
  ASSUME TypeOK, [Next]_vars
  PROVE  TypeOK'
<1>1. ASSUME NEW phrase \in Phrases, FindSeedNumber(phrase) \/ FindImportedSeed(phrase)
      PROVE  TypeOK'
  <2>1. /\ FindSeedNumber(phrase) => Least(SameHash(unified, phrase)) \in Slots
        /\ FindImportedSeed(phrase) => Least(SameHash(imported, phrase)) \in Slots
    BY FoundStored, BoundTypes DEF TypeOK, SameHash, Filled, Unified, Imported
  <2>2. returned' \subseteq Returns
    BY <1>1, <2>1 DEF FindSeedNumber, FindImportedSeed, Return, Returns, TypeOK
  <2> QED
    BY <1>1, <2>2 DEF TypeOK, FindSeedNumber, FindImportedSeed, stores, Mark
<1>2. CASE ResetWallet
  <2>1. epoch' \in Epochs
    BY <1>2, BoundsAssumption DEF ResetWallet, TypeOK, Epochs
  <2> QED
    BY <1>2, <2>1, EmptyTyped DEF TypeOK, ResetWallet, Mark
<1>3. CASE Close
  BY <1>3 DEF TypeOK, Close, stores
<1>4. CASE UNCHANGED vars
  BY <1>4 DEF TypeOK, vars, stores
<1> QED
  BY <1>1, <1>2, <1>3, <1>4, BeginsTyped, GoesOnTyped, Steps DEF Finds

LEMMA InitTypes == Init => TypeOK
<1> SUFFICES ASSUME Init PROVE TypeOK
  OBVIOUS
<1>1. PICK v \in LegacyVaults :
        wallet = v.wallet /\ plain = v.plain /\ imported = v.imported
  BY DEF Init
<1>2. wallet \in Wallets \cup {None} /\ plain \in Seeds \cup {None}
      /\ imported \in Imported
  BY <1>1, LegacyVaultsAssumption
<1> QED
  BY <1>2, EmptyTyped, BoundTypes DEF Init, TypeOK

\* The stores hold what they are made for, whatever calls interleave,
\* fail or are stopped, and a call under way has all that it goes on with.
THEOREM TypeCorrect == Spec => []TypeOK
<1>1. TypeOK /\ [Next]_vars => TypeOK'
  BY TypesKept
<1> QED
  BY <1>1, InitTypes, PTL DEF Spec

---------------------------------------------------------------------------
(* Numbers of calls that do not meet.                                      *)

LEMMA BeginsAlone ==
  ASSUME TypeOK, NEW t \in Tasks, NEW call, Begin(t, call), ~overlapped'
  PROVE  /\ ~overlapped /\ Running' \subseteq {t} /\ tasks'[t] = call
  BY DEF TypeOK, Begin, Mark, Running

LEMMA GoesOnAlone ==
  ASSUME TypeOK, Alone, NEW t \in Running, NEW next,
         tasks' = [tasks EXCEPT ![t] = next]
  PROVE  Running' \subseteq {t} /\ tasks'[t] = next
  BY DEF TypeOK, Alone, Running

\* A store in which the seeds that were there still are.
Keeps(store, changed) ==
  DOMAIN changed = DOMAIN store /\ \A n \in Filled(store) : changed[n] = store[n]

LEMMA NumbersKept ==
  ASSUME ReturnedNumbers, Keeps(unified, unified'), Keeps(imported, imported'),
         \A r \in returned' \ returned :
           r.slot \in SameHash(IF r.store = "unified" THEN unified' ELSE imported',
                               r.phrase)
  PROVE  ReturnedNumbers'
  BY DEF ReturnedNumbers, Keeps, SameHash, Filled

LEMMA SameKept == \A store : Keeps(store, store)
  BY DEF Keeps

\* What a migration goes on with is free.
LEMMA MigrationFresh ==
  ASSUME imported \in Imported, NEW password \in Passwords, NEW todo \in SUBSET Numbers,
         NEW store, todo \cap Filled(store) = {},
         MigrateNext(password, todo) # None
  PROVE  Fresh(MigrateNext(password, todo), store, imported)
<1>1. PICK n \in todo \cap Filled(imported) :
        MigrateNext(password, todo)
          = SaveCall("migration", n, imported[n], password,
                     (todo \cap Filled(imported)) \ {n})
  BY MigrationGoesOn
<1>2. n # 0
  BY <1>1, BoundTypes
<1> QED
  BY <1>1, <1>2 DEF Fresh, SaveCall

LEMMA BeginsFresh ==
  ASSUME TypeOK, NumbersInv, NEW t \in Tasks, Begins(t)
  PROVE  NumbersInv'
<1> SUFFICES ASSUME ~overlapped' PROVE (Alone /\ ReturnedNumbers)'
                   /\ \A u \in Running' : Fresh(tasks'[u], unified', imported')
  BY DEF NumbersInv
<1>1. ASSUME NEW call, Begin(t, call), UNCHANGED <<stores, epoch, returned>>,
             call # None => Fresh(call, unified, imported)
      PROVE  (Alone /\ ReturnedNumbers)'
             /\ \A u \in Running' : Fresh(tasks'[u], unified', imported')
  <2>1. ~overlapped /\ Running' \subseteq {t} /\ tasks'[t] = call
    BY <1>1, BeginsAlone
  <2>2. UNCHANGED <<unified, imported, returned>>
    BY <1>1 DEF stores
  <2>3. ReturnedNumbers'
    BY <2>1, <2>2 DEF NumbersInv, ReturnedNumbers, SameHash, Filled
  <2>4. Alone'
    BY <2>1 DEF Alone
  <2>5. t \in Running' => call # None
    BY <2>1 DEF Running
  <2> QED
    BY <1>1, <2>1, <2>2, <2>3, <2>4, <2>5
<1>2. ASSUME NEW phrase \in Phrases, NEW password \in Passwords,
             SaveMain(t, phrase, password)
      PROVE  Fresh(SaveCall("main", 0, NewSeed(phrase, password), password, {}),
                   unified, imported)
  BY <1>2 DEF SaveMain, HasWallet, HasUnifiedSeeds, Fresh, SaveCall
<1>3. ASSUME NEW phrase \in Phrases, NEW password \in Passwords,
             AssignSeedNumber(t, phrase, password)
      PROVE  Fresh(SaveCall("assign", Least(NextNumbers(unified)),
                            NewSeed(phrase, password), password, {}),
                   unified, imported)
  <2>1. Least(NextNumbers(unified)) \in NextNumbers(unified)
    BY <1>3, LeastOf, BoundTypes DEF AssignSeedNumber, NextNumbers
  <2> QED
    BY <2>1 DEF Fresh, SaveCall, NextNumbers
<1>4. ASSUME NEW phrase \in Phrases, NEW password \in Passwords,
             SaveImportedSeed(t, phrase, password)
      PROVE  Fresh([op |-> "import", slot |-> Least(NextNumbers(imported)),
                    seed |-> NewSeed(phrase, password), read |-> imported],
                   unified, imported)
  <2>1. Least(NextNumbers(imported)) \in NextNumbers(imported)
    BY <1>4, LeastOf, BoundTypes DEF SaveImportedSeed, NextNumbers
  <2> QED
    BY <2>1 DEF Fresh, NextNumbers
<1>5. ASSUME NEW password \in Passwords, Migrate(t, password)
      PROVE  (Alone /\ ReturnedNumbers)'
             /\ \A u \in Running' : Fresh(tasks'[u], unified', imported')
  <2>1. Filled(unified) = {} /\ UNCHANGED <<stores, epoch, returned>>
    BY <1>5 DEF Migrate, HasUnifiedSeeds
  <2>2. Fresh([op |-> "load", by |-> "migration", wallet |-> wallet,
               password |-> password], unified, imported)
    BY <2>1 DEF Fresh
  <2>3. Fresh(SaveCall("migration", 0, [plain EXCEPT !.password = password],
                       password, {}), unified, imported)
    BY <2>1 DEF Fresh, SaveCall
  <2>4. Filled(imported) \in SUBSET Numbers /\ imported \in Imported
    BY DEF TypeOK, Filled, Imported
  <2>5. MigrateNext(password, Filled(imported)) # None
          => Fresh(MigrateNext(password, Filled(imported)), unified, imported)
    BY <2>1, <2>4, MigrationFresh
  <2> QED
    BY <1>1, <1>5, <2>1, <2>2, <2>3, <2>5 DEF Migrate
<1>6. Fresh([op |-> "convert", seed |-> plain], unified, imported)
  BY DEF Fresh
<1>7. \A password : Fresh([op |-> "load", by |-> "unlock", wallet |-> wallet,
                          password |-> password], unified, imported)
  BY DEF Fresh
<1>8. ASSUME NEW phrase \in Phrases, NEW password \in Passwords,
             \/ SaveMain(t, phrase, password)
             \/ AssignSeedNumber(t, phrase, password)
             \/ SaveImportedSeed(t, phrase, password)
      PROVE  (Alone /\ ReturnedNumbers)'
             /\ \A u \in Running' : Fresh(tasks'[u], unified', imported')
  BY <1>1, <1>2, <1>3, <1>4, <1>8 DEF SaveMain, AssignSeedNumber, SaveImportedSeed
<1>9. ASSUME NEW password \in Passwords,
             Unlock(t, password) \/ MigrateLegacyWallet(t, password)
      PROVE  (Alone /\ ReturnedNumbers)'
             /\ \A u \in Running' : Fresh(tasks'[u], unified', imported')
  BY <1>1, <1>6, <1>7, <1>9 DEF Unlock, MigrateLegacyWallet
<1> QED
  BY <1>5, <1>8, <1>9 DEF Begins

LEMMA GoesOnFresh ==
  ASSUME TypeOK, NumbersInv, NEW t \in Tasks, GoesOn(t)
  PROVE  NumbersInv'
<1> DEFINE call == tasks[t]
<1> SUFFICES ASSUME ~overlapped' PROVE NumbersInv'
  BY DEF NumbersInv
<1>1. /\ ~overlapped /\ t \in Running /\ Alone
      /\ Fresh(call, unified, imported) /\ ReturnedNumbers
      /\ call \in Calls /\ unified \in Unified /\ imported \in Imported
      /\ Filled(imported) \in SUBSET Numbers
  BY DEF GoesOn, SaveUnifiedSeed, FailSave, LoadWalletData, FailLoad,
         WriteImportedSeed, StoreWalletData, RemovePlain, FailLegacy, NumbersInv,
         Running, TypeOK, Filled, Imported
<1> HIDE DEF call
<1>2. ASSUME NEW next, tasks' = [tasks EXCEPT ![t] = next],
             next # None => Fresh(next, unified', imported'), ReturnedNumbers'
      PROVE  NumbersInv'
  <2>1. Running' \subseteq {t} /\ tasks'[t] = next
    BY <1>1, <1>2, GoesOnAlone
  <2> QED
    BY <1>2, <2>1 DEF NumbersInv, Alone, Running
<1>3. CASE SaveUnifiedSeed(t) \/ FailSave(t)
  <2>1. call \in Saves /\ UNCHANGED imported
    BY <1>1, <1>3, CallTypes DEF SaveUnifiedSeed, FailSave, stores, call
  <2>2. /\ call.slot \in Slots /\ call.seed \in Seeds /\ call.todo \in SUBSET Numbers
        /\ call.password \in Passwords /\ call.seed # None
        /\ call.op = "save"
    BY <2>1, BoundsAssumption DEF Saves
  <2>3. \/ UNCHANGED unified
        \/ unified' = [unified EXCEPT ![call.slot] = call.seed]
    BY <1>3 DEF SaveUnifiedSeed, FailSave, stores, call
  <2>4. /\ Keeps(unified, unified') /\ Keeps(imported, imported')
        /\ Filled(unified') \subseteq Filled(unified) \cup {call.slot}
    BY <1>1, <2>1, <2>2, <2>3 DEF Keeps, Fresh, Filled, Unified
  <2>5. ReturnedNumbers'
    <3>1. CASE UNCHANGED returned
      BY <1>1, <2>4, <3>1, NumbersKept
    <3>2. CASE unified' = [unified EXCEPT ![call.slot] = call.seed]
                 /\ Return("unified", call.slot, call.seed.phrase)
      <4>1. call.slot \in SameHash(unified', call.seed.phrase)
        BY <1>1, <2>2, <3>2 DEF SameHash, Filled, Unified
      <4>2. \A r \in returned' \ returned :
              r = [store |-> "unified", slot |-> call.slot, phrase |-> call.seed.phrase]
        BY <3>2 DEF Return
      <4> QED
        BY <1>1, <2>4, <4>1, <4>2, NumbersKept
    <3> QED
      BY <1>3, <3>1, <3>2 DEF SaveUnifiedSeed, FailSave, call
  <2>6. AfterSave(call) # None => Fresh(AfterSave(call), unified', imported')
    <3> DEFINE todo == IF call.slot = 0 THEN Filled(imported) ELSE call.todo
    <3>1. call.by = "migration" => todo \cap Filled(unified') = {}
      BY <1>1, <2>2, <2>4, BoundTypes DEF Fresh
    <3>2. todo \in SUBSET Numbers
      BY <1>1, <2>2
    <3> HIDE DEF todo
    <3>3. call.by = "migration" /\ MigrateNext(call.password, todo) # None
            => Fresh(MigrateNext(call.password, todo), unified', imported)
      BY <1>1, <2>2, <3>1, <3>2, MigrationFresh
    <3> QED
      BY <2>1, <3>3 DEF AfterSave, todo
  <2>7. tasks' = [tasks EXCEPT ![t] = AfterSave(call)]
    BY <1>3 DEF SaveUnifiedSeed, FailSave, call
  <2> QED
    BY <1>2, <2>5, <2>6, <2>7
<1>4. CASE LoadWalletData(t) \/ FailLoad(t)
  <2>1. /\ call \in Loads /\ call.op = "load" /\ call.password \in Passwords
        /\ UNCHANGED <<unified, imported, returned>>
    BY <1>1, <1>4, CallTypes DEF LoadWalletData, FailLoad, stores, call, Loads
  <2>2. ReturnedNumbers'
    BY <1>1, <2>1, NumbersKept, SameKept
  <2>3. call.by = "migration" => Filled(unified) = {}
    BY <1>1, <2>1 DEF Fresh
  <2>4. call.by = "migration" =>
          Fresh(SaveCall("migration", 0, call.wallet.seed, call.password, {}),
                unified, imported)
    BY <2>3 DEF Fresh, SaveCall
  <2>5. call.by = "migration" /\ MigrateNext(call.password, Filled(imported)) # None
          => Fresh(MigrateNext(call.password, Filled(imported)), unified, imported)
    BY <1>1, <2>1, <2>3, MigrationFresh
  <2> QED
    BY <1>2, <1>4, <2>1, <2>2, <2>4, <2>5 DEF LoadWalletData, FailLoad, call
<1>5. CASE WriteImportedSeed(t)
  <2>1. call \in Imports
    BY <1>1, <1>5, CallTypes DEF WriteImportedSeed, call
  <2>2. /\ call.op = "import" /\ call.slot \in Numbers
        /\ call.seed \in Seeds /\ call.seed # None
    BY <2>1, BoundsAssumption DEF Imports
  <2>3. /\ imported' = [imported EXCEPT ![call.slot] = call.seed]
        /\ call.slot \notin Filled(imported) /\ UNCHANGED unified
        /\ Return("imported", call.slot, call.seed.phrase)
    BY <1>1, <1>5, <2>2 DEF WriteImportedSeed, Fresh, call
  <2>4. Keeps(imported, imported') /\ Keeps(unified, unified')
    BY <1>1, <2>2, <2>3, SameKept DEF Keeps, Filled, Imported
  <2>5. call.slot \in SameHash(imported', call.seed.phrase)
    BY <1>1, <2>2, <2>3 DEF SameHash, Filled, Imported
  <2>6. \A r \in returned' \ returned :
          r = [store |-> "imported", slot |-> call.slot, phrase |-> call.seed.phrase]
    BY <2>3 DEF Return
  <2>7. ReturnedNumbers'
    BY <1>1, <2>4, <2>5, <2>6, NumbersKept
  <2> QED
    BY <1>2, <1>5, <2>7 DEF WriteImportedSeed
<1>6. CASE StoreWalletData(t) \/ RemovePlain(t) \/ FailLegacy(t)
  <2>1. UNCHANGED <<unified, imported, returned>>
    BY <1>6 DEF StoreWalletData, RemovePlain, FailLegacy, stores
  <2>2. ReturnedNumbers'
    BY <1>1, <2>1, NumbersKept, SameKept
  <2>3. StoreWalletData(t) => Fresh([call EXCEPT !.op = "clean"], unified', imported')
    BY <1>1, CallTypes DEF StoreWalletData, call, Conversions, Fresh
  <2> QED
    BY <1>2, <1>6, <2>2, <2>3 DEF StoreWalletData, RemovePlain, FailLegacy, call
<1> QED
  BY <1>3, <1>4, <1>5, <1>6 DEF GoesOn

LEMMA NumbersInvKept ==
  ASSUME TypeOK, NumbersInv, [Next]_vars
  PROVE  NumbersInv'
<1>1. CASE Finds
  <2>1. PICK phrase \in Phrases : FindSeedNumber(phrase) \/ FindImportedSeed(phrase)
    BY <1>1 DEF Finds
  <2>2. UNCHANGED <<stores, tasks>> /\ (~overlapped' => ~overlapped)
    BY <2>1 DEF FindSeedNumber, FindImportedSeed, Mark
  <2>3. \A r \in returned' \ returned :
          r.slot \in SameHash(IF r.store = "unified" THEN unified ELSE imported, r.phrase)
    BY <2>1, FoundStored DEF FindSeedNumber, FindImportedSeed, Return
  <2>4. ~overlapped => ReturnedNumbers'
    BY <2>2, <2>3, NumbersKept, SameKept DEF NumbersInv, stores
  <2> QED
    BY <2>2, <2>4 DEF NumbersInv, Alone, Running, stores
<1>2. CASE ResetWallet
  <2>1. ReturnedNumbers'
    BY <1>2 DEF ResetWallet, ReturnedNumbers
  <2>2. ~overlapped' => Running' = {}
    BY <1>2 DEF ResetWallet, Mark, Running
  <2> QED
    BY <2>1, <2>2 DEF NumbersInv, Alone
<1>3. CASE Close
  <2>1. Running' = {} /\ UNCHANGED <<unified, imported, returned, overlapped>>
    BY <1>3 DEF Close, Running, stores
  <2> QED
    BY <2>1, NumbersKept, SameKept DEF NumbersInv, Alone
<1>4. CASE UNCHANGED vars
  BY <1>4, NumbersKept, SameKept DEF NumbersInv, Alone, Running, vars, stores
<1> QED
  BY <1>1, <1>2, <1>3, <1>4, BeginsFresh, GoesOnFresh, Steps

LEMMA InitNumbers == Init => NumbersInv
  BY DEF Init, NumbersInv, Alone, Running, ReturnedNumbers

\* Calls that do not meet keep the numbers they have returned: the slot that
\* a save, a migration or an import writes is free when it does, however
\* many saves before it have failed or were cut off.
THEOREM NumbersStay == Spec => []SequentialNumbers
<1>1. TypeOK /\ NumbersInv /\ [Next]_vars => NumbersInv'
  BY NumbersInvKept
<1>2. NumbersInv => SequentialNumbers
  BY DEF NumbersInv, SequentialNumbers
<1> QED
  BY <1>1, <1>2, InitNumbers, TypeCorrect, PTL DEF Spec

---------------------------------------------------------------------------
(* The book of seed numbers.                                               *)

Booked == Entered("unified", unified) \cup Entered("imported", imported)
Given == {Entry(r.store, r.slot, r.phrase) : r \in returned}

LEMMA EntryTyped ==
  ASSUME NEW store \in {"unified", "imported"}, NEW slot \in Slots,
         NEW phrase \in Phrases
  PROVE  Entry(store, slot, phrase) \in Book!Entries
  BY DEF Entry, Book!Entries

BookOK == Booked \in SUBSET Book!Entries /\ Given \in SUBSET Book!Entries

LEMMA BookTyped == TypeOK => BookOK
<1> SUFFICES ASSUME TypeOK PROVE BookOK
  OBVIOUS
<1>1. ASSUME NEW n \in Filled(unified)
      PROVE  Entry("unified", n, unified[n].phrase) \in Book!Entries
  <2>1. n \in Slots /\ unified[n].phrase \in Phrases
    BY DEF TypeOK, Filled, Unified, Seeds
  <2> QED
    BY <2>1, EntryTyped
<1>2. ASSUME NEW n \in Filled(imported)
      PROVE  Entry("imported", n, imported[n].phrase) \in Book!Entries
  <2>1. n \in Slots /\ imported[n].phrase \in Phrases
    BY BoundTypes DEF TypeOK, Filled, Imported, Seeds
  <2> QED
    BY <2>1, EntryTyped
<1>3. ASSUME NEW r \in returned
      PROVE  Entry(r.store, r.slot, r.phrase) \in Book!Entries
  <2>1. r \in Returns
    BY DEF TypeOK
  <2> QED
    BY <2>1, EntryTyped DEF Returns
<1> QED
  BY <1>1, <1>2, <1>3 DEF BookOK, Booked, Given, Entered

\* A number of a store has one entry at most.
LEMMA OneEntry ==
  ASSUME NEW e \in Booked, NEW f \in Booked, Book!SameNumber(e, f)
  PROVE  e = f
<1>1. ASSUME NEW store, NEW seeds, NEW g \in Entered(store, seeds)
      PROVE  /\ g.store = store /\ g.slot \in Filled(seeds)
             /\ g = Entry(store, g.slot, seeds[g.slot].phrase)
  BY DEF Entered, Entry
<1> QED
  BY <1>1 DEF Booked, Book!SameNumber

\* A seed that fills a free slot is one more entry.
LEMMA EnteredMore ==
  ASSUME NEW store, NEW seeds \in Unified \cup Imported, NEW slot \in DOMAIN seeds,
         slot \notin Filled(seeds), NEW seed \in Seeds, NEW changed,
         DOMAIN changed = DOMAIN seeds, changed[slot] = seed,
         \A n \in DOMAIN seeds \ {slot} : changed[n] = seeds[n]
  PROVE  /\ Entered(store, changed)
              = Entered(store, seeds) \cup {Entry(store, slot, seed.phrase)}
         /\ \A e \in Entered(store, seeds) : e.store = store /\ e.slot # slot
<1>1. seed # None
  BY BoundsAssumption
<1>2. Filled(changed) = Filled(seeds) \cup {slot}
  BY <1>1 DEF Filled, Unified, Imported
<1>3. changed[slot] = seed /\ \A n \in Filled(seeds) : changed[n] = seeds[n]
  BY DEF Filled, Unified, Imported
<1>4. \A e \in Entered(store, seeds) : e.store = store /\ e.slot # slot
  BY DEF Entered, Entry
<1>5. \A n \in Filled(seeds) :
        Entry(store, n, changed[n].phrase) = Entry(store, n, seeds[n].phrase)
  BY <1>3
<1>6. \A e : e \in Entered(store, changed) <=>
             \/ \E n \in Filled(seeds) : e = Entry(store, n, seeds[n].phrase)
             \/ e = Entry(store, slot, seed.phrase)
  BY <1>2, <1>3, <1>5 DEF Entered
<1>7. \A e : e \in Entered(store, seeds) <=>
             \E n \in Filled(seeds) : e = Entry(store, n, seeds[n].phrase)
  BY DEF Entered
<1>8. Entered(store, changed) = Entered(store, seeds) \cup {Entry(store, slot, seed.phrase)}
  BY <1>6, <1>7
<1> QED
  BY <1>4, <1>8

LEMMA GivenMore ==
  ASSUME NEW store, NEW slot, NEW phrase, Return(store, slot, phrase)
  PROVE  Given' = Given \cup {Entry(store, slot, phrase)}
<1> DEFINE r == [store |-> store, slot |-> slot, phrase |-> phrase]
<1>1. returned' = returned \cup {r}
  BY DEF Return
<1>2. Entry(r.store, r.slot, r.phrase) = Entry(store, slot, phrase)
  OBVIOUS
<1> HIDE DEF r
<1> QED
  BY <1>1, <1>2 DEF Given

\* The steps that no other call meets.
LEMMA CalmStep ==
  ASSUME TypeOK, NumbersInv, [Next]_vars, ~overlapped'
  PROVE  \/ \E e \in Book!Entries : Book!Enter(e) \/ Book!Give(e)
         \/ Book!Forget
         \/ UNCHANGED <<Booked, Given>>
<1>1. ASSUME UNCHANGED <<unified, imported, returned>>
      PROVE  UNCHANGED <<Booked, Given>>
  BY <1>1 DEF Booked, Given
<1>2. ASSUME NEW t \in Tasks, Begins(t)
      PROVE  UNCHANGED <<unified, imported, returned>>
  BY <1>2 DEF Begins, SaveMain, AssignSeedNumber, SaveImportedSeed, Migrate, Unlock,
              MigrateLegacyWallet, stores
<1>3. ASSUME NEW t \in Tasks, GoesOn(t)
      PROVE  t \in Running /\ tasks[t] \in Calls /\ Fresh(tasks[t], unified, imported)
  BY <1>3 DEF GoesOn, SaveUnifiedSeed, FailSave, LoadWalletData, FailLoad,
              WriteImportedSeed, StoreWalletData, RemovePlain, FailLegacy, NumbersInv,
              Running, TypeOK
<1>4. ASSUME NEW t \in Tasks, SaveUnifiedSeed(t)
      PROVE  \E e \in Book!Entries : Book!Enter(e)
  <2> DEFINE call == tasks[t]
             e == Entry("unified", call.slot, call.seed.phrase)
  <2>1. /\ call.op = "save" /\ call.slot \in Slots /\ call.seed \in Seeds
        /\ call.slot \notin Filled(unified)
    BY <1>3, <1>4, CallTypes DEF GoesOn, SaveUnifiedSeed, Saves, Fresh
  <2>2. /\ unified' = [unified EXCEPT ![call.slot] = call.seed] /\ imported' = imported
        /\ UNCHANGED returned \/ Return("unified", call.slot, call.seed.phrase)
    BY <1>4 DEF SaveUnifiedSeed
  <2>3. e \in Book!Entries
    BY <2>1, EntryTyped DEF Seeds
  <2>4. /\ Entered("unified", unified') = Entered("unified", unified) \cup {e}
        /\ \A f \in Entered("unified", unified) : f.slot # call.slot
    <3>1. unified \in Unified /\ DOMAIN unified = Slots
      BY DEF TypeOK, Unified
    <3>2. /\ DOMAIN unified' = DOMAIN unified /\ unified'[call.slot] = call.seed
          /\ \A n \in DOMAIN unified \ {call.slot} : unified'[n] = unified[n]
      BY <2>1, <2>2, <3>1 DEF Unified
    <3> HIDE DEF call
    <3>3. \A store, changed :
            /\ DOMAIN changed = DOMAIN unified /\ changed[call.slot] = call.seed
            /\ \A n \in DOMAIN unified \ {call.slot} : changed[n] = unified[n]
            => /\ Entered(store, changed)
                   = Entered(store, unified) \cup {Entry(store, call.slot, call.seed.phrase)}
               /\ \A f \in Entered(store, unified) : f.slot # call.slot
      BY <2>1, <3>1, EnteredMore
    <3> QED
      BY <3>2, <3>3
  <2>5. \A f \in Booked : ~Book!SameNumber(e, f)
    BY <2>4 DEF Booked, Book!SameNumber, Entered, Entry
  <2>6. Booked' = Booked \cup {e}
    BY <2>2, <2>4 DEF Booked
  <2>7. Given' \in {Given, Given \cup {e}}
    BY <2>2, GivenMore DEF Given
  <2> QED
    BY <2>3, <2>5, <2>6, <2>7 DEF Book!Enter, Booked, Given
<1>5. ASSUME NEW t \in Tasks, WriteImportedSeed(t)
      PROVE  \E e \in Book!Entries : Book!Enter(e)
  <2> DEFINE call == tasks[t]
             e == Entry("imported", call.slot, call.seed.phrase)
  <2>1. /\ call.op = "import" /\ call.slot \in Numbers /\ call.seed \in Seeds
        /\ call.slot \notin Filled(imported) /\ call.read = imported
    BY <1>3, <1>5, CallTypes DEF GoesOn, WriteImportedSeed, Imports, Fresh
  <2>2. /\ imported' = [imported EXCEPT ![call.slot] = call.seed] /\ unified' = unified
        /\ Return("imported", call.slot, call.seed.phrase)
    BY <1>5, <2>1 DEF WriteImportedSeed
  <2>3. e \in Book!Entries
    BY <2>1, EntryTyped, BoundTypes DEF Seeds
  <2>4. /\ Entered("imported", imported') = Entered("imported", imported) \cup {e}
        /\ \A f \in Entered("imported", imported) : f.slot # call.slot
    <3>1. imported \in Imported /\ DOMAIN imported = Numbers
      BY DEF TypeOK, Imported
    <3>2. /\ DOMAIN imported' = DOMAIN imported /\ imported'[call.slot] = call.seed
          /\ \A n \in DOMAIN imported \ {call.slot} : imported'[n] = imported[n]
      BY <2>1, <2>2, <3>1 DEF Imported
    <3>. /\ call.slot \in DOMAIN imported /\ call.slot \notin Filled(imported)
         /\ call.seed \in Seeds /\ imported \in Unified \cup Imported
      BY <2>1, <3>1
    <3> HIDE DEF call
    <3>3. \A store, changed :
            /\ DOMAIN changed = DOMAIN imported /\ changed[call.slot] = call.seed
            /\ \A n \in DOMAIN imported \ {call.slot} : changed[n] = imported[n]
            => /\ Entered(store, changed)
                   = Entered(store, imported) \cup {Entry(store, call.slot, call.seed.phrase)}
               /\ \A f \in Entered(store, imported) : f.slot # call.slot
      BY EnteredMore
    <3> QED
      BY <3>2, <3>3
  <2>5. \A f \in Booked : ~Book!SameNumber(e, f)
    BY <2>4 DEF Booked, Book!SameNumber, Entered, Entry
  <2>6. Booked' = Booked \cup {e} /\ Given' = Given \cup {e}
    BY <2>2, <2>4, GivenMore DEF Booked
  <2> QED
    BY <2>3, <2>5, <2>6 DEF Book!Enter, Booked, Given
<1>6. ASSUME NEW phrase \in Phrases,
             FindSeedNumber(phrase) \/ FindImportedSeed(phrase)
      PROVE  \E e \in Book!Entries : Book!Give(e)
  <2>1. UNCHANGED <<unified, imported>>
    BY <1>6 DEF FindSeedNumber, FindImportedSeed, stores
  <2>2. \/ \E slot \in SameHash(unified, phrase) : Return("unified", slot, phrase)
        \/ \E slot \in SameHash(imported, phrase) : Return("imported", slot, phrase)
    BY <1>6, FoundStored DEF FindSeedNumber, FindImportedSeed
  <2>3. \A store, seeds : \A slot \in SameHash(seeds, phrase) :
          Entry(store, slot, phrase) \in Entered(store, seeds)
    BY DEF SameHash, Entered, Entry
  <2>4. PICK store, slot : /\ Return(store, slot, phrase)
                           /\ Entry(store, slot, phrase) \in Booked
    BY <2>2, <2>3 DEF Booked
  <2>5. /\ Entry(store, slot, phrase) \in Book!Entries
        /\ Given' = Given \cup {Entry(store, slot, phrase)} /\ Booked' = Booked
    BY <2>1, <2>4, BookTyped, GivenMore DEF BookOK, Booked
  <2> QED
    BY <2>4, <2>5 DEF Book!Give, Booked, Given
<1>7. ResetWallet => Book!Forget
  BY DEF ResetWallet, Book!Forget, Entered, Filled, Empty
<1>8. Close \/ UNCHANGED vars => UNCHANGED <<unified, imported, returned>>
  BY DEF Close, vars, stores
<1>9. ASSUME NEW t \in Tasks, GoesOn(t), ~SaveUnifiedSeed(t), ~WriteImportedSeed(t)
      PROVE  UNCHANGED <<unified, imported, returned>>
  BY <1>9 DEF GoesOn, FailSave, LoadWalletData, FailLoad, StoreWalletData,
              RemovePlain, FailLegacy, stores
<1> QED
  BY <1>1, <1>2, <1>4, <1>5, <1>6, <1>7, <1>8, <1>9, Steps DEF Finds

\* Calls that have met have met for good.
LEMMA OverlapStays ==
  ASSUME TypeOK, [Next]_vars, overlapped' = FALSE
  PROVE  overlapped' = overlapped
<1>1. ASSUME NEW t \in Tasks, Begins(t)
      PROVE  ~overlapped
  BY <1>1 DEF Begins, SaveMain, AssignSeedNumber, SaveImportedSeed, Migrate, Unlock,
              MigrateLegacyWallet, Begin, Mark
<1>2. ASSUME NEW t \in Tasks, GoesOn(t)
      PROVE  ~overlapped
  BY <1>2 DEF GoesOn, SaveUnifiedSeed, FailSave, LoadWalletData, FailLoad,
              WriteImportedSeed, StoreWalletData, RemovePlain, FailLegacy
<1>3. Finds \/ ResetWallet \/ Close \/ UNCHANGED vars => ~overlapped
  BY DEF Finds, FindSeedNumber, FindImportedSeed, ResetWallet, Close, Mark, vars
<1>4. ~overlapped
  BY <1>1, <1>2, <1>3, Steps
<1> QED
  BY <1>4 DEF TypeOK

\* NumbersSpec: what a call reads before an await is still so when it writes,
\* while no call meets it, so that each write is an entry for a free number.
THEOREM KeepsNumbers == Spec => NumbersSpec
<1>1. TypeOK /\ Init => Book!Init
  <2> SUFFICES ASSUME TypeOK, Init PROVE Book!Init
    OBVIOUS
  <2>1. Booked \in SUBSET Book!Entries
    BY BookTyped DEF BookOK
  <2>2. Given = {}
    BY DEF Init, Given
  <2> QED
    BY <2>1, <2>2, OneEntry DEF Init, Book!Init, Booked, Given
<1>2. TypeOK => BookOK
  BY BookTyped DEF BookOK
<1>3. TypeOK /\ TypeOK' /\ BookOK' /\ NumbersInv /\ [Next]_vars
        => [Book!Next]_(Book!vars)
  <2> SUFFICES ASSUME TypeOK, TypeOK', BookOK', NumbersInv, [Next]_vars
               PROVE  [Book!Next]_(Book!vars)
    OBVIOUS
  <2>1. CASE overlapped' = TRUE
    BY <2>1 DEF BookOK, Book!Entries, Book!Next, Book!Meet, Booked, Given
  <2>2. CASE overlapped' = FALSE
    <3>1. overlapped' = overlapped
      BY <2>2, OverlapStays
    <3> QED
      BY <2>2, <3>1, CalmStep DEF Book!Next, Book!vars, Booked, Given
  <2> QED
    BY <2>1, <2>2 DEF TypeOK
<1>4. TypeOK /\ NumbersInv /\ [Next]_vars => NumbersInv'
  BY NumbersInvKept
<1> QED
  BY <1>1, <1>2, <1>3, <1>4, InitNumbers, TypeCorrect, PTL
     DEF Spec, NumbersSpec, Book!Spec

---------------------------------------------------------------------------
(* Resets.                                                                 *)

\* What a migration goes on with is an imported seed.
LEMMA MigrationRecent ==
  ASSUME imported \in Imported, NEW password \in Passwords, NEW todo \in SUBSET Numbers,
         \A n \in Filled(imported) : imported[n].epoch = epoch,
         MigrateNext(password, todo) # None
  PROVE  SeedOf(MigrateNext(password, todo)).epoch = epoch
<1>1. PICK n \in todo \cap Filled(imported) :
        MigrateNext(password, todo)
          = SaveCall("migration", n, imported[n], password,
                     (todo \cap Filled(imported)) \ {n})
  BY MigrationGoesOn
<1> QED
  BY <1>1 DEF SeedOf, SaveCall

LEMMA BeginsRecent ==
  ASSUME TypeOK, Recent, NEW t \in Tasks, Begins(t)
  PROVE  Recent'
<1> SUFFICES ASSUME ~overlapped' PROVE Recent'
  BY DEF Recent
<1>1. ASSUME NEW call, Begin(t, call), UNCHANGED <<stores, epoch, returned>>,
             ~overlapped /\ call # None => SeedOf(call).epoch = epoch
      PROVE  Recent'
  <2>1. ~overlapped /\ Running' \subseteq {t} /\ tasks'[t] = call
    BY <1>1, BeginsAlone
  <2>2. t \in Running' => call # None
    BY <2>1 DEF Running
  <2>3. ResetClears'
    BY <1>1, <2>1 DEF Recent, ResetClears, Filled, stores
  <2> QED
    BY <1>1, <2>1, <2>2, <2>3 DEF Recent
<1>2. \A phrase, password, slot :
        /\ SeedOf(SaveCall("main", 0, NewSeed(phrase, password), password, {})).epoch = epoch
        /\ SeedOf(SaveCall("assign", slot, NewSeed(phrase, password), password, {})).epoch
             = epoch
        /\ SeedOf([op |-> "import", slot |-> slot, seed |-> NewSeed(phrase, password),
                   read |-> imported]).epoch = epoch
  BY DEF SeedOf, SaveCall, NewSeed
<1>3. ASSUME NEW phrase \in Phrases, NEW password \in Passwords,
             \/ SaveMain(t, phrase, password)
             \/ AssignSeedNumber(t, phrase, password)
             \/ SaveImportedSeed(t, phrase, password)
      PROVE  Recent'
  BY <1>1, <1>2, <1>3 DEF SaveMain, AssignSeedNumber, SaveImportedSeed
<1>4. ASSUME NEW password \in Passwords, Migrate(t, password)
      PROVE  Recent'
  <2>1. ~overlapped /\ wallet # None =>
          SeedOf([op |-> "load", by |-> "migration", wallet |-> wallet,
                  password |-> password]).epoch = epoch
    BY DEF Recent, ResetClears, SeedOf
  <2>2. ~overlapped /\ plain # None =>
          SeedOf(SaveCall("migration", 0, [plain EXCEPT !.password = password],
                          password, {})).epoch = epoch
    BY DEF Recent, ResetClears, SeedOf, SaveCall, TypeOK, Seeds
  <2>3. Filled(imported) \in SUBSET Numbers /\ imported \in Imported
    BY DEF TypeOK, Filled, Imported
  <2>4. ~overlapped /\ MigrateNext(password, Filled(imported)) # None
          => SeedOf(MigrateNext(password, Filled(imported))).epoch = epoch
    BY <2>3, MigrationRecent DEF Recent, ResetClears
  <2> QED
    BY <1>1, <1>4, <2>1, <2>2, <2>4 DEF Migrate
<1>5. ASSUME NEW password \in Passwords,
             Unlock(t, password) \/ MigrateLegacyWallet(t, password)
      PROVE  Recent'
  <2>1. ~overlapped /\ wallet # None =>
          SeedOf([op |-> "load", by |-> "unlock", wallet |-> wallet,
                  password |-> password]).epoch = epoch
    BY DEF Recent, ResetClears, SeedOf
  <2>2. ~overlapped /\ plain # None =>
          SeedOf([op |-> "convert", seed |-> plain]).epoch = epoch
    BY DEF Recent, ResetClears, SeedOf
  <2> QED
    BY <1>1, <1>5, <2>1, <2>2 DEF Unlock, MigrateLegacyWallet
<1> QED
  BY <1>3, <1>4, <1>5 DEF Begins

LEMMA GoesOnRecent ==
  ASSUME TypeOK, NumbersInv, Recent, NEW t \in Tasks, GoesOn(t)
  PROVE  Recent'
<1> DEFINE call == tasks[t]
<1> SUFFICES ASSUME ~overlapped' PROVE Recent'
  BY DEF Recent
<1>1. /\ ~overlapped /\ t \in Running /\ Alone
      /\ Fresh(call, unified, imported) /\ ResetClears
      /\ SeedOf(call).epoch = epoch /\ epoch' = epoch
      /\ call \in Calls /\ unified \in Unified /\ imported \in Imported
      /\ Filled(imported) \in SUBSET Numbers
  BY DEF GoesOn, SaveUnifiedSeed, FailSave, LoadWalletData, FailLoad,
         WriteImportedSeed, StoreWalletData, RemovePlain, FailLegacy, NumbersInv,
         Recent, Running, TypeOK, Filled, Imported
<1> HIDE DEF call
<1>2. ASSUME NEW next, tasks' = [tasks EXCEPT ![t] = next],
             next # None => SeedOf(next).epoch = epoch, ResetClears'
      PROVE  Recent'
  <2>1. Running' \subseteq {t} /\ tasks'[t] = next
    BY <1>1, <1>2, GoesOnAlone
  <2> QED
    BY <1>1, <1>2, <2>1 DEF Recent, Running
<1>3. CASE SaveUnifiedSeed(t) \/ FailSave(t)
  <2>1. call \in Saves /\ UNCHANGED <<imported, wallet, plain>>
    BY <1>1, <1>3, CallTypes DEF SaveUnifiedSeed, FailSave, stores, call
  <2>2. /\ call.slot \in Slots /\ call.todo \in SUBSET Numbers
        /\ call.password \in Passwords /\ call.seed.epoch = epoch
    BY <1>1, <2>1 DEF Saves, SeedOf
  <2>3. \/ UNCHANGED unified
        \/ unified' = [unified EXCEPT ![call.slot] = call.seed]
    BY <1>3 DEF SaveUnifiedSeed, FailSave, stores, call
  <2>4. ResetClears'
    BY <1>1, <2>1, <2>2, <2>3 DEF ResetClears, Filled, Unified
  <2>5. AfterSave(call) # None => SeedOf(AfterSave(call)).epoch = epoch
    <3>1. \A todo \in SUBSET Numbers :
            MigrateNext(call.password, todo) # None
              => SeedOf(MigrateNext(call.password, todo)).epoch = epoch
      BY <1>1, <2>2, MigrationRecent DEF ResetClears
    <3> QED
      BY <1>1, <2>2, <3>1 DEF AfterSave
  <2>6. tasks' = [tasks EXCEPT ![t] = AfterSave(call)]
    BY <1>3 DEF SaveUnifiedSeed, FailSave, call
  <2> QED
    BY <1>2, <2>4, <2>5, <2>6
<1>4. CASE LoadWalletData(t) \/ FailLoad(t)
  <2>1. /\ call \in Loads /\ call.password \in Passwords
        /\ call.wallet \in Wallets /\ call.wallet.seed.epoch = epoch
        /\ UNCHANGED <<unified, imported, plain>>
    BY <1>1, <1>4, CallTypes DEF LoadWalletData, FailLoad, stores, call, Loads, SeedOf
  <2>2. wallet' = wallet \/ wallet'.seed = call.wallet.seed
    BY <1>4, <2>1 DEF LoadWalletData, FailLoad, stores, call, Wallets
  <2>3. ResetClears'
    BY <1>1, <2>1, <2>2 DEF ResetClears, Filled
  <2>4. SeedOf(SaveCall("migration", 0, call.wallet.seed, call.password, {})).epoch = epoch
    BY <2>1 DEF SeedOf, SaveCall
  <2>5. MigrateNext(call.password, Filled(imported)) # None
          => SeedOf(MigrateNext(call.password, Filled(imported))).epoch = epoch
    BY <1>1, <2>1, MigrationRecent DEF ResetClears
  <2> QED
    BY <1>2, <1>4, <2>3, <2>4, <2>5 DEF LoadWalletData, FailLoad, call
<1>5. CASE WriteImportedSeed(t)
  <2>1. call \in Imports
    BY <1>1, <1>5, CallTypes DEF WriteImportedSeed, call
  <2>2. call.op = "import" /\ call.slot \in Numbers /\ call.seed.epoch = epoch
    BY <1>1, <2>1 DEF Imports, SeedOf
  <2>3. /\ imported' = [imported EXCEPT ![call.slot] = call.seed]
        /\ UNCHANGED <<unified, wallet, plain>>
    BY <1>1, <1>5, <2>2 DEF WriteImportedSeed, Fresh, call
  <2>4. ResetClears'
    BY <1>1, <2>2, <2>3 DEF ResetClears, Filled, Imported
  <2> QED
    BY <1>2, <1>5, <2>4 DEF WriteImportedSeed
<1>6. CASE StoreWalletData(t)
  <2>1. call \in Conversions /\ call.seed.epoch = epoch
        /\ [call EXCEPT !.op = "clean"] \in Conversions
    BY <1>1, <1>6, CallTypes DEF StoreWalletData, call, Conversions, SeedOf
  <2>2. SeedOf([call EXCEPT !.op = "clean"]).epoch = epoch
    BY <2>1 DEF SeedOf, Conversions
  <2>3. ResetClears'
    BY <1>1, <1>6, <2>1 DEF StoreWalletData, ResetClears, Filled, call
  <2> QED
    BY <1>2, <1>6, <2>2, <2>3 DEF StoreWalletData, call
<1>7. CASE RemovePlain(t) \/ FailLegacy(t)
  <2>1. ResetClears'
    BY <1>1, <1>7 DEF RemovePlain, FailLegacy, ResetClears, Filled, stores
  <2> QED
    BY <1>2, <1>7, <2>1 DEF RemovePlain, FailLegacy
<1> QED
  BY <1>3, <1>4, <1>5, <1>6, <1>7 DEF GoesOn

LEMMA RecentKept ==
  ASSUME TypeOK, NumbersInv, Recent, [Next]_vars
  PROVE  Recent'
<1>1. CASE Finds
  <2>1. UNCHANGED <<stores, tasks, epoch>> /\ (~overlapped' => ~overlapped)
    BY <1>1 DEF Finds, FindSeedNumber, FindImportedSeed, Mark
  <2> QED
    BY <2>1 DEF Recent, ResetClears, Filled, Running, stores
<1>2. CASE ResetWallet
  <2>1. ~overlapped' => Running' = {}
    BY <1>2 DEF ResetWallet, Mark, Running
  <2>2. ResetClears'
    BY <1>2 DEF ResetWallet, ResetClears, Filled, Empty
  <2> QED
    BY <2>1, <2>2 DEF Recent
<1>3. CASE Close
  <2>1. Running' = {} /\ UNCHANGED <<stores, epoch, overlapped>>
    BY <1>3 DEF Close, Running
  <2> QED
    BY <2>1 DEF Recent, ResetClears, Filled, stores
<1>4. CASE UNCHANGED vars
  BY <1>4 DEF Recent, ResetClears, Filled, Running, vars, stores
<1> QED
  BY <1>1, <1>2, <1>3, <1>4, BeginsRecent, GoesOnRecent, Steps

LEMMA InitRecent == Init => Recent
<1> SUFFICES ASSUME Init PROVE Recent
  OBVIOUS
<1>1. PICK v \in LegacyVaults :
        wallet = v.wallet /\ plain = v.plain /\ imported = v.imported
  BY DEF Init
<1>2. Filled(unified) = {} /\ Running = {} /\ epoch = 0
  BY DEF Init, Filled, Empty, Running
<1>3. Filled(imported) \in SUBSET Numbers
  BY InitTypes DEF TypeOK, Imported, Filled
<1>4. \A n \in Filled(imported) : imported[n].epoch = 0
  BY <1>1, <1>3, LegacyVaultsAssumption DEF Filled
<1> QED
  BY <1>1, <1>2, <1>4, LegacyVaultsAssumption DEF Recent, ResetClears

\* A reset that meets no call clears all that was stored, and no call that
\* follows brings back a phrase from before it.
THEOREM ResetsClear == Spec => []SequentialReset
<1>1. TypeOK /\ NumbersInv /\ Recent /\ [Next]_vars => NumbersInv' /\ Recent'
  BY NumbersInvKept, RecentKept
<1>2. Recent => SequentialReset
  BY DEF Recent, SequentialReset
<1> QED
  BY <1>1, <1>2, InitNumbers, InitRecent, TypeCorrect, PTL DEF Spec

---------------------------------------------------------------------------
(* The plain record.                                                       *)

\* A step that keeps the plain record and brings in one call at most.
LEMMA PlainStep ==
  ASSUME TypeOK, PlainInv, plain # None, UNCHANGED plain,
         wallet' # None => wallet'.seed.phrase = plain.phrase,
         wallet # None => wallet' # None,
         NEW t \in Tasks, NEW next, tasks' = [tasks EXCEPT ![t] = next],
         next # None => Agrees(next) \/ (next.op = "clean" /\ next.seed = plain
                                           /\ wallet' # None)
  PROVE  PlainInv'
<1>1. \A u \in Running' \ {t} : u \in Running /\ tasks'[u] = tasks[u]
  BY DEF TypeOK, Running
<1>2. t \in Running' => tasks'[t] = next /\ next # None
  BY DEF TypeOK, Running
<1> QED
  BY <1>1, <1>2 DEF PlainInv, Agrees

\* A call that saves has nothing to do with the plain record.
LEMMA SavesAgree ==
  ASSUME NEW call, call \in Saves \cup {None}, call # None
  PROVE  Agrees(call)
  BY DEF Saves, Agrees

LEMMA BeginsPlain ==
  ASSUME TypeOK, PlainInv, NEW t \in Tasks, Begins(t)
  PROVE  PlainInv'
<1> SUFFICES ASSUME plain' # None PROVE PlainInv'
  BY DEF PlainInv
<1>1. UNCHANGED stores
  BY DEF Begins, SaveMain, AssignSeedNumber, SaveImportedSeed, Migrate, Unlock,
         MigrateLegacyWallet
<1>2. plain # None /\ UNCHANGED <<plain, wallet>>
      /\ (wallet # None => wallet.seed.phrase = plain.phrase)
  BY <1>1 DEF stores, PlainInv
<1>3. ASSUME NEW call, Begin(t, call), call # None => Agrees(call)
      PROVE  PlainInv'
  BY <1>2, <1>3, PlainStep DEF Begin
<1>4. \A by, slot, seed, password, todo : Agrees(SaveCall(by, slot, seed, password, todo))
  BY DEF Agrees, SaveCall
<1>5. ASSUME NEW phrase \in Phrases, NEW password \in Passwords,
             SaveMain(t, phrase, password) \/ AssignSeedNumber(t, phrase, password)
      PROVE  PlainInv'
  BY <1>3, <1>4, <1>5 DEF SaveMain, AssignSeedNumber
<1>6. ASSUME NEW phrase \in Phrases, NEW password \in Passwords,
             SaveImportedSeed(t, phrase, password)
      PROVE  PlainInv'
  <2>1. \A call : call.op = "import" => Agrees(call)
    BY DEF Agrees
  <2> QED
    BY <1>3, <1>6, <2>1 DEF SaveImportedSeed
<1>7. ASSUME NEW password \in Passwords, Migrate(t, password)
      PROVE  PlainInv'
  <2>1. wallet # None => Agrees([op |-> "load", by |-> "migration", wallet |-> wallet,
                                 password |-> password])
    BY <1>2 DEF Agrees
  <2>2. MigrateNext(password, Filled(imported)) # None
          => Agrees(MigrateNext(password, Filled(imported)))
    BY MigrationTyped, SavesAgree DEF TypeOK, Filled, Imported
  <2> QED
    BY <1>3, <1>4, <1>7, <2>1, <2>2 DEF Migrate
<1>8. ASSUME NEW password \in Passwords,
             Unlock(t, password) \/ MigrateLegacyWallet(t, password)
      PROVE  PlainInv'
  <2>1. wallet # None => Agrees([op |-> "load", by |-> "unlock", wallet |-> wallet,
                                 password |-> password])
    BY <1>2 DEF Agrees
  <2>2. Agrees([op |-> "convert", seed |-> plain])
    BY DEF Agrees
  <2> QED
    BY <1>3, <1>8, <2>1, <2>2 DEF Unlock, MigrateLegacyWallet
<1> QED
  BY <1>5, <1>6, <1>7, <1>8 DEF Begins

LEMMA GoesOnPlain ==
  ASSUME TypeOK, PlainInv, NEW t \in Tasks, GoesOn(t)
  PROVE  PlainInv'
<1> DEFINE call == tasks[t]
<1> SUFFICES ASSUME plain' # None PROVE PlainInv'
  BY DEF PlainInv
<1>1. call \in Calls
  BY DEF GoesOn, SaveUnifiedSeed, FailSave, LoadWalletData, FailLoad,
         WriteImportedSeed, StoreWalletData, RemovePlain, FailLegacy, TypeOK
<1>2. plain # None /\ UNCHANGED plain /\ ~RemovePlain(t)
  BY DEF GoesOn, SaveUnifiedSeed, FailSave, LoadWalletData, FailLoad,
         WriteImportedSeed, StoreWalletData, RemovePlain, FailLegacy, stores
<1>3. Agrees(call) /\ (wallet # None => wallet.seed.phrase = plain.phrase)
  BY <1>1, <1>2, NoneCallAssumption DEF PlainInv, Running, Agrees
<1>4. CASE SaveUnifiedSeed(t) \/ FailSave(t)
  <2>1. call \in Saves
    BY <1>1, <1>4, CallTypes DEF SaveUnifiedSeed, FailSave
  <2>2. AfterSave(call) # None => Agrees(AfterSave(call))
    BY <2>1, AfterSaveTyped, SavesAgree DEF TypeOK
  <2> QED
    BY <1>2, <1>3, <1>4, <2>2, PlainStep DEF SaveUnifiedSeed, FailSave, stores
<1>5. CASE LoadWalletData(t) \/ FailLoad(t)
  <2>1. /\ call \in Loads /\ call.wallet \in Wallets /\ call.password \in Passwords
        /\ call.wallet.seed.phrase = plain.phrase
    BY <1>1, <1>3, <1>5, CallTypes DEF LoadWalletData, FailLoad, Loads, Agrees
  <2>2. /\ wallet' # None => wallet'.seed.phrase = plain.phrase
        /\ wallet # None => wallet' # None
    <3>1. [call.wallet EXCEPT !.canonical = TRUE] \in Wallets
          /\ [call.wallet EXCEPT !.canonical = TRUE].seed = call.wallet.seed
      BY <2>1 DEF Wallets
    <3>2. None \notin Wallets
      BY BoundsAssumption
    <3> QED
      BY <1>3, <1>5, <2>1, <3>1, <3>2 DEF LoadWalletData, FailLoad, stores
  <2>3. Agrees(SaveCall("migration", 0, call.wallet.seed, call.password, {}))
    BY DEF Agrees, SaveCall
  <2>4. MigrateNext(call.password, Filled(imported)) # None
          => Agrees(MigrateNext(call.password, Filled(imported)))
    BY <2>1, MigrationTyped, SavesAgree DEF TypeOK, Filled, Imported
  <2> QED
    BY <1>2, <1>5, <2>2, <2>3, <2>4, PlainStep DEF LoadWalletData, FailLoad
<1>6. CASE WriteImportedSeed(t) \/ FailLegacy(t)
  BY <1>2, <1>3, <1>6, PlainStep DEF WriteImportedSeed, FailLegacy, stores
<1>7. CASE StoreWalletData(t)
  <2>1. call \in Conversions /\ call.seed = plain
    BY <1>1, <1>3, <1>7, CallTypes DEF StoreWalletData, Agrees
  <2>2. wallet' # None /\ wallet'.seed = plain
    BY <1>7, <2>1, BoundsAssumption DEF StoreWalletData, Conversions, Wallets
  <2>3. /\ [call EXCEPT !.op = "clean"].op = "clean"
        /\ [call EXCEPT !.op = "clean"].seed = plain
    BY <2>1 DEF Conversions
  <2> QED
    BY <1>2, <1>7, <2>2, <2>3, PlainStep DEF StoreWalletData
<1> QED
  BY <1>2, <1>4, <1>5, <1>6, <1>7 DEF GoesOn

LEMMA PlainInvKept ==
  ASSUME TypeOK, PlainInv, [Next]_vars
  PROVE  PlainInv'
<1>1. CASE Finds \/ UNCHANGED vars
  <2>1. UNCHANGED <<plain, wallet, tasks>>
    BY <1>1 DEF Finds, FindSeedNumber, FindImportedSeed, vars, stores
  <2> QED
    BY <2>1 DEF PlainInv, Running, Agrees
<1>2. CASE ResetWallet
  BY <1>2 DEF ResetWallet, PlainInv
<1>3. CASE Close
  <2>1. Running' = {} /\ UNCHANGED <<plain, wallet>>
    BY <1>3 DEF Close, Running, stores
  <2> QED
    BY <2>1 DEF PlainInv
<1> QED
  BY <1>1, <1>2, <1>3, BeginsPlain, GoesOnPlain, Steps

LEMMA InitPlain == Init => PlainInv
<1> SUFFICES ASSUME Init PROVE PlainInv
  OBVIOUS
<1>1. PICK v \in LegacyVaults :
        wallet = v.wallet /\ plain = v.plain /\ imported = v.imported
  BY DEF Init
<1>2. Running = {}
  BY DEF Init, Running
<1> QED
  BY <1>1, <1>2, LegacyVaultsAssumption DEF PlainInv

\* The one step that removes the plain record, apart from a reset.
LEMMA PlainRemoved ==
  ASSUME TypeOK, PlainInv, [Next]_vars, plain # None, plain' = None, epoch' = epoch
  PROVE  wallet' # None /\ wallet'.seed.phrase = plain.phrase
<1>1. ~ResetWallet
  BY BoundTypes DEF ResetWallet, TypeOK, Epochs
<1>2. ~(Finds \/ Close \/ UNCHANGED vars)
  BY DEF Finds, FindSeedNumber, FindImportedSeed, Close, vars, stores
<1>3. ASSUME NEW t \in Tasks, Begins(t)
      PROVE  FALSE
  BY <1>3 DEF Begins, SaveMain, AssignSeedNumber, SaveImportedSeed, Migrate, Unlock,
              MigrateLegacyWallet, stores
<1>4. ASSUME NEW t \in Tasks, GoesOn(t)
      PROVE  RemovePlain(t)
  BY <1>4 DEF GoesOn, SaveUnifiedSeed, FailSave, LoadWalletData, FailLoad,
              WriteImportedSeed, StoreWalletData, FailLegacy, stores
<1>5. PICK t \in Tasks : RemovePlain(t)
  BY <1>1, <1>2, <1>3, <1>4, Steps
<1>6. t \in Running /\ tasks[t].op = "clean" /\ wallet' = wallet
  BY <1>5 DEF RemovePlain, Running, stores
<1> QED
  BY <1>6 DEF PlainInv, Agrees

\* Whatever calls meet, fail or are stopped: when the plain record is removed
\* by a conversion, the encrypted record is there with the same phrase.
THEOREM PlainStays == Spec => PlainKept
<1>1. TypeOK /\ PlainInv /\ [Next]_vars => PlainInv'
  BY PlainInvKept
<1>2. TypeOK /\ PlainInv /\ [Next]_vars
        => [plain # None /\ plain' = None /\ epoch' = epoch =>
              wallet' # None /\ wallet'.seed.phrase = plain.phrase]_vars
  BY PlainRemoved
<1> QED
  BY <1>1, <1>2, InitPlain, TypeCorrect, PTL DEF Spec, PlainKept
=============================================================================
