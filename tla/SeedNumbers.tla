---------------------------- MODULE SeedNumbers ----------------------------
(***************************************************************************)
(* What the vault promises about seed numbers, without the stores and the  *)
(* calls behind it.  The book says which seed has which number of which    *)
(* store.  While no two calls have met, an entry is made for a free number *)
(* only and stays until all are forgotten, and what a caller is given is   *)
(* an entry of the book.  Nothing is promised once two calls have met.     *)
(***************************************************************************)
CONSTANTS Stores, Slots, Hashes

VARIABLES book, given, met

vars == <<book, given, met>>

\* A seed is known by the hash of its phrase.
Entries == [store : Stores, slot : Slots, hash : Hashes]

SameNumber(e, f) == e.store = f.store /\ e.slot = f.slot

Init ==
  /\ book \in SUBSET Entries
  /\ \A e, f \in book : SameNumber(e, f) => e = f
  /\ given = {} /\ met = FALSE

Enter(e) ==
  /\ \A f \in book : ~SameNumber(e, f)
  /\ book' = book \cup {e}
  /\ given' \in {given, given \cup {e}}

Give(e) ==
  /\ e \in book
  /\ given' = given \cup {e}
  /\ UNCHANGED book

Forget == book' = {} /\ given' = {}

Meet ==
  /\ met' = TRUE
  /\ book' \in SUBSET Entries /\ given' \in SUBSET Entries

Next ==
  \/ Meet
  \/ /\ UNCHANGED met
     /\ \/ Forget
        \/ \E e \in Entries : Enter(e) \/ Give(e)

Spec == Init /\ [][Next]_vars
=============================================================================
