------------------------ MODULE OrderBookCacheProofs ------------------------
(***************************************************************************)
(* Proofs about OrderBookCache, for any readers and any number of commits  *)
(* and restarts.  The type invariant and InvalidatedBooksAreGone are       *)
(* together inductive.                                                     *)
(***************************************************************************)
EXTENDS OrderBookCache, TLAPS

IInv == TypeOK /\ InvalidatedBooksAreGone

(* An empty cache answers for nothing. *)
LEMMA InitOK == Init => IInv
  BY CacheAssumption
     DEF Init, IInv, TypeOK, InvalidatedBooksAreGone, Book, Commits, IdleReader

-----------------------------------------------------------------------------
(* A commit has a number of its own, which is with its invalidation or on record as
   silent: only that number joins the range that a cached book has to answer for. *)
LEMMA CommitOK ==
  ASSUME IInv, NEW halves \in SUBSET Halves, CommitChanging(halves),
         \/ erasing' = erasing \cup {commits'} /\ UNCHANGED silent
         \/ silent' = silent \cup {commits'} /\ UNCHANGED erasing
  PROVE  IInv'
  <1>1. /\ commits < MaxCommits /\ commits' = commits + 1
        /\ book' = [h \in Halves |-> IF h \in halves THEN commits' ELSE book[h]]
        /\ UNCHANGED <<cache, storing, reader, served, restarts>>
    BY DEF CommitChanging
  <1>2. commits \in Nat /\ MaxCommits \in Nat BY CacheAssumption DEF IInv, TypeOK, Commits
  <1>3. commits' \in Commits BY <1>1, <1>2 DEF Commits
  <1>4. book' \in Book BY <1>1, <1>3 DEF IInv, TypeOK, Book
  <1>5. erasing' \subseteq Commits /\ silent' \subseteq Commits BY <1>3 DEF IInv, TypeOK
  <1>6. TypeOK' BY <1>1, <1>3, <1>4, <1>5 DEF IInv, TypeOK
  <1>7. InvalidatedBooksAreGone'
    <2> SUFFICES ASSUME cache # Null, NEW n \in (cache.stored + 1) .. commits'
                 PROVE  n \in erasing' \cup silent'
      BY <1>1 DEF InvalidatedBooksAreGone
    <2>1. cache.stored \in Nat BY CacheAssumption DEF IInv, TypeOK, Entry, Commits
    <2>2. n = commits' \/ n \in (cache.stored + 1) .. commits BY <1>1, <1>2, <2>1
    <2> QED BY <2>2 DEF IInv, InvalidatedBooksAreGone
  <1> QED BY <1>6, <1>7 DEF IInv

(* The commits of the three requests. *)
LEMMA WriteOK == ASSUME IInv, Write PROVE IInv'
  <1>1. ASSUME NEW halves \in SUBSET Halves, PlaceCommit(halves) PROVE IInv'
    BY <1>1, CommitOK DEF PlaceCommit
  <1>2. ASSUME NEW half \in Halves, CancelCommit(half) PROVE IInv'
    BY <1>2, CommitOK DEF CancelCommit
  <1>3. ASSUME NEW half \in Halves, AmendCommit(half) PROVE IInv'
    BY <1>3, CommitOK DEF AmendCommit
  <1> QED BY <1>1, <1>2, <1>3 DEF Write

-----------------------------------------------------------------------------
(* Redis: what a key loses it no longer answers for, and a book that is stored answers
   only for what comes after. *)
LEMMA EraseOK == ASSUME IInv, NEW n \in erasing, Erase(n) PROVE IInv'
  <1>1. CASE Invalidate(n)
    BY <1>1 DEF Invalidate, data, IInv, TypeOK, InvalidatedBooksAreGone
  <1>2. CASE InvalidateFails(n)
    BY <1>2 DEF InvalidateFails, data, IInv, TypeOK, InvalidatedBooksAreGone
  <1> QED BY <1>1, <1>2 DEF Erase

(* A store, or its failure: what is kept answers for the commits from now on. *)
LEMMA KeepOK == ASSUME IInv, NEW read \in storing, Keep(read) PROVE IInv'
  <1>1. CASE Store(read)
    <2>1. /\ storing' = storing \ {read} /\ cache' = [book |-> read, stored |-> commits]
          /\ UNCHANGED <<book, commits, erasing, reader, served, restarts, silent>>
      BY <1>1 DEF Store, data
    <2>2. read \in Book /\ commits \in Commits /\ commits \in Nat
      BY CacheAssumption DEF IInv, TypeOK, Commits
    <2>3. cache' \in Entry BY <2>1, <2>2 DEF Entry
    <2>4. TypeOK' BY <2>1, <2>3 DEF IInv, TypeOK
    <2>5. (cache'.stored + 1) .. commits' = {} BY <2>1, <2>2
    <2> QED BY <2>4, <2>5 DEF IInv, InvalidatedBooksAreGone
  <1>2. CASE StoreFails(read)
    BY <1>2 DEF StoreFails, data, IInv, TypeOK, InvalidatedBooksAreGone
  <1> QED BY <1>1, <1>2 DEF Keep

(* A cached book that expires answers for nothing any more. *)
LEMMA ExpireOK == ASSUME IInv, Expire PROVE IInv'
  BY DEF Expire, data, IInv, TypeOK, InvalidatedBooksAreGone

(* What was running is lost, and the invalidations among it are on record. *)
LEMMA RestartOK == ASSUME IInv, Restart PROVE IInv'
  <1>1. IdleReader \in [pc : {"idle", "asks", "bids"}, asks : Commits]
    BY CacheAssumption DEF IdleReader, Commits
  <1> QED BY <1>1, CacheAssumption DEF Restart, data, IInv, TypeOK, InvalidatedBooksAreGone

-----------------------------------------------------------------------------
(* GetOrderBook changes neither what is committed nor what is cached. *)
LEMMA ReaderOK ==
  ASSUME IInv, NEW r \in Readers, Start(r) \/ Miss(r) \/ Read(r) \/ ReadFails(r)
  PROVE  IInv'
  <1> DEFINE Reader == [pc : {"idle", "asks", "bids"}, asks : Commits]
  <1>1. /\ reader \in [Readers -> Reader] /\ book \in Book /\ storing \subseteq Book
        /\ served \in Book \cup {Null} /\ cache \in Entry \cup {Null}
    BY DEF IInv, TypeOK
  <1>2. IdleReader \in Reader BY CacheAssumption DEF IdleReader, Commits
  <1>3. /\ UNCHANGED <<book, commits, cache, erasing, restarts, silent>>
        /\ reader' \in [Readers -> Reader] /\ storing' \subseteq Book
        /\ served' \in Book \cup {Null}
    <2>1. CASE Hit(r)
      <3>1. cache.book \in Book BY <1>1, <2>1 DEF Hit, Entry
      <3> QED BY <1>1, <2>1, <3>1 DEF Hit, Serve, data
    <2>2. CASE Miss(r)
      <3>1. [reader[r] EXCEPT !.pc = "asks"] \in Reader BY <1>1
      <3> HIDE DEF Reader
      <3> QED BY <1>1, <2>2, <3>1 DEF Miss, data
    <2>3. CASE ReadAsks(r)
      <3>1. [pc |-> "bids", asks |-> book["asks"]] \in Reader BY <1>1 DEF Book, Halves
      <3> HIDE DEF Reader
      <3> QED BY <1>1, <2>3, <3>1 DEF ReadAsks, data
    <2>4. CASE ReadBids(r)
      <3> DEFINE read == [book EXCEPT !["asks"] = reader[r].asks]
      <3>1. read \in Book BY <1>1 DEF Book
      <3>2. /\ reader' = [reader EXCEPT ![r] = IdleReader] /\ Serve(r, read)
            /\ storing' = storing \cup {read}
            /\ UNCHANGED <<book, commits, cache, erasing, restarts, silent>>
        BY <2>4 DEF ReadBids, data
      <3> HIDE DEF read, Reader
      <3> QED BY <1>1, <1>2, <3>1, <3>2 DEF Serve
    <2>5. CASE ReadFails(r)
      <3> HIDE DEF Reader
      <3> QED BY <1>1, <1>2, <2>5 DEF ReadFails, data
    <2> QED BY <2>1, <2>2, <2>3, <2>4, <2>5 DEF Start, Read
  <1>4. TypeOK' BY <1>3 DEF IInv, TypeOK
  <1>5. InvalidatedBooksAreGone' BY <1>3 DEF IInv, InvalidatedBooksAreGone
  <1> QED BY <1>4, <1>5 DEF IInv

(* Every step keeps the invariant. *)
LEMMA NextKeepsIInv == IInv /\ [Next]_vars => IInv'
  <1> SUFFICES ASSUME IInv, [Next]_vars PROVE IInv' OBVIOUS
  <1>1. CASE Write BY <1>1, WriteOK
  <1>2. CASE Expire BY <1>2, ExpireOK
  <1>3. CASE Restart BY <1>3, RestartOK
  <1>4. ASSUME NEW n \in erasing, Erase(n) PROVE IInv' BY <1>4, EraseOK
  <1>5. ASSUME NEW r \in Readers, Start(r) \/ Miss(r) \/ Read(r) \/ ReadFails(r) PROVE IInv'
    BY <1>5, ReaderOK
  <1>6. ASSUME NEW read \in storing, Keep(read) PROVE IInv' BY <1>6, KeepOK
  <1>7. CASE UNCHANGED vars
    BY <1>7 DEF vars, IInv, TypeOK, InvalidatedBooksAreGone
  <1> QED BY <1>1, <1>2, <1>3, <1>4, <1>5, <1>6, <1>7 DEF Next

-----------------------------------------------------------------------------
(* Theorems *)

(* However commits, reads, late stores, failures and crashes interleave, IInv holds. *)
THEOREM Invariance == Spec => []IInv
  <1> QED BY InitOK, NextKeepsIInv, PTL DEF Spec

(* Every variable has its type. *)
THEOREM TypeCorrect == Spec => []TypeOK
  <1>1. IInv => TypeOK BY DEF IInv
  <1> QED BY <1>1, Invariance, PTL

(* A cached book is older only than commits whose invalidation is still to run, was
   lost, or never was. *)
THEOREM NoBookOutlivesItsInvalidation == Spec => []InvalidatedBooksAreGone
  <1>1. IInv => InvalidatedBooksAreGone BY DEF IInv
  <1> QED BY <1>1, Invariance, PTL

=============================================================================
