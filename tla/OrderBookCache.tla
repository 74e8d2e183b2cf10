--------------------------- MODULE OrderBookCache ---------------------------
(***************************************************************************)
(* The aggregated order book of one market and its copy in Redis: the      *)
(* cache-aside read of OrderRepo.GetOrderBook, and the invalidations that  *)
(* OrderService starts after it has committed.  A book has two halves,     *)
(* each read by a query of its own; a half is represented by the number    *)
(* of the commit that last changed it.  Storing and invalidating run in    *)
(* goroutines of their own, and their errors are dropped.                  *)
(***************************************************************************)
EXTENDS Integers, FiniteSets

CONSTANTS
  Readers,      \* callers of GetOrderBook
  Broadcaster,  \* the one that calls it every second, forever
  MaxCommits,   \* bound: commits to the orders of the market
  MaxRestarts,  \* bound: crashes of the server
  Null

ASSUME CacheAssumption ==
  /\ Broadcaster \in Readers
  /\ MaxCommits \in Nat /\ MaxRestarts \in Nat
  /\ Null \notin Int

VARIABLES
  book,      \* the committed book
  commits,   \* how many commits there have been
  cache,     \* orderbook:<market> in Redis, or Null
  erasing,   \* the commits whose InvalidateOrderBook is running
  storing,   \* the books whose SetOrderBook is running
  reader,    \* where each GetOrderBook is, and the asks it has read
  served,    \* the book that the broadcaster was last given, or Null
  restarts,  \* how often the server has crashed
  silent     \* history: the commits that no invalidation followed

vars == <<book, commits, cache, erasing, storing, reader, served, restarts, silent>>
data == <<book, commits>>

Commits == 0 .. MaxCommits
Halves  == {"asks", "bids"}
Book    == [Halves -> Commits]
Entry   == [book : Book, stored : Commits]  \* stored: the commits there were then

IdleReader == [pc |-> "idle", asks |-> 0]

TypeOK ==
  /\ book \in Book /\ commits \in Commits
  /\ cache \in Entry \cup {Null}
  /\ erasing \subseteq Commits
  /\ storing \subseteq Book
  /\ reader \in [Readers -> [pc : {"idle", "asks", "bids"}, asks : Commits]]
  /\ served \in Book \cup {Null}
  /\ restarts \in 0 .. MaxRestarts
  /\ silent \subseteq Commits

Init ==
  /\ book = [h \in Halves |-> 0] /\ commits = 0
  /\ cache = Null /\ erasing = {} /\ storing = {} /\ silent = {}
  /\ reader = [r \in Readers |-> IdleReader]
  /\ served = Null
  /\ restarts = 0

-----------------------------------------------------------------------------
(* OrderService *)

CommitChanging(halves) ==
  /\ commits < MaxCommits
  /\ commits' = commits + 1
  /\ book' = [h \in Halves |-> IF h \in halves THEN commits' ELSE book[h]]
  /\ UNCHANGED <<cache, storing, reader, served, restarts>>

(* A placed order may take from one half and rest in the other, or do neither. *)
PlaceCommit(halves) ==
  /\ CommitChanging(halves)
  /\ erasing' = erasing \cup {commits'} /\ UNCHANGED silent

(* Fault: nothing is invalidated. *)
CancelSilently(half) ==
  CommitChanging({half}) /\ UNCHANGED <<erasing, silent>>

CancelCommit(half) ==
  /\ CommitChanging({half})
  /\ erasing' = erasing \cup {commits'} /\ UNCHANGED silent

(* AmendOrder leaves the cached book alone. *)
AmendCommit(half) ==
  /\ CommitChanging({half})
  /\ silent' = silent \cup {commits'} /\ UNCHANGED erasing

Invalidate(n) ==
  /\ n \in erasing
  /\ erasing' = erasing \ {n}
  /\ cache' = Null
  /\ UNCHANGED <<data, storing, reader, served, restarts, silent>>

(* DEL fails, and nobody looks at its error. *)
InvalidateFails(n) ==
  /\ n \in erasing
  /\ erasing' = erasing \ {n}
  /\ silent' = silent \cup {n}
  /\ UNCHANGED <<data, cache, storing, reader, served, restarts>>

-----------------------------------------------------------------------------
(* Redis *)

(* Fault: SetOrderBook without its time to live. *)
NeverExpire == FALSE /\ UNCHANGED vars

Expire ==
  /\ cache # Null
  /\ cache' = Null
  /\ UNCHANGED <<data, erasing, storing, reader, served, restarts, silent>>

-----------------------------------------------------------------------------
(* GetOrderBook *)

Serve(r, read) == served' = IF r = Broadcaster THEN read ELSE served

Hit(r) ==
  /\ reader[r].pc = "idle" /\ cache # Null
  /\ Serve(r, cache.book)
  /\ UNCHANGED <<data, cache, erasing, storing, reader, restarts, silent>>

(* Nothing is cached, or GET fails. *)
Miss(r) ==
  /\ reader[r].pc = "idle"
  /\ reader' = [reader EXCEPT ![r].pc = "asks"]
  /\ UNCHANGED <<data, cache, erasing, storing, served, restarts, silent>>

ReadAsks(r) ==
  /\ reader[r].pc = "asks"
  /\ reader' = [reader EXCEPT ![r] = [pc |-> "bids", asks |-> book["asks"]]]
  /\ UNCHANGED <<data, cache, erasing, storing, served, restarts, silent>>

ReadBids(r) ==
  LET read == [book EXCEPT !["asks"] = reader[r].asks]
  IN  /\ reader[r].pc = "bids"
      /\ reader' = [reader EXCEPT ![r] = IdleReader]
      /\ Serve(r, read)
      /\ storing' = storing \cup {read}
      /\ UNCHANGED <<data, cache, erasing, restarts, silent>>

(* Fault: the error of the first query is not looked at, and a book is made of the
   second half alone. *)
AsksErrorDropped(r) ==
  /\ reader[r].pc = "asks"
  /\ reader' = [reader EXCEPT ![r] = [pc |-> "bids", asks |-> Null]]
  /\ UNCHANGED <<data, cache, erasing, storing, served, restarts, silent>>

(* Either query fails: the caller is told so, and nothing is stored. *)
ReadFails(r) ==
  /\ reader[r].pc # "idle"
  /\ reader' = [reader EXCEPT ![r] = IdleReader]
  /\ UNCHANGED <<data, cache, erasing, storing, served, restarts, silent>>

(* What is stored was read earlier: it may be older than what it replaces. *)
Store(read) ==
  /\ read \in storing
  /\ storing' = storing \ {read}
  /\ cache' = [book |-> read, stored |-> commits]
  /\ UNCHANGED <<data, erasing, reader, served, restarts, silent>>

StoreFails(read) ==
  /\ read \in storing
  /\ storing' = storing \ {read}
  /\ UNCHANGED <<data, cache, erasing, reader, served, restarts, silent>>

-----------------------------------------------------------------------------
(* The server crashes and starts again: what was running is lost, the database
   and Redis are not. *)
Restart ==
  /\ restarts < MaxRestarts
  /\ restarts' = restarts + 1
  /\ silent' = silent \cup erasing
  /\ erasing' = {} /\ storing' = {}
  /\ reader' = [r \in Readers |-> IdleReader]
  /\ UNCHANGED <<data, cache, served>>

Write ==
  \/ \E halves \in SUBSET Halves : PlaceCommit(halves)
  \/ \E half \in Halves : CancelCommit(half) \/ AmendCommit(half)

Erase(n)       == Invalidate(n) \/ InvalidateFails(n)
Keep(read)     == Store(read) \/ StoreFails(read)
Start(r)       == Hit(r) \/ (cache = Null /\ Miss(r))
Read(r)        == ReadAsks(r) \/ ReadBids(r)

Next ==
  \/ Write \/ Expire \/ Restart
  \/ \E n \in erasing : Erase(n)
  \/ \E r \in Readers : Start(r) \/ Miss(r) \/ Read(r) \/ ReadFails(r)
  \/ \E read \in storing : Keep(read)

Spec == Init /\ [][Next]_vars

(* Keys expire and the broadcaster ticks; a query that is tried again every second
   succeeds again and again.  Storing and invalidating may be delayed forever. *)
Fairness ==
  /\ WF_vars(Expire)
  /\ WF_vars(Start(Broadcaster))
  /\ SF_vars(ReadAsks(Broadcaster)) /\ SF_vars(ReadBids(Broadcaster))

FairSpec == Spec /\ Fairness

-----------------------------------------------------------------------------
(* Properties *)

(* A cached book outlives no commit that followed it, once that commit's
   invalidation has run: what is stale was stored by a read that began before the
   commit, or the commit was an amend, or its invalidation was lost. *)
InvalidatedBooksAreGone ==
  cache # Null => (cache.stored + 1) .. commits \subseteq erasing \cup silent

(* Once trading pauses, the broadcaster gets the committed book, both halves of it,
   and from then on nothing else: no torn, stale or late-stored book stays. *)
BroadcastsCatchUp == <>[](served = book)
=============================================================================
