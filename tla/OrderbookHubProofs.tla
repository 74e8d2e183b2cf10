------------------------- MODULE OrderbookHubProofs -------------------------
(***************************************************************************)
(* Proofs about OrderbookHub, for any number of connections and markets    *)
(* and channels of any size.                                               *)
(***************************************************************************)
EXTENDS OrderbookHub, TLAPS

-----------------------------------------------------------------------------
(* The inductive invariant *)

(* Run knows nothing of a connection before it is registered: it is not in the map,
   and its channel is open. *)
NewcomersAreFresh ==
  \A c \in Clients : reader[c] \in {"off", "registering"} => c \notin clients \cup closed

IInv ==
  /\ TypeOK
  /\ send \in [Clients -> Seq(Books)]
  /\ RunNeverPanics
  /\ ConnectedAreKnown
  /\ NewcomersAreFresh

(* A hub without clients. *)
LEMMA InitOK == Init => IInv
  BY HubAssumption
     DEF Init, IInv, TypeOK, Books, RunNeverPanics, ConnectedAreKnown, NewcomersAreFresh

-----------------------------------------------------------------------------
(* What a step does to one channel *)

(* Any books at all can be broadcast. *)
LEMMA SomeBooks ==
  ASSUME NEW books, books \subseteq Markets, books # {}
  PROVE  books \in Books
  <1>1. books \in SUBSET Markets OBVIOUS
  <1>2. books \notin {{}} OBVIOUS
  <1> QED BY <1>1, <1>2 DEF Books

(* Putting books into a channel that is not full. *)
LEMMA PutOK ==
  ASSUME IInv, NEW c \in Clients, NEW books \in Books, ~ Full(c), Put(c, books)
  PROVE  /\ send' \in [Clients -> Seq(Books)]
         /\ \A d \in Clients : send'[d] \in Seq(Books) /\ Len(send'[d]) <= SendCap
  <1>1. send[c] \in Seq(Books) /\ Len(send[c]) <= SendCap /\ SendCap \in Nat
    BY HubAssumption DEF IInv, TypeOK
  <1>2. Len(send[c]) < SendCap BY <1>1 DEF Full
  <1>3. Append(send[c], books) \in Seq(Books) /\ Len(Append(send[c], books)) <= SendCap
    BY <1>1, <1>2
  <1> QED BY <1>3 DEF Put, IInv, TypeOK

(* Run closes the channel of a client that is in the map, and takes the client out:
   no channel is closed twice. *)
LEMMA CloseOK ==
  ASSUME IInv, NEW c \in clients, Close(c)
  PROVE  /\ panic' = panic /\ send' = send
         /\ closed' = closed \cup {c} /\ closed' \subseteq Clients
         /\ (clients \ {c}) \cap closed' = {}
  BY DEF Close, IInv, TypeOK, RunNeverPanics

(* Steps that touch neither the map nor what is closed keep what is said of them, if no
   reader falls back or claims to be registered. *)
LEMMA ReadersOK ==
  ASSUME IInv, UNCHANGED <<clients, closed, panic>>,
         reader' \in [Clients -> {"off", "registering", "registered", "reading",
                                  "leaving", "unregistered", "gone"}],
         \A c \in Clients :
           /\ reader'[c] \in {"off", "registering"} => reader[c] \in {"off", "registering"}
           /\ reader'[c] \in {"registered", "reading", "leaving"}
                => reader[c] \in {"registered", "reading", "leaving"}
  PROVE  RunNeverPanics' /\ ConnectedAreKnown' /\ NewcomersAreFresh'
  BY DEF IInv, RunNeverPanics, ConnectedAreKnown, NewcomersAreFresh

-----------------------------------------------------------------------------
(* Run *)

(* A client that Run registers is known and open. *)
LEMMA RunRegisterOK ==
  ASSUME IInv, NEW c \in Clients, RunRegister(c)
  PROVE  IInv'
  <1>1. /\ todo = {} /\ reader[c] = "registering"
        /\ clients' = clients \cup {c} /\ reader' = [reader EXCEPT ![c] = "registered"]
        /\ UNCHANGED <<todo, visiting, broadcast, fetched, conn, writer, marketIDs, immediate,
                       send, closed, panic>>
    BY DEF RunRegister, Selecting
  <1>2. c \notin closed BY <1>1 DEF IInv, NewcomersAreFresh
  <1>3. TypeOK' BY <1>1 DEF IInv, TypeOK
  <1>4. RunNeverPanics' BY <1>1, <1>2 DEF IInv, RunNeverPanics
  <1>5. ConnectedAreKnown' BY <1>1 DEF IInv, TypeOK, ConnectedAreKnown
  <1>6. NewcomersAreFresh' BY <1>1 DEF IInv, TypeOK, NewcomersAreFresh
  <1> QED BY <1>1, <1>3, <1>4, <1>5, <1>6 DEF IInv

(* A client that unregisters is closed if it is still in the map, and only then. *)
LEMMA RunUnregisterOK ==
  ASSUME IInv, NEW c \in Clients, RunUnregister(c)
  PROVE  IInv'
  <1>1. /\ todo = {} /\ reader[c] = "leaving"
        /\ clients' = clients \ {c} /\ reader' = [reader EXCEPT ![c] = "unregistered"]
        /\ IF c \in clients THEN Close(c) ELSE UNCHANGED <<send, closed, panic>>
        /\ UNCHANGED <<todo, visiting, broadcast, fetched, conn, writer, marketIDs, immediate>>
    BY DEF RunUnregister, Selecting
  <1>2. /\ panic' = panic /\ send' = send /\ closed' \subseteq Clients
        /\ closed \subseteq closed' /\ closed' \subseteq closed \cup {c}
        /\ clients' \cap closed' = {}
    <2>1. CASE c \in clients BY <1>1, <2>1, CloseOK
    <2>2. CASE c \notin clients BY <1>1, <2>2 DEF IInv, TypeOK, RunNeverPanics
    <2> QED BY <2>1, <2>2
  <1>3. TypeOK' BY <1>1, <1>2 DEF IInv, TypeOK
  <1>4. RunNeverPanics' BY <1>2 DEF IInv, RunNeverPanics
  <1>5. ConnectedAreKnown' BY <1>1, <1>2 DEF IInv, TypeOK, ConnectedAreKnown
  <1>6. NewcomersAreFresh' BY <1>1, <1>2 DEF IInv, TypeOK, NewcomersAreFresh
  <1> QED BY <1>2, <1>3, <1>4, <1>5, <1>6 DEF IInv

(* A broadcast begins with the clients that are in the map. *)
LEMMA RunBroadcastOK ==
  ASSUME IInv, RunBroadcast
  PROVE  IInv'
  <1>1. /\ broadcast # <<>> /\ visiting' = Head(broadcast)
        /\ broadcast' = Tail(broadcast) /\ todo' = clients
        /\ UNCHANGED <<clients, fetched, conn, reader, writer, marketIDs, immediate,
                       send, closed, panic>>
    BY DEF RunBroadcast, connVars
  <1>2. broadcast \in Seq(Books) /\ Len(broadcast) <= BroadcastCap /\ BroadcastCap \in Nat
    BY HubAssumption DEF IInv, TypeOK
  <1>3. Head(broadcast) \in Books /\ Tail(broadcast) \in Seq(Books)
        /\ Len(Tail(broadcast)) <= BroadcastCap
    BY <1>1, <1>2
  <1>4. Head(broadcast) \in SUBSET Markets BY <1>3 DEF Books
  <1>5. TypeOK' BY <1>1, <1>3, <1>4 DEF IInv, TypeOK
  <1>6. RunNeverPanics' /\ ConnectedAreKnown' /\ NewcomersAreFresh'
    BY <1>1 DEF IInv, RunNeverPanics, ConnectedAreKnown, NewcomersAreFresh
  <1> QED BY <1>1, <1>5, <1>6 DEF IInv

(* Whoever is visited is in the map, and so has an open channel. *)
LEMMA RunVisitOK ==
  ASSUME IInv, NEW c \in Clients, RunVisit(c)
  PROVE  IInv'
  <1> DEFINE books == FilterOrderbooks(c, visiting)
  <1>1. /\ c \in todo /\ todo' = todo \ {c}
        /\ UNCHANGED <<visiting, broadcast, fetched, conn, reader, writer, marketIDs, immediate>>
    BY DEF RunVisit, connVars
  <1>2. c \in clients /\ c \notin closed BY <1>1 DEF IInv, TypeOK, RunNeverPanics
  <1>3. CASE books = {}
    <2>1. UNCHANGED <<clients, send, closed, panic>> BY <1>3 DEF RunVisit
    <2>2. TypeOK' BY <1>1, <2>1 DEF IInv, TypeOK
    <2> QED BY <1>1, <2>1, <2>2
            DEF IInv, RunNeverPanics, ConnectedAreKnown, NewcomersAreFresh
  <1>4. CASE books # {} /\ ~ Full(c)
    <2>1. Put(c, books) /\ UNCHANGED clients BY <1>2, <1>4 DEF RunVisit
    <2>2. books \in Books
      <3>1. books \subseteq Markets BY DEF IInv, TypeOK, FilterOrderbooks
      <3> QED BY <1>4, <3>1, SomeBooks
    <2> HIDE DEF books
    <2>3. /\ send' \in [Clients -> Seq(Books)]
          /\ \A d \in Clients : send'[d] \in Seq(Books) /\ Len(send'[d]) <= SendCap
      BY <1>4, <2>1, <2>2, PutOK
    <2>4. UNCHANGED <<closed, panic>> BY <2>1 DEF Put
    <2>5. TypeOK' BY <1>1, <2>1, <2>3, <2>4 DEF IInv, TypeOK
    <2> QED BY <1>1, <2>1, <2>3, <2>4, <2>5
            DEF IInv, RunNeverPanics, ConnectedAreKnown, NewcomersAreFresh
  <1>5. CASE books # {} /\ Full(c)
    <2>1. Close(c) /\ clients' = clients \ {c} BY <1>2, <1>5 DEF RunVisit
    <2>2. /\ panic' = panic /\ send' = send
          /\ closed' = closed \cup {c} /\ closed' \subseteq Clients
          /\ clients' \cap closed' = {}
      BY <1>2, <2>1, CloseOK
    <2>3. TypeOK' BY <1>1, <2>1, <2>2 DEF IInv, TypeOK
    <2>4. RunNeverPanics' BY <2>2 DEF IInv, RunNeverPanics
    <2>5. ConnectedAreKnown' BY <1>1, <2>1, <2>2 DEF IInv, ConnectedAreKnown
    <2>6. NewcomersAreFresh' BY <1>1, <1>2, <2>1, <2>2 DEF IInv, NewcomersAreFresh
    <2> QED BY <2>2, <2>3, <2>4, <2>5, <2>6 DEF IInv
  <1> QED BY <1>3, <1>4, <1>5

-----------------------------------------------------------------------------
(* The broadcaster *)

(* The broadcaster touches no client. *)
LEMMA BroadcasterOK ==
  ASSUME IInv, Push \/ \E books \in Books : Tick(books)
  PROVE  IInv'
  <1>1. UNCHANGED <<clients, todo, visiting, conn, reader, writer, marketIDs, immediate,
                    send, closed, panic>>
    BY DEF Push, Tick, connVars
  <1>2. /\ broadcast' \in Seq(Books) /\ Len(broadcast') <= BroadcastCap
        /\ fetched' \in SUBSET Markets
    <2>1. /\ broadcast \in Seq(Books) /\ Len(broadcast) <= BroadcastCap
          /\ BroadcastCap \in Nat /\ fetched \in SUBSET Markets
      BY HubAssumption DEF IInv, TypeOK
    <2>2. CASE Push
      <3>1. fetched \in Books BY <2>1, <2>2, SomeBooks DEF Push
      <3>2. Len(broadcast) < BroadcastCap /\ broadcast' = Append(broadcast, fetched) /\ fetched' = {}
        BY <2>2 DEF Push
      <3> QED BY <2>1, <3>1, <3>2
    <2>3. CASE \E books \in Books : Tick(books) BY <2>1, <2>3 DEF Tick, Books
    <2> QED BY <2>2, <2>3
  <1>3. TypeOK' BY <1>1, <1>2 DEF IInv, TypeOK
  <1> QED BY <1>1, <1>3 DEF IInv, RunNeverPanics, ConnectedAreKnown, NewcomersAreFresh

-----------------------------------------------------------------------------
(* A connection *)

(* Connecting, pumps and messages: the map stays as it is, and so do the channels. *)
LEMMA ConnectionOK ==
  ASSUME IInv, NEW c \in Clients, UNCHANGED <<runVars, send, closed, panic>>,
         conn' \in [Clients -> {"none", "open", "closed"}],
         writer' \in [Clients -> {"off", "writing", "gone"}],
         marketIDs' \in [Clients -> SUBSET Markets], immediate' \subseteq Clients \X Books,
         reader' \in [Clients -> {"off", "registering", "registered", "reading",
                                  "leaving", "unregistered", "gone"}],
         \A d \in Clients :
           /\ reader'[d] \in {"off", "registering"} => reader[d] \in {"off", "registering"}
           /\ reader'[d] \in {"registered", "reading", "leaving"}
                => reader[d] \in {"registered", "reading", "leaving"}
  PROVE  IInv'
  <1>1. TypeOK' BY DEF IInv, TypeOK, runVars
  <1>2. RunNeverPanics' /\ ConnectedAreKnown' /\ NewcomersAreFresh'
    BY ReadersOK DEF runVars
  <1> QED BY <1>1, <1>2 DEF IInv

(* The reader of a connection, up to where Run takes over. *)
LEMMA ReaderStepOK ==
  ASSUME IInv, NEW c \in Clients,
         Connect(c) \/ Disconnect(c) \/ StartPumps(c) \/ ReadFails(c) \/ ReaderCloses(c)
  PROVE  IInv'
  <1>1. CASE Connect(c) BY <1>1, ConnectionOK DEF Connect, IInv, TypeOK
  <1>2. CASE Disconnect(c) BY <1>2, ConnectionOK DEF Disconnect, IInv, TypeOK
  <1>3. CASE StartPumps(c) BY <1>3, ConnectionOK DEF StartPumps, IInv, TypeOK
  <1>4. CASE ReadFails(c) BY <1>4, ConnectionOK DEF ReadFails, IInv, TypeOK
  <1>5. CASE ReaderCloses(c) BY <1>5, ConnectionOK DEF ReaderCloses, IInv, TypeOK
  <1> QED BY <1>1, <1>2, <1>3, <1>4, <1>5

(* Subscriptions are between a client and its reader alone. *)
LEMMA SubscriptionOK ==
  ASSUME IInv, NEW c \in Clients, NEW books \in Books, Subscribe(c, books) \/ Unsubscribe(c, books)
  PROVE  IInv'
  <1>1. books \subseteq Markets BY DEF Books
  <1>2. CASE Subscribe(c, books)
    <2>1. /\ marketIDs' = [marketIDs EXCEPT ![c] = @ \cup books]
          /\ immediate' = immediate \cup {<<c, books>>}
          /\ UNCHANGED <<runVars, conn, reader, writer, send, closed, panic>>
      BY <1>2 DEF Subscribe
    <2>2. marketIDs' \in [Clients -> SUBSET Markets]
      BY <1>1, <2>1 DEF IInv, TypeOK
    <2>3. immediate' \subseteq Clients \X Books
      <3>1. <<c, books>> \in Clients \X Books OBVIOUS
      <3>2. immediate \subseteq Clients \X Books BY DEF IInv, TypeOK
      <3> QED BY <2>1, <3>1, <3>2
    <2> QED BY <2>1, <2>2, <2>3, ConnectionOK DEF IInv, TypeOK
  <1>3. CASE Unsubscribe(c, books) BY <1>1, <1>3, ConnectionOK DEF Unsubscribe, IInv, TypeOK
  <1> QED BY <1>2, <1>3

(* A writer that ends touches neither the map nor the channel. *)
LEMMA WriterExitsOK ==
  ASSUME IInv, NEW c \in Clients, WriterDone(c) \/ WriteFails(c) \/ WriteTimesOut(c)
  PROVE  IInv'
  <1>1. WriterExits(c) BY DEF WriterDone, WriteFails, WriteTimesOut
  <1> QED BY <1>1, ConnectionOK DEF WriterExits, IInv, TypeOK

(* A writer that takes a message makes room for another. *)
LEMMA WriteOK ==
  ASSUME IInv, NEW c \in Clients, Write(c)
  PROVE  IInv'
  <1>1. /\ send[c] # <<>> /\ send' = [send EXCEPT ![c] = Tail(@)]
        /\ UNCHANGED <<clients, todo, visiting, broadcast, fetched, conn, reader, writer,
                       marketIDs, immediate, closed, panic>>
    BY DEF Write, runVars, connVars
  <1>2. /\ send \in [Clients -> Seq(Books)] /\ SendCap \in Nat
        /\ \A d \in Clients : Len(send[d]) <= SendCap
    BY HubAssumption DEF IInv, TypeOK
  <1>3. Tail(send[c]) \in Seq(Books) /\ Len(Tail(send[c])) <= SendCap
    BY <1>1, <1>2
  <1>4. /\ send' \in [Clients -> Seq(Books)]
        /\ \A d \in Clients : send'[d] \in Seq(Books) /\ Len(send'[d]) <= SendCap
    BY <1>1, <1>2, <1>3
  <1>5. TypeOK' BY <1>1, <1>4 DEF IInv, TypeOK
  <1> QED BY <1>1, <1>4, <1>5 DEF IInv, RunNeverPanics, ConnectedAreKnown, NewcomersAreFresh

(* It may end the process, but not as Run. *)
LEMMA ImmediateOK ==
  ASSUME IInv, NEW c \in Clients, Immediate(c)
  PROVE  IInv'
  <1>1. PICK books \in Books, got \in SUBSET Markets : SendImmediate(c, books, got)
    BY DEF Immediate
  <1>2. /\ immediate' = immediate \ {<<c, books>>}
        /\ UNCHANGED <<clients, todo, visiting, broadcast, fetched, conn, reader, writer, marketIDs>>
    BY <1>1 DEF SendImmediate, runVars
  <1>3. UNCHANGED closed /\ panic' \in {panic, "immediate"} BY <1>1 DEF SendImmediate, Put
  <1>4. /\ send' \in [Clients -> Seq(Books)]
        /\ \A d \in Clients : send'[d] \in Seq(Books) /\ Len(send'[d]) <= SendCap
    <2>1. CASE got # {} /\ c \notin closed /\ ~ Full(c)
      <3>1. Put(c, got) BY <1>1, <2>1 DEF SendImmediate
      <3>2. got \in Books BY <2>1, SomeBooks
      <3> QED BY <2>1, <3>1, <3>2, PutOK
    <2>2. CASE ~ (got # {} /\ c \notin closed /\ ~ Full(c))
      <3>1. UNCHANGED send BY <1>1, <2>2 DEF SendImmediate
      <3> QED BY <3>1 DEF IInv, TypeOK
    <2> QED BY <2>1, <2>2
  <1>5. TypeOK' BY <1>2, <1>3, <1>4 DEF IInv, TypeOK
  <1> QED BY <1>2, <1>3, <1>4, <1>5 DEF IInv, RunNeverPanics, ConnectedAreKnown, NewcomersAreFresh

-----------------------------------------------------------------------------
(* Every step *)

(* Every step keeps the invariant. *)
LEMMA NextKeepsIInv == IInv /\ [Next]_vars => IInv'
  <1> SUFFICES ASSUME IInv, [Next]_vars PROVE IInv' OBVIOUS
  <1>1. ASSUME NEW c \in Clients, Handshake(c) PROVE IInv'
    BY <1>1, RunRegisterOK, RunUnregisterOK DEF Handshake
  <1>2. ASSUME NEW c \in Clients, RunVisit(c) PROVE IInv' BY <1>2, RunVisitOK
  <1>3. ASSUME NEW c \in Clients, ReaderStep(c) PROVE IInv' BY <1>3, ReaderStepOK DEF ReaderStep
  <1>4. ASSUME NEW c \in Clients, WriterStep(c) PROVE IInv'
    BY <1>4, WriteOK, WriterExitsOK DEF WriterStep
  <1>5. ASSUME NEW c \in Clients, Environment(c) PROVE IInv'
    BY <1>5, ReaderStepOK, WriterExitsOK, SubscriptionOK DEF Environment
  <1>6. ASSUME NEW c \in Clients, Immediate(c) PROVE IInv' BY <1>6, ImmediateOK
  <1>7. CASE RunBroadcast BY <1>7, RunBroadcastOK
  <1>8. CASE Push \/ \E books \in Books : Tick(books) BY <1>8, BroadcasterOK
  <1>9. CASE UNCHANGED vars
    BY <1>9 DEF vars, runVars, connVars, IInv, TypeOK, RunNeverPanics, ConnectedAreKnown,
                NewcomersAreFresh
  <1> QED BY <1>1, <1>2, <1>3, <1>4, <1>5, <1>6, <1>7, <1>8, <1>9 DEF Next, Step

-----------------------------------------------------------------------------
(* Theorems *)

(* However connections come and go, are evicted and written to, IInv holds. *)
THEOREM Invariance == Spec => []IInv
  <1> QED BY InitOK, NextKeepsIInv, PTL DEF Spec

(* Every variable has its type; in particular no channel holds more than its buffer. *)
THEOREM TypeCorrect == Spec => []TypeOK
  <1>1. IInv => TypeOK BY DEF IInv
  <1> QED BY <1>1, Invariance, PTL

(* Run neither sends on a closed channel nor closes one twice, and who is in the map
   has an open channel. *)
THEOREM RunIsSafe == Spec => []RunNeverPanics
  <1>1. IInv => RunNeverPanics BY DEF IInv
  <1> QED BY <1>1, Invariance, PTL

(* No connected client is forgotten with an open channel. *)
THEOREM NobodyIsForgotten == Spec => []ConnectedAreKnown
  <1>1. IInv => ConnectedAreKnown BY DEF IInv
  <1> QED BY <1>1, Invariance, PTL

=============================================================================
