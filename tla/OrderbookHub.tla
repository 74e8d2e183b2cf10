---------------------------- MODULE OrderbookHub ----------------------------
(***************************************************************************)
(* The WebSocket hub of /ws/orderbook: the Run goroutine that owns the     *)
(* client set, the broadcaster that feeds it, and for every connection a   *)
(* readPump, a writePump and the goroutines that send an immediate book    *)
(* after a subscribe.  They share the client's send channel, which Run     *)
(* closes.  A goroutine that sends on a closed channel, or closes it       *)
(* again, panics, and the panic ends the process.                          *)
(***************************************************************************)
EXTENDS Integers, Sequences, FiniteSets

CONSTANTS
  Clients,      \* connections, each used once
  Markets,
  SendCap,      \* buffer of a client's send channel (256 in the code)
  BroadcastCap  \* buffer of the broadcast channel (256 in the code)

ASSUME HubAssumption == SendCap \in Nat \ {0} /\ BroadcastCap \in Nat \ {0}

VARIABLES
  clients,    \* h.clients
  todo,       \* clients the broadcast loop of Run has still to visit
  visiting,   \* the markets of the broadcast it is handing out
  broadcast,  \* h.broadcast, each element the markets it has books of
  fetched,    \* what the broadcaster has fetched and not yet pushed
  conn,       \* the TCP connection: "none", "open" or "closed"
  reader,     \* where HandleWebSocket and then readPump are
  writer,     \* where writePump is
  marketIDs,  \* c.marketIDs
  send,       \* c.send
  closed,     \* the clients whose send channel is closed
  immediate,  \* <<client, markets>> of the running sendImmediateOrderbook
  panic       \* the goroutine that brought the process down, or "none"

runVars  == <<clients, todo, visiting, broadcast, fetched>>
connVars == <<conn, reader, writer, marketIDs, immediate>>
vars == <<runVars, connVars, send, closed, panic>>

Books == (SUBSET Markets) \ {{}}

TypeOK ==
  /\ clients \subseteq Clients
  /\ todo \subseteq clients
  /\ visiting \in SUBSET Markets
  /\ broadcast \in Seq(Books) /\ Len(broadcast) <= BroadcastCap
  /\ fetched \in SUBSET Markets
  /\ conn \in [Clients -> {"none", "open", "closed"}]
  /\ reader \in [Clients -> {"off", "registering", "registered", "reading",
                             "leaving", "unregistered", "gone"}]
  /\ writer \in [Clients -> {"off", "writing", "gone"}]
  /\ marketIDs \in [Clients -> SUBSET Markets]
  /\ \A c \in Clients : send[c] \in Seq(Books) /\ Len(send[c]) <= SendCap
  /\ closed \subseteq Clients
  /\ immediate \subseteq Clients \X Books
  /\ panic \in {"none", "run", "immediate"}

Init ==
  /\ clients = {} /\ todo = {} /\ visiting = {} /\ broadcast = <<>> /\ fetched = {}
  /\ conn = [c \in Clients |-> "none"]
  /\ reader = [c \in Clients |-> "off"]
  /\ writer = [c \in Clients |-> "off"]
  /\ marketIDs = [c \in Clients |-> {}]
  /\ send = [c \in Clients |-> <<>>]
  /\ closed = {} /\ immediate = {} /\ panic = "none"

-----------------------------------------------------------------------------
(* Channels *)

Full(c) == Len(send[c]) >= SendCap

Put(c, books) == send' = [send EXCEPT ![c] = Append(@, books)] /\ UNCHANGED <<closed, panic>>

(* Fault: the evicted client's channel is not closed. *)
ForgetToClose(c) == UNCHANGED <<send, closed, panic>>

(* close(c.send) by Run. *)
Close(c) ==
  /\ closed' = closed \cup {c}
  /\ panic' = IF c \in closed THEN "run" ELSE panic
  /\ UNCHANGED send

-----------------------------------------------------------------------------
(* Run *)

(* Fault: a goroutine of its own hands the broadcast out, while Run selects on. *)
HandedOutApart == TRUE

(* Run looks at its channels again only when the broadcast has been handed out. *)
Selecting == todo = {}

RunRegister(c) ==
  /\ Selecting /\ reader[c] = "registering"
  /\ clients' = clients \cup {c}
  /\ reader' = [reader EXCEPT ![c] = "registered"]
  /\ UNCHANGED <<todo, visiting, broadcast, fetched, conn, writer, marketIDs, immediate,
                 send, closed, panic>>

(* Fault: the channel is closed without asking whether the client is in the map. *)
RunUnregisterBlindly(c) ==
  /\ Selecting /\ reader[c] = "leaving"
  /\ clients' = clients \ {c}
  /\ Close(c)
  /\ reader' = [reader EXCEPT ![c] = "unregistered"]
  /\ UNCHANGED <<todo, visiting, broadcast, fetched, conn, writer, marketIDs, immediate>>

(* A client that a broadcast evicted is no longer in the map. *)
RunUnregister(c) ==
  /\ Selecting /\ reader[c] = "leaving"
  /\ clients' = clients \ {c}
  /\ IF c \in clients THEN Close(c) ELSE UNCHANGED <<send, closed, panic>>
  /\ reader' = [reader EXCEPT ![c] = "unregistered"]
  /\ UNCHANGED <<todo, visiting, broadcast, fetched, conn, writer, marketIDs, immediate>>

RunBroadcast ==
  /\ Selecting /\ broadcast # <<>>
  /\ visiting' = Head(broadcast)
  /\ broadcast' = Tail(broadcast)
  /\ todo' = clients
  /\ UNCHANGED <<clients, fetched, connVars, send, closed, panic>>

(* Fault: the markets that the client has not subscribed. *)
FilterOthers(c, books) == books \ marketIDs[c]

(* filterOrderbooks: no subscription, no books. *)
FilterOrderbooks(c, books) == books \cap marketIDs[c]

(* One client of "for client := range h.clients"; a full buffer evicts it. *)
RunVisit(c) ==
  LET books == FilterOrderbooks(c, visiting)
  IN  /\ c \in todo
      /\ todo' = todo \ {c}
      /\ CASE books = {}                   -> UNCHANGED <<clients, send, closed, panic>>
           [] books # {} /\ c \in closed   -> panic' = "run" /\ UNCHANGED <<clients, send, closed>>
           [] books # {} /\ c \notin closed /\ ~Full(c) -> Put(c, books) /\ UNCHANGED clients
           [] books # {} /\ c \notin closed /\ Full(c)  -> Close(c) /\ clients' = clients \ {c}
      /\ UNCHANGED <<visiting, broadcast, fetched, connVars>>

-----------------------------------------------------------------------------
(* StartOrderbookBroadcaster *)

(* A tick: the books of the markets whose fetch succeeds. *)
Tick(books) ==
  /\ fetched = {} /\ fetched' = books
  /\ UNCHANGED <<clients, todo, visiting, broadcast, connVars, send, closed, panic>>

Push ==
  /\ fetched # {} /\ Len(broadcast) < BroadcastCap
  /\ broadcast' = Append(broadcast, fetched)
  /\ fetched' = {}
  /\ UNCHANGED <<clients, todo, visiting, connVars, send, closed, panic>>

-----------------------------------------------------------------------------
(* A connection *)

Connect(c) ==
  /\ reader[c] = "off"
  /\ reader' = [reader EXCEPT ![c] = "registering"]
  /\ conn' = [conn EXCEPT ![c] = "open"]
  /\ UNCHANGED <<runVars, writer, marketIDs, immediate, send, closed, panic>>

StartPumps(c) ==
  /\ reader[c] = "registered"
  /\ reader' = [reader EXCEPT ![c] = "reading"]
  /\ writer' = [writer EXCEPT ![c] = "writing"]
  /\ UNCHANGED <<runVars, conn, marketIDs, immediate, send, closed, panic>>

(* The peer goes away, or answers no ping for a minute. *)
Disconnect(c) ==
  /\ conn[c] = "open"
  /\ conn' = [conn EXCEPT ![c] = "closed"]
  /\ UNCHANGED <<runVars, reader, writer, marketIDs, immediate, send, closed, panic>>

(* Bound: at most one sendImmediateOrderbook per client and set of markets. *)
Subscribe(c, books) ==
  /\ reader[c] = "reading" /\ conn[c] = "open"
  /\ <<c, books>> \notin immediate
  /\ marketIDs' = [marketIDs EXCEPT ![c] = @ \cup books]
  /\ immediate' = immediate \cup {<<c, books>>}
  /\ UNCHANGED <<runVars, conn, reader, writer, send, closed, panic>>

Unsubscribe(c, books) ==
  /\ reader[c] = "reading" /\ conn[c] = "open"
  /\ marketIDs' = [marketIDs EXCEPT ![c] = @ \ books]
  /\ UNCHANGED <<runVars, conn, reader, writer, immediate, send, closed, panic>>

(* sendImmediateOrderbook, once its fetches are done: got are the markets whose
   fetch succeeded.  It takes no lock and does not know that the client left. *)
SendImmediate(c, books, got) ==
  /\ <<c, books>> \in immediate
  /\ immediate' = immediate \ {<<c, books>>}
  /\ CASE got # {} /\ c \in closed -> panic' = "immediate" /\ UNCHANGED <<send, closed>>
       [] got # {} /\ c \notin closed /\ ~Full(c) -> Put(c, got)
       [] OTHER -> UNCHANGED <<send, closed, panic>>
  /\ UNCHANGED <<runVars, conn, reader, writer, marketIDs>>

(* ReadMessage returns an error; readPump hands itself to unregister. *)
ReadFails(c) ==
  /\ reader[c] = "reading" /\ conn[c] = "closed"
  /\ reader' = [reader EXCEPT ![c] = "leaving"]
  /\ UNCHANGED <<runVars, conn, writer, marketIDs, immediate, send, closed, panic>>

ReaderCloses(c) ==
  /\ reader[c] = "unregistered"
  /\ reader' = [reader EXCEPT ![c] = "gone"]
  /\ conn' = [conn EXCEPT ![c] = "closed"]
  /\ UNCHANGED <<runVars, writer, marketIDs, immediate, send, closed, panic>>

(* A write to a connection that broke may still succeed. *)
Write(c) ==
  /\ writer[c] = "writing" /\ send[c] # <<>>
  /\ send' = [send EXCEPT ![c] = Tail(@)]
  /\ UNCHANGED <<runVars, connVars, closed, panic>>

(* Fault: writePump does not close the connection, so readPump never learns. *)
WriterLeavesOpen(c) ==
  /\ writer' = [writer EXCEPT ![c] = "gone"]
  /\ UNCHANGED <<runVars, conn, reader, marketIDs, immediate, send, closed, panic>>

WriterExits(c) ==
  /\ writer' = [writer EXCEPT ![c] = "gone"]
  /\ conn' = [conn EXCEPT ![c] = "closed"]
  /\ UNCHANGED <<runVars, reader, marketIDs, immediate, send, closed, panic>>

(* The channel is drained and closed. *)
WriterDone(c) ==
  writer[c] = "writing" /\ send[c] = <<>> /\ c \in closed /\ WriterExits(c)

(* A message or a ping fails on a closed connection. *)
WriteFails(c) ==
  writer[c] = "writing" /\ conn[c] = "closed" /\ WriterExits(c)

(* A message or a ping misses its deadline of ten seconds. *)
WriteTimesOut(c) ==
  writer[c] = "writing" /\ conn[c] = "open" /\ WriterExits(c)

-----------------------------------------------------------------------------
Handshake(c) == RunRegister(c) \/ RunUnregister(c)

ReaderStep(c) == StartPumps(c) \/ ReadFails(c) \/ ReaderCloses(c)
WriterStep(c) == Write(c) \/ WriterDone(c) \/ WriteFails(c)

Environment(c) ==
  \/ Connect(c) \/ Disconnect(c) \/ WriteTimesOut(c)
  \/ \E books \in Books : Subscribe(c, books) \/ Unsubscribe(c, books)

Immediate(c) == \E books \in Books, got \in SUBSET Markets :
                  got \subseteq books /\ SendImmediate(c, books, got)

Step ==
  \/ \E c \in Clients : Handshake(c) \/ RunVisit(c) \/ ReaderStep(c) \/ WriterStep(c)
                        \/ Environment(c) \/ Immediate(c)
  \/ RunBroadcast
  \/ \E books \in Books : Tick(books)
  \/ Push

(* A panic ends the process. *)
Running == panic = "none"

Next == Running /\ Step

Spec == Init /\ [][Next]_vars

(* Goroutines are scheduled; a select whose case is ready again and again takes
   it, since Go picks among the ready cases at random; the ticker ticks and the
   fetches return; a connection that is gone fails the next read. *)
Fairness ==
  /\ \A c \in Clients :
       /\ SF_vars(Running /\ Handshake(c)) /\ WF_vars(Running /\ RunVisit(c))
       /\ WF_vars(Running /\ ReaderStep(c)) /\ WF_vars(Running /\ WriterStep(c))
  /\ SF_vars(Running /\ RunBroadcast)
  /\ WF_vars(Running /\ Tick(Markets)) /\ WF_vars(Running /\ Push)

FairSpec == Spec /\ Fairness

-----------------------------------------------------------------------------
(* Properties *)

(* Run never panics: a client it may still send to has an open channel, and no
   channel is closed twice, in whatever order eviction and unregister come. *)
RunNeverPanics ==
  /\ panic # "run"
  /\ clients \cap closed = {}

(* A client that reads and is not in the map has been evicted: nobody is left
   connected and forgotten with an open channel. *)
ConnectedAreKnown ==
  \A c \in Clients : reader[c] \in {"registered", "reading", "leaving"}
                       => c \in clients \/ c \in closed

(* orderbook_handler.go:242, where the send is not possible: "skipping immediate
   orderbook".  The immediate send brings no process down. *)
ImmediateNeverPanics == panic # "immediate"

(* A connection that broke, or was evicted, is cleaned up by both pumps and by
   Run, unless the process panics first. *)
Leaves(c) == (conn[c] = "closed" \/ c \in closed) ~>
               \/ reader[c] = "gone" /\ writer[c] = "gone" /\ c \notin clients /\ c \in closed
               \/ panic # "none"

ConnectionsAreCleanedUp == \A c \in Clients : Leaves(c)

(* A client that stays connected and subscribed is written to again and again, or
   is evicted for being slow. *)
Hears(c) == <>[](reader[c] = "reading" /\ conn[c] = "open" /\ marketIDs[c] # {}
                  /\ c \notin closed /\ panic = "none")
              => []<><<Write(c)>>_vars

SubscribersHear == \A c \in Clients : Hears(c)
=============================================================================
