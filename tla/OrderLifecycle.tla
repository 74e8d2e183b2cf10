--------------------------- MODULE OrderLifecycle ---------------------------
(***************************************************************************)
(* What the order table promises its readers: every committed change is    *)
(* one of three, whatever the transactions behind it did.  A placed order  *)
(* arrives already matched, and fills live orders of the other side; a     *)
(* cancel ends one live order; an amend changes the price and amount of    *)
(* one live limit order.  A filled, canceled or rejected row never changes *)
(* again, filled_amount never shrinks and never passes the amount.         *)
(***************************************************************************)
EXTENDS Integers

CONSTANTS Ids, Null

VARIABLE book   \* the committed rows of "orders", Null where there is none

IsLive(o) == o # Null /\ o.status \in {"open", "partially_filled"}

Within(o) == o.amount # Null => o.filled <= o.amount

Init == book = [i \in Ids |-> Null]

(* Nothing is open after a fill, and nothing partially filled without one. *)
Arrives(o) ==
  /\ Within(o)
  /\ o.status = "open" => o.filled = 0
  /\ o.status \in {"partially_filled", "filled"} => o.filled > 0

(* The row of a maker that the arriving order o has filled. *)
FilledBy(o, old, new) ==
  /\ IsLive(old)
  /\ old.type = "limit" /\ old.side # o.side
  /\ new = [old EXCEPT !.filled = new.filled, !.status = new.status]
  /\ new.filled > old.filled
  /\ new.status \in {"partially_filled", "filled"}
  /\ Within(new)

Place(i) ==
  /\ book[i] = Null
  /\ book'[i] # Null
  /\ Arrives(book'[i])
  /\ \A j \in Ids \ {i} :
       book'[j] # book[j] => book'[i].filled > 0 /\ FilledBy(book'[i], book[j], book'[j])

Cancel(i) ==
  /\ IsLive(book[i])
  /\ book' = [book EXCEPT ![i].status = "canceled"]

Amend(i) ==
  /\ IsLive(book[i])
  /\ book[i].type = "limit"
  /\ book' = [book EXCEPT ![i].price = book'[i].price, ![i].amount = book'[i].amount]
  /\ Within(book'[i])

Next == \E i \in Ids : Place(i) \/ Cancel(i) \/ Amend(i)

Spec == Init /\ [][Next]_book
=============================================================================
