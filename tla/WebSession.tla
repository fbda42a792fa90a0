----------------------------- MODULE WebSession ------------------------------
(***************************************************************************)
(* The one ORM session all handlers of the web server share, with the      *)
(* tables only they write: the message board with its praise counter, the  *)
(* praise rows, and the shipping addresses with their default flag.        *)
(*                                                                         *)
(* Handlers run one after the other on one thread, but what one leaves in  *)
(* the session, another one commits, rolls back, or is refused by.         *)
(***************************************************************************)
EXTENDS Integers, FiniteSets

CONSTANTS
  User, Message, Address,  \* ids
  New, Gone,               \* a row before its insert and after its delete
  Faults,                  \* what may go wrong, a subset of AllFaults
  MaxFaults,               \* bound of how often it does
  MaxPraise                \* bound of the counter of a message

(* statement: a statement fails and the transaction goes on without it     *)
(* flush:     a flush fails or the connection is lost; until somebody      *)
(*            calls rollback or close, the session refuses every query     *)
(* crash:     the process is killed and started again                      *)
AllFaults == {"statement", "flush", "crash"}

ASSUME SessionAssumption ==
  /\ New # Gone /\ {New, Gone} \cap Int = {}
  /\ Faults \subseteq AllFaults
  /\ MaxFaults \in Nat /\ MaxPraise \in Nat
  /\ IsFiniteSet(User)

VARIABLES
  db,         \* the committed rows: praises, board (praise_num) and flag (is_default)
  tx,         \* the rows as the session's transaction sees and changes them
  inactive,   \* the session refuses queries
  web,        \* the handler under way
  cancelled,  \* praises whose users were told last that they are cancelled
  uncounted,  \* praises whose handler ended between counter and row, and half un-praises
  faults

vars == <<db, tx, inactive, web, cancelled, uncounted, faults>>

Pair == User \X Message
Idle == [at |-> "idle"]

Rows ==
  [praises: SUBSET Pair,
   board:   [Message -> Int \cup {New, Gone}],
   flag:    [Address -> {0, 1, New, Gone}]]

Init ==
  /\ db = [praises |-> {}, board |-> [m \in Message |-> New], flag |-> [a \in Address |-> New]]
  /\ tx = db
  /\ inactive = FALSE
  /\ web = Idle
  /\ cancelled = {} /\ uncounted = {} /\ faults = 0

Fault(f) == f \in Faults /\ faults < MaxFaults /\ faults' = faults + 1

(* How a transaction ends. *)
Commit(rows) == db' = rows /\ tx' = rows /\ UNCHANGED inactive
Close        == tx' = db /\ inactive' = FALSE /\ UNCHANGED db
FlushFails   == tx' = db /\ inactive' = TRUE /\ UNCHANGED db

Begin == web.at = "idle" /\ ~inactive

Exists(rows, m) == rows.board[m] \notin {New, Gone}

Counted(rows, m, n) ==
  [rows EXCEPT !.board[m] = IF Exists(rows, m) THEN @ + n ELSE @]

-----------------------------------------------------------------------------
(* GetPraiseHandler *)

(* Fault: the praise row is committed before the counter. *)
PraiseRowFirst(u, m) ==
  /\ Begin
  /\ tx.board[m] # New
  /\ <<u, m>> \notin tx.praises
  /\ Exists(tx, m) => tx.board[m] < MaxPraise
  /\ Commit([tx EXCEPT !.praises = @ \cup {<<u, m>>}])
  /\ web' = [at |-> "praise", who |-> u, what |-> m]
  /\ UNCHANGED <<cancelled, uncounted, faults>>

(* No praise of the user is found: the counter goes up, and is committed.  *)
(* The pages offer messages that are there, or were when they were shown.  *)
Praise(u, m) ==
  /\ Begin
  /\ tx.board[m] # New
  /\ <<u, m>> \notin tx.praises
  /\ Exists(tx, m) => tx.board[m] < MaxPraise
  /\ Commit(Counted(tx, m, 1))
  /\ web' = [at |-> "praise", who |-> u, what |-> m]
  /\ UNCHANGED <<cancelled, uncounted, faults>>

(* Fault: message_id, which may be null, is left unset. *)
PraiseRowOfNothing ==
  /\ web.at = "praise"
  /\ db' = [db EXCEPT !.praises = @ \cup {<<web.who, New>>}]
  /\ tx' = db'
  /\ cancelled' = cancelled \ {<<web.who, web.what>>}
  /\ web' = Idle
  /\ UNCHANGED <<inactive, uncounted, faults>>

(* Then the row. *)
PraiseRow ==
  /\ web.at = "praise"
  /\ db' = [db EXCEPT !.praises = @ \cup {<<web.who, web.what>>}]
  /\ tx' = db'
  /\ cancelled' = cancelled \ {<<web.who, web.what>>}
  /\ web' = Idle
  /\ UNCHANGED <<inactive, uncounted, faults>>

PraiseRowFails ==
  /\ web.at = "praise"
  /\ Fault("flush")
  /\ Close
  /\ uncounted' = uncounted \cup {web.what}
  /\ web' = Idle
  /\ UNCHANGED cancelled

(* A praise is found: row and counter are changed, nothing is committed    *)
(* (`self.session.commit' without a call), and the user is told so.        *)
Unpraise(u, m) ==
  /\ Begin
  /\ <<u, m>> \in tx.praises
  /\ tx' = Counted([tx EXCEPT !.praises = @ \ {<<u, m>>}], m, -1)
  /\ cancelled' = cancelled \cup {<<u, m>>}
  /\ UNCHANGED <<db, inactive, web, uncounted, faults>>

(* The update of the counter fails after the delete of the row. *)
UnpraiseFails(u, m) ==
  /\ Begin
  /\ <<u, m>> \in tx.praises
  /\ Fault("statement")
  /\ tx' = [tx EXCEPT !.praises = @ \ {<<u, m>>}]
  /\ uncounted' = uncounted \cup {m}
  /\ UNCHANGED <<db, inactive, web, cancelled>>

-----------------------------------------------------------------------------
(* The message board *)

(* UserMessageHandler.post, MessageAdditionHandler.post: add, commit, close. *)
PostMessage(m) ==
  /\ Begin
  /\ tx.board[m] = New
  /\ Commit([tx EXCEPT !.board[m] = 0])
  /\ UNCHANGED <<web, cancelled, uncounted, faults>>

(* MessageDeleteHandler.post; the praises of the message stay. *)
DeleteMessage(m) ==
  /\ Begin
  /\ Exists(tx, m)
  /\ Commit([tx EXCEPT !.board[m] = Gone])
  /\ UNCHANGED <<web, cancelled, uncounted, faults>>

-----------------------------------------------------------------------------
(* The addresses.  is_default arrives as a string, so `if is_default' is   *)
(* true of "0" too, and the filter is on the flag alone, not on the user.  *)

Defaults(rows) == {a \in Address : rows.flag[a] = 1}

(* Fault: only the addresses of some user are searched, one default stays. *)
StoreAddressKeepsOne(op, a, d) ==
  /\ Begin
  /\ op = "add" => tx.flag[a] = New
  /\ op = "update" => tx.flag[a] # New
  /\ \E keep \in SUBSET Defaults(tx) :
       /\ Cardinality(keep) <= 1
       /\ web' = [at |-> op, what |-> a, flag |-> d, clear |-> Defaults(tx) \ keep]
  /\ UNCHANGED <<db, tx, inactive, cancelled, uncounted, faults>>

(* AddressToSqlHandler, UpdateAddressHandler: the defaults are read. *)
StoreAddress(op, a, d) ==
  /\ Begin
  /\ op = "add" => tx.flag[a] = New
  /\ op = "update" => tx.flag[a] # New
  /\ web' = [at |-> op, what |-> a, flag |-> d, clear |-> Defaults(tx)]
  /\ UNCHANGED <<db, tx, inactive, cancelled, uncounted, faults>>

(* One of them is cleared, and that is committed. *)
ClearDefault ==
  /\ web.at \in {"add", "update"}
  /\ \E a \in web.clear :
       /\ Commit([tx EXCEPT !.flag[a] = 0])
       /\ web' = [web EXCEPT !.clear = @ \ {a}]
  /\ UNCHANGED <<cancelled, uncounted, faults>>

(* A failed clear is caught by neither handler. *)
ClearFails ==
  /\ web.at \in {"add", "update"}
  /\ web.clear # {}
  /\ Fault("flush")
  /\ FlushFails
  /\ web' = Idle
  /\ UNCHANGED <<cancelled, uncounted>>

(* Then the address is written, committed, and the session closed. *)
WriteAddress ==
  /\ web.at \in {"add", "update"}
  /\ web.clear = {}
  /\ Commit([tx EXCEPT !.flag[web.what] = IF @ = Gone THEN Gone ELSE web.flag])
  /\ web' = Idle
  /\ UNCHANGED <<cancelled, uncounted, faults>>

(* A mobile number that is there already, say: an add leaves the session   *)
(* as it is after the failed flush, an update rolls back and closes.       *)
WriteFails ==
  /\ web.at \in {"add", "update"}
  /\ web.clear = {}
  /\ Fault("flush")
  /\ IF web.at = "add" THEN FlushFails ELSE Close
  /\ web' = Idle
  /\ UNCHANGED <<cancelled, uncounted>>

(* DeleteUserAddressHandler *)
DeleteAddress(a) ==
  /\ Begin
  /\ tx.flag[a] \in {0, 1}
  /\ Commit([tx EXCEPT !.flag[a] = Gone])
  /\ UNCHANGED <<web, cancelled, uncounted, faults>>

-----------------------------------------------------------------------------
(* The handlers that touch other tables through the session *)

(* One that commits: a bank card, a withdrawal, an update of the user, a   *)
(* message put on top ...                                                  *)
OtherCommits ==
  /\ Begin
  /\ Commit(tx)
  /\ UNCHANGED <<web, cancelled, uncounted, faults>>

(* One that reads and closes: the login page, the product lists, the book; *)
(* or fails to commit and closes.  On a session that refuses queries, most *)
(* fail and close it all the same.                                         *)
OtherCloses ==
  /\ web.at = "idle"
  /\ Close
  /\ UNCHANGED <<web, cancelled, uncounted, faults>>

(* One that fails and does neither: a new password, a message put on top,  *)
(* a praise before its counter is committed.                               *)
OtherFails ==
  /\ Begin
  /\ Fault("flush")
  /\ FlushFails
  /\ UNCHANGED <<web, cancelled, uncounted>>

Crash ==
  /\ Fault("crash")
  /\ Close
  /\ uncounted' = IF web.at = "praise" THEN uncounted \cup {web.what} ELSE uncounted
  /\ web' = Idle
  /\ UNCHANGED cancelled

-----------------------------------------------------------------------------
PraiseStep ==
  \/ \E u \in User, m \in Message : Praise(u, m) \/ Unpraise(u, m) \/ UnpraiseFails(u, m)
  \/ PraiseRow \/ PraiseRowFails

BoardStep == \E m \in Message : PostMessage(m) \/ DeleteMessage(m)

AddressStep ==
  \/ \E op \in {"add", "update"}, a \in Address, d \in {0, 1} : StoreAddress(op, a, d)
  \/ ClearDefault \/ ClearFails \/ WriteAddress \/ WriteFails
  \/ \E a \in Address : DeleteAddress(a)

Next ==
  PraiseStep \/ BoardStep \/ AddressStep \/ OtherCommits \/ OtherCloses \/ OtherFails \/ Crash

Spec == Init /\ [][Next]_vars

-----------------------------------------------------------------------------
(* Properties *)

(* The types of the variables. *)
TypeOK ==
  /\ db \in Rows /\ tx \in Rows
  /\ inactive \in BOOLEAN
  /\ web \in {Idle}
        \cup [at: {"praise"}, who: User, what: Message]
        \cup [at: {"add", "update"}, what: Address, flag: {0, 1}, clear: SUBSET Address]
  /\ cancelled \subseteq Pair
  /\ uncounted \subseteq Message
  /\ faults \in 0..MaxFaults

RowsOf(rows, m) == {u \in User : <<u, m>> \in rows.praises}

(* praise_num of a message, which the board shows, is never below the rows *)
(* behind it, committed or in the session; it is above them only while a   *)
(* praise is being stored, or when a handler ended half-way: the counter   *)
(* is committed before the row, and an un-praise undoes both at once,      *)
(* whoever commits it.                                                     *)
PraiseCounted ==
  \A rows \in {db, tx} : \A m \in Message : Exists(rows, m) =>
    LET above == rows.board[m] - Cardinality(RowsOf(rows, m))
    IN /\ above >= 0
       /\ above > 0 => m \in uncounted \/ (web.at = "praise" /\ web.what = m)

(* There is never more than one default address, whatever fails while the  *)
(* flags are cleared one commit at a time.                                 *)
OneDefault == Cardinality(Defaults(db)) <= 1 /\ Cardinality(Defaults(tx)) <= 1

(* Who was told that a praise is cancelled (GetPraiseHandler answers       *)
(* so) does not find it on the board again.                                *)
CancelledStays == cancelled \cap tx.praises = {}
=============================================================================
