-------------------------- MODULE WebSession_proofs --------------------------
(***************************************************************************)
(* Theorems about WebSession, for all users, messages, addresses and       *)
(* faults: its types, that there is one default address at most, and that  *)
(* the praise counters are those of the praise rows.                       *)
(***************************************************************************)
EXTENDS WebSession, FiniteSetTheorems, TLAPS

USE SessionAssumption

-----------------------------------------------------------------------------
(* What a transaction sees of the addresses is what is committed, a        *)
(* handler that clears the flags has all that are left on its list, and at *)
(* most one was there when it began.                                       *)
DefaultInv ==
  /\ tx.flag = db.flag
  /\ web.at \in {"add", "update"} => Defaults(tx) \subseteq web.clear
  /\ \A a, b \in Defaults(db) : a = b

(* The message whose counter is ahead of a row that is being stored. *)
Owed == IF web.at = "praise" THEN {web.what} ELSE {}

Above(rows, owed, m) ==
  rows.board[m] - Cardinality(RowsOf(rows, m)) - (IF m \in owed THEN 1 ELSE 0)

Tallied(rows, owed, unsure) ==
  \A m \in Message :
    /\ rows.board[m] = New => RowsOf(rows, m) = {} /\ m \notin owed
    /\ Exists(rows, m) =>
         /\ Above(rows, owed, m) >= 0
         /\ Above(rows, owed, m) > 0 => m \in unsure

(* The counters agree with the rows, committed or not, but for what is     *)
(* owed; and while a praise is stored nothing else waits for a commit.     *)
PraiseInv ==
  /\ Tallied(db, Owed, uncounted)
  /\ Tallied(tx, Owed, uncounted)
  /\ web.at = "praise" => tx = db /\ <<web.who, web.what>> \notin db.praises

-----------------------------------------------------------------------------
(* Types *)

LEMMA CountedTyped ==
  ASSUME NEW rows \in Rows, NEW m \in Message, NEW n \in Int
  PROVE  /\ Counted(rows, m, n) \in Rows
         /\ Counted(rows, m, n).praises = rows.praises
         /\ Counted(rows, m, n).flag = rows.flag
 <1>1. Exists(rows, m) => rows.board[m] \in Int
   BY DEF Exists, Rows
 <1>2. (IF Exists(rows, m) THEN rows.board[m] + n ELSE rows.board[m]) \in Int \cup {New, Gone}
   BY <1>1 DEF Rows
 <1>3. QED
   BY <1>2 DEF Counted, Rows

LEMMA InitTyped == Init => TypeOK
 <1> SUFFICES ASSUME Init PROVE TypeOK
   OBVIOUS
 <1>1. db \in Rows
   BY DEF Init, Rows
 <1>2. faults \in 0..MaxFaults
   BY DEF Init
 <1>3. inactive \in BOOLEAN
   BY Zenon DEF Init
 <1>4. QED
   BY <1>1, <1>2, <1>3 DEF Init, TypeOK

LEMMA FaultTyped ==
  ASSUME TypeOK, NEW f, Fault(f)
  PROVE  faults' \in 0..MaxFaults
  BY DEF TypeOK, Fault

(* The end of a transaction keeps the types of the rows. *)
LEMMA EndTyped ==
  ASSUME TypeOK, Close \/ FlushFails \/ \E rows \in Rows : Commit(rows)
  PROVE  db' \in Rows /\ tx' \in Rows /\ inactive' \in BOOLEAN
  BY DEF TypeOK, Close, FlushFails, Commit

LEMMA PraiseTyped ==
  ASSUME TypeOK, PraiseStep
  PROVE  TypeOK'
 <1>1. ASSUME NEW u \in User, NEW m \in Message, Praise(u, m) PROVE TypeOK'
  <2>1. Counted(tx, m, 1) \in Rows
    BY CountedTyped DEF TypeOK
  <2>2. QED
    BY <1>1, <2>1 DEF Praise, TypeOK, Commit
 <1>2. ASSUME NEW u \in User, NEW m \in Message, Unpraise(u, m) PROVE TypeOK'
  <2>1. [tx EXCEPT !.praises = @ \ {<<u, m>>}] \in Rows
    BY DEF TypeOK, Rows
  <2>2. tx' \in Rows
    BY <1>2, <2>1, CountedTyped DEF Unpraise
  <2>3. <<u, m>> \in Pair
    BY DEF Pair
  <2>4. QED
    BY <1>2, <2>2, <2>3 DEF Unpraise, TypeOK
 <1>3. ASSUME NEW u \in User, NEW m \in Message, UnpraiseFails(u, m) PROVE TypeOK'
  <2>1. tx' \in Rows
    BY <1>3 DEF UnpraiseFails, TypeOK, Rows
  <2>2. QED
    BY <1>3, <2>1, FaultTyped DEF UnpraiseFails, TypeOK
 <1>4. CASE PraiseRow
  <2>1. <<web.who, web.what>> \in Pair
    BY <1>4 DEF PraiseRow, TypeOK, Pair, Idle
  <2>2. db' \in Rows
    BY <1>4, <2>1 DEF PraiseRow, TypeOK, Rows
  <2>3. QED
    BY <1>4, <2>2 DEF PraiseRow, TypeOK
 <1>5. CASE PraiseRowFails
  <2>1. web.what \in Message
    BY <1>5 DEF PraiseRowFails, TypeOK, Idle
  <2>2. QED
    BY <1>5, <2>1, FaultTyped, EndTyped DEF PraiseRowFails, TypeOK
 <1>6. QED
   BY <1>1, <1>2, <1>3, <1>4, <1>5 DEF PraiseStep

LEMMA BoardTyped ==
  ASSUME TypeOK, BoardStep
  PROVE  TypeOK'
 <1>1. ASSUME NEW m \in Message, NEW v \in {0, Gone}
       PROVE  [tx EXCEPT !.board[m] = v] \in Rows
   BY DEF TypeOK, Rows
 <1>2. ASSUME NEW m \in Message, PostMessage(m) PROVE TypeOK'
   BY <1>1, <1>2 DEF PostMessage, Commit, TypeOK
 <1>3. ASSUME NEW m \in Message, DeleteMessage(m) PROVE TypeOK'
   BY <1>1, <1>3 DEF DeleteMessage, Commit, TypeOK
 <1>4. QED
   BY <1>2, <1>3 DEF BoardStep

LEMMA AddressTyped ==
  ASSUME TypeOK, AddressStep
  PROVE  TypeOK'
 <1>1. ASSUME NEW a, NEW v \in {0, 1, New, Gone}
       PROVE  [tx EXCEPT !.flag[a] = v] \in Rows
   BY DEF TypeOK, Rows
 <1>2. ASSUME NEW op \in {"add", "update"}, NEW a \in Address, NEW d \in {0, 1},
              StoreAddress(op, a, d)
       PROVE  TypeOK'
   BY <1>2 DEF StoreAddress, TypeOK, Defaults
 <1>3. CASE ClearDefault
  <2>1. PICK a \in web.clear :
          /\ Commit([tx EXCEPT !.flag[a] = 0])
          /\ web' = [web EXCEPT !.clear = @ \ {a}]
    BY <1>3 DEF ClearDefault
  <2>2. web' \in [at: {"add", "update"}, what: Address, flag: {0, 1}, clear: SUBSET Address]
    BY <1>3, <2>1 DEF ClearDefault, TypeOK, Idle
  <2>3. QED
    BY <1>1, <1>3, <2>1, <2>2, EndTyped DEF ClearDefault, TypeOK
 <1>4. CASE ClearFails
   BY <1>4, FaultTyped, EndTyped DEF ClearFails, TypeOK
 <1>5. CASE WriteAddress
  <2>1. web.flag \in {0, 1}
    BY <1>5 DEF WriteAddress, TypeOK, Idle
  <2>2. (IF tx.flag[web.what] = Gone THEN Gone ELSE web.flag) \in {0, 1, New, Gone}
    BY <2>1
  <2>3. QED
    BY <1>1, <1>5, <2>2, EndTyped DEF WriteAddress, TypeOK
 <1>6. CASE WriteFails
  <2>1. Close \/ FlushFails
    BY <1>6 DEF WriteFails
  <2>2. QED
    BY <1>6, <2>1, FaultTyped, EndTyped DEF WriteFails, TypeOK
 <1>7. ASSUME NEW a \in Address, DeleteAddress(a) PROVE TypeOK'
   BY <1>1, <1>7, EndTyped DEF DeleteAddress, TypeOK
 <1>8. QED
   BY <1>2, <1>3, <1>4, <1>5, <1>6, <1>7 DEF AddressStep

LEMMA OtherTyped ==
  ASSUME TypeOK, OtherCommits \/ OtherCloses \/ OtherFails \/ Crash
  PROVE  TypeOK'
 <1>1. CASE OtherCommits
   BY <1>1 DEF OtherCommits, Commit, TypeOK
 <1>2. CASE OtherCloses
   BY <1>2, EndTyped DEF OtherCloses, TypeOK
 <1>3. CASE OtherFails
   BY <1>3, FaultTyped, EndTyped DEF OtherFails, TypeOK
 <1>4. CASE Crash
  <2>1. web.at = "praise" => web.what \in Message
    BY DEF TypeOK, Idle
  <2>2. QED
    BY <1>4, <2>1, FaultTyped, EndTyped DEF Crash, TypeOK
 <1>5. QED
   BY <1>1, <1>2, <1>3, <1>4

LEMMA NextTyped == TypeOK /\ [Next]_vars => TypeOK'
 <1> SUFFICES ASSUME TypeOK, [Next]_vars PROVE TypeOK'
   OBVIOUS
 <1>1. CASE UNCHANGED vars
   BY <1>1 DEF vars, TypeOK
 <1>2. QED
   BY <1>1, PraiseTyped, BoardTyped, AddressTyped, OtherTyped DEF Next

(* The variables of WebSession have their types, whatever fails. *)
THEOREM TypeCorrect == Spec => []TypeOK
 <1>1. QED
   BY InitTyped, NextTyped, PTL DEF Spec

-----------------------------------------------------------------------------
(* The default address *)

(* Who touches no address and no handler that stores one keeps the flags.  *)
LEMMA FlagsKept ==
  ASSUME DefaultInv,
         tx'.flag = tx.flag, db'.flag = db.flag,
         web' = web \/ web'.at \notin {"add", "update"}
  PROVE  DefaultInv'
  BY DEF DefaultInv, Defaults

LEMMA EndKeepsFlags ==
  ASSUME DefaultInv, Close \/ FlushFails
  PROVE  tx'.flag = tx.flag /\ db'.flag = db.flag
  BY DEF DefaultInv, Close, FlushFails

LEMMA PraiseKeepsFlags ==
  ASSUME TypeOK, DefaultInv, PraiseStep
  PROVE  DefaultInv'
 <1>0. ASSUME NEW S PROVE [tx EXCEPT !.praises = S].flag = tx.flag
   BY DEF TypeOK, Rows
 <1>1. ASSUME NEW u \in User, NEW m \in Message, Praise(u, m) PROVE DefaultInv'
  <2>1. tx'.flag = tx.flag /\ db'.flag = tx.flag
    BY <1>1, CountedTyped DEF Praise, Commit, TypeOK
  <2>2. web'.at = "praise"
    BY <1>1 DEF Praise
  <2>3. QED
    BY <2>1, <2>2, FlagsKept DEF DefaultInv
 <1>2. ASSUME NEW u \in User, NEW m \in Message, Unpraise(u, m) PROVE DefaultInv'
  <2> DEFINE rows == [tx EXCEPT !.praises = @ \ {<<u, m>>}]
  <2>1. rows \in Rows /\ rows.flag = tx.flag
    BY <1>0 DEF TypeOK, Rows
  <2>2. tx'.flag = tx.flag
   <3>1. tx' = Counted(rows, m, -1)
     BY <1>2 DEF Unpraise
   <3> HIDE DEF rows
   <3>2. Counted(rows, m, -1).flag = rows.flag
     BY <2>1, CountedTyped
   <3>3. QED
     BY <3>1, <3>2, <2>1
  <2>3. QED
    BY <1>2, <2>2, FlagsKept DEF Unpraise
 <1>3. ASSUME NEW u \in User, NEW m \in Message, UnpraiseFails(u, m) PROVE DefaultInv'
  <2>1. tx'.flag = tx.flag
    BY <1>3, <1>0 DEF UnpraiseFails
  <2>2. QED
    BY <1>3, <2>1, FlagsKept DEF UnpraiseFails
 <1>4. CASE PraiseRow
  <2>1. db'.flag = db.flag
    BY <1>4 DEF PraiseRow, TypeOK, Rows
  <2>2. QED
    BY <1>4, <2>1, FlagsKept DEF PraiseRow, DefaultInv, Idle
 <1>5. CASE PraiseRowFails
   BY <1>5, EndKeepsFlags, FlagsKept DEF PraiseRowFails, Idle
 <1>6. QED
   BY <1>1, <1>2, <1>3, <1>4, <1>5 DEF PraiseStep

LEMMA BoardKeepsFlags ==
  ASSUME TypeOK, DefaultInv, BoardStep
  PROVE  DefaultInv'
 <1>1. PICK m \in Message, v \in {0, Gone} :
         Commit([tx EXCEPT !.board[m] = v]) /\ web' = web
   BY DEF BoardStep, PostMessage, DeleteMessage
 <1>2. tx'.flag = tx.flag /\ db'.flag = tx.flag
   BY <1>1 DEF Commit, TypeOK, Rows
 <1>3. QED
   BY <1>1, <1>2, FlagsKept DEF DefaultInv

LEMMA AddressKeepsOneDefault ==
  ASSUME TypeOK, DefaultInv, AddressStep
  PROVE  DefaultInv'
 <1>0. ASSUME NEW a, NEW v \in {0, 1, New, Gone}, Commit([tx EXCEPT !.flag[a] = v])
       PROVE  /\ tx'.flag = [tx.flag EXCEPT ![a] = v] /\ db'.flag = tx'.flag
              /\ v # 1 => Defaults(tx)' = Defaults(tx) \ {a}
              /\ Defaults(tx)' \subseteq Defaults(tx) \cup {a}
  <2>1. tx'.flag = [tx.flag EXCEPT ![a] = v] /\ db'.flag = tx'.flag
    BY <1>0 DEF Commit, TypeOK, Rows
  <2>2. tx.flag \in [Address -> {0, 1, New, Gone}]
    BY DEF TypeOK, Rows
  <2>3. QED
    BY <2>1, <2>2 DEF Defaults
 <1>1. ASSUME NEW op \in {"add", "update"}, NEW a \in Address, NEW d \in {0, 1},
              StoreAddress(op, a, d)
       PROVE  DefaultInv'
   BY <1>1 DEF StoreAddress, DefaultInv, Defaults
 <1>2. CASE ClearDefault
  <2>1. PICK a \in web.clear :
          /\ Commit([tx EXCEPT !.flag[a] = 0])
          /\ web' = [web EXCEPT !.clear = @ \ {a}]
    BY <1>2 DEF ClearDefault
  <2>2. web'.clear = web.clear \ {a}
    BY <1>2, <2>1 DEF ClearDefault, TypeOK, Idle
  <2>3. Defaults(tx)' = Defaults(tx) \ {a} /\ db'.flag = tx'.flag
   <3>1. Commit([tx EXCEPT !.flag[a] = 0])
     BY <2>1
   <3>2. 0 \in {0, 1, New, Gone} /\ 0 # 1
     OBVIOUS
   <3>3. QED
     BY ONLY <1>0, <3>1, <3>2, Zenon
  <2>4. Defaults(db) = Defaults(tx) /\ Defaults(db)' = Defaults(tx)'
    BY <2>3 DEF DefaultInv, Defaults
  <2>5. Defaults(tx) \subseteq web.clear
    BY <1>2 DEF ClearDefault, DefaultInv
  <2>6. QED
    BY <2>2, <2>3, <2>4, <2>5 DEF DefaultInv
 <1>3. CASE WriteAddress
  <2>1. Defaults(tx) = {}
    BY <1>3 DEF WriteAddress, DefaultInv
  <2>2. web.flag \in {0, 1}
    BY <1>3 DEF WriteAddress, TypeOK, Idle
  <2>3. Defaults(tx)' \subseteq {web.what} /\ db'.flag = tx'.flag
    BY <1>0, <1>3, <2>1, <2>2 DEF WriteAddress
  <2>4. Defaults(db)' = Defaults(tx)'
    BY <2>3 DEF Defaults
  <2>5. QED
    BY <1>3, <2>3, <2>4 DEF WriteAddress, DefaultInv, Idle
 <1>4. CASE ClearFails
   BY <1>4, EndKeepsFlags, FlagsKept DEF ClearFails, Idle
 <1>5. CASE WriteFails
  <2>1. Close \/ FlushFails
    BY <1>5 DEF WriteFails
  <2>2. QED
    BY <1>5, <2>1, EndKeepsFlags, FlagsKept DEF WriteFails, Idle
 <1>6. ASSUME NEW a \in Address, DeleteAddress(a) PROVE DefaultInv'
  <2>1. Gone # 1
    OBVIOUS
  <2>2. Defaults(tx)' \subseteq Defaults(tx) /\ db'.flag = tx'.flag
    BY <1>0, <1>6, <2>1 DEF DeleteAddress
  <2>3. Defaults(db) = Defaults(tx) /\ Defaults(db)' = Defaults(tx)'
    BY <2>2 DEF DefaultInv, Defaults
  <2>4. QED
    BY <1>6, <2>2, <2>3 DEF DeleteAddress, Begin, DefaultInv
 <1>7. QED
   BY <1>1, <1>2, <1>3, <1>4, <1>5, <1>6 DEF AddressStep

LEMMA OtherKeepsFlags ==
  ASSUME TypeOK, DefaultInv, OtherCommits \/ OtherCloses \/ OtherFails \/ Crash
  PROVE  DefaultInv'
 <1>1. CASE OtherCommits
   BY <1>1, FlagsKept DEF OtherCommits, Commit, DefaultInv
 <1>2. CASE OtherCloses
   BY <1>2, EndKeepsFlags, FlagsKept DEF OtherCloses
 <1>3. CASE OtherFails
   BY <1>3, EndKeepsFlags, FlagsKept DEF OtherFails
 <1>4. CASE Crash
   BY <1>4, EndKeepsFlags, FlagsKept DEF Crash, Idle
 <1>5. QED
   BY <1>1, <1>2, <1>3, <1>4

LEMMA NextDefault == TypeOK /\ DefaultInv /\ [Next]_vars => DefaultInv'
 <1> SUFFICES ASSUME TypeOK, DefaultInv, [Next]_vars PROVE DefaultInv'
   OBVIOUS
 <1>1. CASE UNCHANGED vars
   BY <1>1, FlagsKept DEF vars
 <1>2. QED
   BY <1>1, PraiseKeepsFlags, BoardKeepsFlags, AddressKeepsOneDefault, OtherKeepsFlags DEF Next

(* A set whose members are all the same has one at most. *)
LEMMA OneAtMost ==
  ASSUME NEW S, \A a, b \in S : a = b
  PROVE  Cardinality(S) <= 1
 <1>1. CASE S = {}
   BY <1>1, FS_EmptySet
 <1>2. CASE S # {}
  <2>1. PICK a : S = {a}
    BY <1>2
  <2>2. QED
    BY <2>1, FS_Singleton
 <1>3. QED
   BY <1>1, <1>2

(* There is one default address at most, whatever fails while the flags    *)
(* are cleared, one commit at a time (AddressToSqlHandler).                *)
THEOREM DefaultKept == Spec => []OneDefault
 <1>1. Init => DefaultInv
   BY DEF Init, DefaultInv, Defaults, Idle
 <1>2. DefaultInv => OneDefault
  <2>1. SUFFICES ASSUME DefaultInv PROVE OneDefault
    OBVIOUS
  <2>2. Defaults(tx) = Defaults(db)
    BY <2>1 DEF DefaultInv, Defaults
  <2>3. QED
    BY <2>1, <2>2, OneAtMost DEF DefaultInv, OneDefault
 <1>3. QED
   BY <1>1, <1>2, NextDefault, TypeCorrect, PTL DEF Spec

-----------------------------------------------------------------------------
(* The praise counters: what a change of the rows does to the tally *)

LEMMA RowsFinite ==
  ASSUME NEW rows, NEW m \in Message, RowsOf(rows, m) \subseteq User
  PROVE  IsFiniteSet(RowsOf(rows, m)) /\ Cardinality(RowsOf(rows, m)) \in Nat
  BY FS_Subset, FS_CardinalityType

LEMMA RowsOfUsers ==
  ASSUME NEW rows, NEW m \in Message
  PROVE  RowsOf(rows, m) \subseteq User
  BY DEF RowsOf

LEMMA BoardNumber ==
  ASSUME NEW rows \in Rows, NEW m \in Message, Exists(rows, m)
  PROVE  rows.board[m] \in Int
  BY DEF Exists, Rows

(* Only the praises and the board matter. *)
LEMMA TalliedSame ==
  ASSUME NEW rows, NEW other, NEW owed, NEW unsure,
         other.praises = rows.praises, other.board = rows.board,
         Tallied(rows, owed, unsure)
  PROVE  Tallied(other, owed, unsure)
  BY DEF Tallied, Above, Exists, RowsOf

LEMMA TalliedMonotone ==
  ASSUME NEW rows, NEW owed, NEW unsure, NEW more, unsure \subseteq more,
         Tallied(rows, owed, unsure)
  PROVE  Tallied(rows, owed, more)
  BY DEF Tallied

(* A handler that ends before the row is stored leaves the counter ahead.  *)
LEMMA TalliedForgotten ==
  ASSUME NEW rows \in Rows, NEW m \in Message, NEW unsure, Tallied(rows, {m}, unsure)
  PROVE  Tallied(rows, {}, unsure \cup {m})
 <1> SUFFICES ASSUME NEW k \in Message
     PROVE /\ rows.board[k] = New => RowsOf(rows, k) = {} /\ k \notin {}
           /\ Exists(rows, k) =>
                /\ Above(rows, {}, k) >= 0
                /\ Above(rows, {}, k) > 0 => k \in unsure \cup {m}
   BY DEF Tallied
 <1>1. Cardinality(RowsOf(rows, k)) \in Nat
   BY RowsFinite, RowsOfUsers
 <1>2. Exists(rows, k) => rows.board[k] \in Int
   BY BoardNumber
 <1>3. QED
   BY <1>1, <1>2 DEF Tallied, Above

(* The counter goes up before the row is there. *)
LEMMA TalliedCounted ==
  ASSUME NEW rows \in Rows, NEW m \in Message, NEW unsure,
         rows.board[m] # New, Tallied(rows, {}, unsure)
  PROVE  Tallied(Counted(rows, m, 1), {m}, unsure)
 <1> DEFINE new == Counted(rows, m, 1)
 <1>1. new.praises = rows.praises
   BY CountedTyped
 <1>2. new.board = [rows.board EXCEPT ![m] = IF Exists(rows, m) THEN @ + 1 ELSE @]
   BY DEF Counted, Rows
 <1> HIDE DEF new
 <1> SUFFICES ASSUME NEW k \in Message
     PROVE /\ new.board[k] = New => RowsOf(new, k) = {} /\ k \notin {m}
           /\ Exists(new, k) =>
                /\ Above(new, {m}, k) >= 0
                /\ Above(new, {m}, k) > 0 => k \in unsure
   BY DEF Tallied, new
 <1>3. RowsOf(new, k) = RowsOf(rows, k) /\ Cardinality(RowsOf(rows, k)) \in Nat
   BY <1>1, RowsFinite, RowsOfUsers DEF RowsOf
 <1>4. Exists(rows, k) => rows.board[k] \in Int
   BY BoardNumber
 <1>5. rows.board \in [Message -> Int \cup {New, Gone}]
   BY DEF Rows
 <1>6. CASE k = m
  <2>1. Exists(rows, m) => new.board[m] = rows.board[m] + 1 /\ new.board[m] # New
    BY <1>2, <1>4, <1>5, <1>6
  <2>2. ~Exists(rows, m) => new.board[m] = rows.board[m] /\ ~Exists(new, m)
    BY <1>2, <1>5 DEF Exists
  <2>3. Exists(rows, m) => Above(new, {m}, m) = Above(rows, {}, m)
    BY <2>1, <1>3, <1>4, <1>6 DEF Above
  <2>4. QED
    BY <1>6, <2>1, <2>2, <2>3 DEF Tallied
 <1>7. CASE k # m
  <2>1. new.board[k] = rows.board[k] /\ (Exists(new, k) <=> Exists(rows, k))
    BY <1>2, <1>5, <1>7 DEF Exists
  <2>2. Above(new, {m}, k) = Above(rows, {}, k)
    BY <2>1, <1>3, <1>7 DEF Above
  <2>3. QED
    BY <1>3, <1>7, <2>1, <2>2 DEF Tallied
 <1>8. QED
   BY <1>6, <1>7

(* Then the row comes. *)
LEMMA TalliedStored ==
  ASSUME NEW rows \in Rows, NEW u \in User, NEW m \in Message, NEW unsure,
         <<u, m>> \notin rows.praises, Tallied(rows, {m}, unsure)
  PROVE  Tallied([rows EXCEPT !.praises = @ \cup {<<u, m>>}], {}, unsure)
 <1> DEFINE new == [rows EXCEPT !.praises = @ \cup {<<u, m>>}]
 <1>1. new.praises = rows.praises \cup {<<u, m>>} /\ new.board = rows.board
   BY DEF Rows
 <1> HIDE DEF new
 <1> SUFFICES ASSUME NEW k \in Message
     PROVE /\ new.board[k] = New => RowsOf(new, k) = {} /\ k \notin {}
           /\ Exists(new, k) =>
                /\ Above(new, {}, k) >= 0
                /\ Above(new, {}, k) > 0 => k \in unsure
   BY DEF Tallied, new
 <1>2. IsFiniteSet(RowsOf(rows, k)) /\ Cardinality(RowsOf(rows, k)) \in Nat
   BY RowsFinite, RowsOfUsers
 <1>3. Exists(rows, k) => rows.board[k] \in Int
   BY BoardNumber
 <1>4. Exists(new, k) <=> Exists(rows, k)
   BY <1>1 DEF Exists
 <1>5. CASE k = m
  <2>1. RowsOf(new, k) = RowsOf(rows, k) \cup {u} /\ u \notin RowsOf(rows, k)
    BY <1>1, <1>5 DEF RowsOf
  <2>2. Cardinality(RowsOf(new, k)) = Cardinality(RowsOf(rows, k)) + 1
    BY <2>1, <1>2, FS_AddElement
  <2>3. Exists(rows, k) => Above(new, {}, k) = Above(rows, {m}, k)
    BY <1>1, <1>2, <1>3, <1>5, <2>2 DEF Above
  <2>4. new.board[k] # New
    BY <1>1, <1>5 DEF Tallied
  <2>5. QED
    BY <1>4, <2>3, <2>4 DEF Tallied
 <1>6. CASE k # m
  <2>1. RowsOf(new, k) = RowsOf(rows, k)
    BY <1>1, <1>6 DEF RowsOf
  <2>2. Above(new, {}, k) = Above(rows, {m}, k)
    BY <1>1, <1>6, <2>1 DEF Above
  <2>3. QED
    BY <1>1, <1>4, <2>1, <2>2 DEF Tallied
 <1>7. QED
   BY <1>5, <1>6

(* An un-praise takes back both, or the row alone. *)
LEMMA TalliedUndone ==
  ASSUME NEW rows \in Rows, NEW u \in User, NEW m \in Message, NEW unsure,
         <<u, m>> \in rows.praises, Tallied(rows, {}, unsure)
  PROVE  LET less == [rows EXCEPT !.praises = @ \ {<<u, m>>}]
         IN /\ less \in Rows
            /\ Tallied(less, {}, unsure \cup {m})
            /\ Tallied(Counted(less, m, -1), {}, unsure)
 <1> DEFINE less == [rows EXCEPT !.praises = @ \ {<<u, m>>}]
            new == Counted(less, m, -1)
 <1>1. less.praises = rows.praises \ {<<u, m>>} /\ less.board = rows.board /\ less \in Rows
   BY DEF Rows
 <1> HIDE DEF less
 <1>2. new.praises = less.praises
   BY <1>1, CountedTyped
 <1>3. new.board = [rows.board EXCEPT ![m] = IF Exists(rows, m) THEN @ + (-1) ELSE @]
   BY <1>1 DEF Counted, Rows, Exists
 <1> HIDE DEF new
 <1>4. ASSUME NEW k \in Message
       PROVE /\ less.board[k] = New => RowsOf(less, k) = {}
             /\ new.board[k] = New => RowsOf(new, k) = {}
             /\ Exists(less, k) =>
                  /\ Above(less, {}, k) >= 0
                  /\ Above(less, {}, k) > 0 => k \in unsure \cup {m}
             /\ Exists(new, k) =>
                  /\ Above(new, {}, k) >= 0
                  /\ Above(new, {}, k) > 0 => k \in unsure
  <2>1. IsFiniteSet(RowsOf(rows, k)) /\ Cardinality(RowsOf(rows, k)) \in Nat
    BY RowsFinite, RowsOfUsers
  <2>2. Exists(rows, k) => rows.board[k] \in Int
    BY BoardNumber
  <2>3. (Exists(less, k) <=> Exists(rows, k)) /\ RowsOf(new, k) = RowsOf(less, k)
    BY <1>1, <1>2 DEF Exists, RowsOf
  <2>4. rows.board \in [Message -> Int \cup {New, Gone}]
    BY DEF Rows
  <2>5. CASE k = m
   <3>1. RowsOf(less, k) = RowsOf(rows, k) \ {u} /\ u \in RowsOf(rows, k)
     BY <1>1, <2>5 DEF RowsOf
   <3>2. Cardinality(RowsOf(less, k)) = Cardinality(RowsOf(rows, k)) - 1
     BY <3>1, <2>1, FS_RemoveElement, ZenonT(30)
   <3>3. rows.board[k] # New
     BY <3>1 DEF Tallied
   <3>4. Exists(rows, k) => new.board[k] = rows.board[k] - 1 /\ new.board[k] # New
     BY <1>3, <2>2, <2>4, <2>5
   <3>5. ~Exists(rows, k) => new.board[k] = rows.board[k] /\ ~Exists(new, k)
     BY <1>3, <2>4, <2>5 DEF Exists
   <3>6. Exists(rows, k) => Above(new, {}, k) = Above(rows, {}, k)
                            /\ Above(less, {}, k) = Above(rows, {}, k) + 1
                            /\ Above(rows, {}, k) \in Int
     BY <1>1, <2>1, <2>2, <2>3, <3>2, <3>4 DEF Above
   <3>7. QED
     BY <1>1, <2>3, <2>5, <3>3, <3>4, <3>5, <3>6 DEF Tallied
  <2>6. CASE k # m
   <3>1. RowsOf(less, k) = RowsOf(rows, k)
     BY <1>1, <2>6 DEF RowsOf
   <3>2. new.board[k] = rows.board[k] /\ (Exists(new, k) <=> Exists(rows, k))
     BY <1>3, <2>4, <2>6 DEF Exists
   <3>3. Above(new, {}, k) = Above(rows, {}, k) /\ Above(less, {}, k) = Above(rows, {}, k)
     BY <1>1, <2>3, <3>1, <3>2 DEF Above
   <3>4. QED
     BY <1>1, <2>3, <3>1, <3>2, <3>3 DEF Tallied
  <2>7. QED
    BY <2>5, <2>6
 <1>5. Tallied(less, {}, unsure \cup {m}) /\ Tallied(new, {}, unsure)
   BY <1>4 DEF Tallied
 <1>6. QED
   BY <1>1, <1>5 DEF less, new

(* A message is posted without praises; a deleted one has no counter. *)
LEMMA TalliedBoard ==
  ASSUME NEW rows \in Rows, NEW m \in Message, NEW unsure, NEW v \in {0, Gone},
         v = 0 => rows.board[m] = New,
         Tallied(rows, {}, unsure)
  PROVE  Tallied([rows EXCEPT !.board[m] = v], {}, unsure)
 <1> DEFINE new == [rows EXCEPT !.board[m] = v]
 <1>1. new.praises = rows.praises /\ new.board = [rows.board EXCEPT ![m] = v]
   BY DEF Rows
 <1>2. rows.board \in [Message -> Int \cup {New, Gone}]
   BY DEF Rows
 <1> HIDE DEF new
 <1> SUFFICES ASSUME NEW k \in Message
     PROVE /\ new.board[k] = New => RowsOf(new, k) = {} /\ k \notin {}
           /\ Exists(new, k) =>
                /\ Above(new, {}, k) >= 0
                /\ Above(new, {}, k) > 0 => k \in unsure
   BY DEF Tallied, new
 <1>3. RowsOf(new, k) = RowsOf(rows, k)
   BY <1>1 DEF RowsOf
 <1>4. CASE k = m /\ v = 0
  <2>1. RowsOf(rows, k) = {} /\ new.board[k] = 0
    BY <1>1, <1>2, <1>4 DEF Tallied
  <2>2. Cardinality(RowsOf(new, k)) = 0
    BY <1>3, <2>1, FS_EmptySet
  <2>3. 0 # New
    OBVIOUS
  <2>4. QED
    BY <2>1, <2>2, <2>3, <1>3 DEF Above
 <1>5. CASE k = m /\ v = Gone
  <2>1. new.board[k] = Gone /\ Gone # New
    BY <1>1, <1>2, <1>5
  <2>2. QED
    BY <2>1 DEF Exists
 <1>6. CASE k # m
  <2>1. new.board[k] = rows.board[k] /\ (Exists(new, k) <=> Exists(rows, k))
    BY <1>1, <1>2, <1>6 DEF Exists
  <2>2. Above(new, {}, k) = Above(rows, {}, k)
    BY <1>3, <2>1 DEF Above
  <2>3. QED
    BY <1>3, <2>1, <2>2 DEF Tallied
 <1>7. QED
   BY <1>4, <1>5, <1>6

-----------------------------------------------------------------------------
(* The praise counters: what the handlers do to the tally *)

(* Whoever begins owes nothing. *)
LEMMA NothingOwed ==
  ASSUME web.at # "praise"
  PROVE  Owed = {}
  BY DEF Owed

(* A commit that changes addresses only. *)
LEMMA CommitKeepsTally ==
  ASSUME PraiseInv, web.at # "praise", web'.at # "praise", uncounted' = uncounted,
         NEW rows, Commit(rows), rows.praises = tx.praises, rows.board = tx.board
  PROVE  PraiseInv'
 <1>1. Owed = {} /\ Owed' = {}
   BY DEF Owed
 <1>2. Tallied(rows, {}, uncounted)
   BY <1>1, TalliedSame DEF PraiseInv
 <1>3. QED
   BY <1>1, <1>2 DEF PraiseInv, Commit

(* A rollback; what was owed goes unpaid. *)
LEMMA RollbackKeepsTally ==
  ASSUME TypeOK, PraiseInv, Close \/ FlushFails, web'.at # "praise",
         uncounted' = uncounted \cup Owed
  PROVE  PraiseInv'
 <1>1. Owed' = {} /\ db' = db /\ tx' = db
   BY DEF Owed, Close, FlushFails
 <1>2. Tallied(db, {}, uncounted')
  <2>1. CASE web.at = "praise"
   <3>1. web.what \in Message /\ Owed = {web.what}
     BY <2>1 DEF TypeOK, Idle, Owed
   <3>2. QED
     BY <3>1, TalliedForgotten DEF PraiseInv, TypeOK
  <2>2. CASE web.at # "praise"
    BY <2>2 DEF PraiseInv, Owed
  <2>3. QED
    BY <2>1, <2>2
 <1>3. QED
   BY <1>1, <1>2 DEF PraiseInv

LEMMA PraiseKeepsTally ==
  ASSUME TypeOK, PraiseInv, PraiseStep
  PROVE  PraiseInv'
 <1>1. ASSUME NEW u \in User, NEW m \in Message, Praise(u, m) PROVE PraiseInv'
  <2>1. Owed = {} /\ Owed' = {m} /\ web' = [at |-> "praise", who |-> u, what |-> m]
    BY <1>1 DEF Praise, Begin, Owed
  <2>2. db' = Counted(tx, m, 1) /\ tx' = db' /\ uncounted' = uncounted
    BY <1>1 DEF Praise, Commit
  <2>3. Tallied(Counted(tx, m, 1), {m}, uncounted)
    BY <1>1, <2>1, TalliedCounted DEF Praise, PraiseInv, TypeOK
  <2>4. <<u, m>> \notin db'.praises
    BY <1>1, <2>2, CountedTyped DEF Praise, TypeOK
  <2>5. QED
    BY <2>1, <2>2, <2>3, <2>4 DEF PraiseInv
 <1>2. ASSUME NEW u \in User, NEW m \in Message, Unpraise(u, m) PROVE PraiseInv'
  <2>1. Owed = {} /\ Owed' = {} /\ web'.at # "praise"
    BY <1>2 DEF Unpraise, Begin, Owed
  <2>2. Tallied(tx', {}, uncounted)
    BY <1>2, <2>1, TalliedUndone DEF Unpraise, PraiseInv, TypeOK
  <2>3. QED
    BY <1>2, <2>1, <2>2 DEF Unpraise, PraiseInv
 <1>3. ASSUME NEW u \in User, NEW m \in Message, UnpraiseFails(u, m) PROVE PraiseInv'
  <2>1. Owed = {} /\ Owed' = {} /\ web'.at # "praise"
    BY <1>3 DEF UnpraiseFails, Begin, Owed
  <2>2. Tallied(tx', {}, uncounted')
    BY <1>3, <2>1, TalliedUndone DEF UnpraiseFails, PraiseInv, TypeOK
  <2>3. Tallied(db, {}, uncounted')
    BY <1>3, <2>1, TalliedMonotone DEF UnpraiseFails, PraiseInv
  <2>4. QED
    BY <1>3, <2>1, <2>2, <2>3 DEF UnpraiseFails, PraiseInv
 <1>4. CASE PraiseRow
  <2>1. web.who \in User /\ web.what \in Message /\ Owed = {web.what}
    BY <1>4 DEF PraiseRow, TypeOK, Idle, Owed
  <2>2. Tallied(db', {}, uncounted)
    BY <1>4, <2>1, TalliedStored DEF PraiseRow, PraiseInv, TypeOK
  <2>3. Owed' = {} /\ web'.at # "praise" /\ tx' = db' /\ uncounted' = uncounted
    BY <1>4 DEF PraiseRow, Owed, Idle
  <2>4. QED
    BY <2>2, <2>3 DEF PraiseInv
 <1>5. CASE PraiseRowFails
   BY <1>5, RollbackKeepsTally DEF PraiseRowFails, Owed, Idle
 <1>6. QED
   BY <1>1, <1>2, <1>3, <1>4, <1>5 DEF PraiseStep

LEMMA BoardKeepsTally ==
  ASSUME TypeOK, PraiseInv, BoardStep
  PROVE  PraiseInv'
 <1>1. PICK m \in Message, v \in {0, Gone} :
         /\ v = 0 => tx.board[m] = New
         /\ Commit([tx EXCEPT !.board[m] = v])
  <2>1. PICK m \in Message : PostMessage(m) \/ DeleteMessage(m)
    BY DEF BoardStep
  <2>2. CASE PostMessage(m)
    BY <2>2 DEF PostMessage
  <2>3. CASE DeleteMessage(m)
   <3>1. Gone # 0
     OBVIOUS
   <3>2. QED
     BY <2>3, <3>1 DEF DeleteMessage
  <2>4. QED
    BY <2>1, <2>2, <2>3
 <1>2. Owed = {} /\ Owed' = {} /\ web'.at # "praise" /\ uncounted' = uncounted
   BY DEF BoardStep, PostMessage, DeleteMessage, Begin, Owed
 <1>3. Tallied([tx EXCEPT !.board[m] = v], {}, uncounted)
   BY <1>1, <1>2, TalliedBoard DEF PraiseInv, TypeOK
 <1>4. QED
   BY <1>1, <1>2, <1>3 DEF PraiseInv, Commit

LEMMA AddressKeepsTally ==
  ASSUME TypeOK, PraiseInv, AddressStep
  PROVE  PraiseInv'
 <1>0. ASSUME NEW a, NEW v
       PROVE  /\ [tx EXCEPT !.flag[a] = v].praises = tx.praises
              /\ [tx EXCEPT !.flag[a] = v].board = tx.board
   BY DEF TypeOK, Rows
 <1>1. ASSUME NEW op \in {"add", "update"}, NEW a \in Address, NEW d \in {0, 1},
              StoreAddress(op, a, d)
       PROVE  PraiseInv'
  <2>1. Owed = {} /\ Owed' = {} /\ web'.at # "praise"
    BY <1>1 DEF StoreAddress, Begin, Owed
  <2>2. QED
    BY <1>1, <2>1 DEF StoreAddress, PraiseInv
 <1>2. CASE ClearDefault
  <2>1. PICK a \in web.clear :
          /\ Commit([tx EXCEPT !.flag[a] = 0])
          /\ web' = [web EXCEPT !.clear = @ \ {a}]
    BY <1>2 DEF ClearDefault
  <2>2. web'.at = web.at
    BY <1>2, <2>1 DEF ClearDefault, TypeOK, Idle
  <2>3. QED
    BY <1>0, <1>2, <2>1, <2>2, CommitKeepsTally DEF ClearDefault
 <1>3. CASE WriteAddress
   BY <1>0, <1>3, CommitKeepsTally DEF WriteAddress, Idle
 <1>4. CASE ClearFails \/ WriteFails
  <2>1. /\ Close \/ FlushFails
        /\ web.at # "praise" /\ web'.at # "praise" /\ uncounted' = uncounted
    BY <1>4 DEF ClearFails, WriteFails, Idle
  <2>2. QED
    BY <2>1, NothingOwed, RollbackKeepsTally
 <1>5. ASSUME NEW a \in Address, DeleteAddress(a) PROVE PraiseInv'
   BY <1>0, <1>5, CommitKeepsTally DEF DeleteAddress, Begin
 <1>6. QED
   BY <1>1, <1>2, <1>3, <1>4, <1>5 DEF AddressStep

LEMMA OtherKeepsTally ==
  ASSUME TypeOK, PraiseInv, OtherCommits \/ OtherCloses \/ OtherFails \/ Crash
  PROVE  PraiseInv'
 <1>1. CASE OtherCommits
   BY <1>1, CommitKeepsTally DEF OtherCommits, Begin
 <1>2. CASE OtherCloses \/ OtherFails
  <2>1. /\ Close \/ FlushFails
        /\ web.at # "praise" /\ web'.at # "praise" /\ uncounted' = uncounted
    BY <1>2 DEF OtherCloses, OtherFails, Begin
  <2>2. QED
    BY <2>1, NothingOwed, RollbackKeepsTally
 <1>3. CASE Crash
  <2>1. uncounted' = uncounted \cup Owed /\ web'.at # "praise" /\ Close
    BY <1>3 DEF Crash, Owed, Idle
  <2>2. QED
    BY <2>1, RollbackKeepsTally
 <1>4. QED
   BY <1>1, <1>2, <1>3

LEMMA NextTallied == TypeOK /\ PraiseInv /\ [Next]_vars => PraiseInv'
 <1> SUFFICES ASSUME TypeOK, PraiseInv, [Next]_vars PROVE PraiseInv'
   OBVIOUS
 <1>1. CASE UNCHANGED vars
   BY <1>1 DEF vars, PraiseInv, Owed
 <1>2. QED
   BY <1>1, PraiseKeepsTally, BoardKeepsTally, AddressKeepsTally, OtherKeepsTally DEF Next

LEMMA TalliedIsCounted == TypeOK /\ PraiseInv => PraiseCounted
 <1> SUFFICES ASSUME TypeOK, PraiseInv, NEW rows \in {db, tx}, NEW m \in Message, Exists(rows, m)
     PROVE LET above == rows.board[m] - Cardinality(RowsOf(rows, m))
           IN /\ above >= 0
              /\ above > 0 => m \in uncounted \/ (web.at = "praise" /\ web.what = m)
   BY DEF PraiseCounted
 <1>1. rows \in Rows /\ Tallied(rows, Owed, uncounted)
   BY DEF TypeOK, PraiseInv
 <1>2. rows.board[m] \in Int /\ Cardinality(RowsOf(rows, m)) \in Nat
   BY <1>1, BoardNumber, RowsFinite, RowsOfUsers
 <1>3. m \in Owed <=> web.at = "praise" /\ web.what = m
   BY DEF Owed
 <1>4. QED
   BY <1>1, <1>2, <1>3 DEF Tallied, Above

(* The counter of a message is never below its praises, and above them     *)
(* only while one is stored or after a handler ended half-way, whoever     *)
(* commits what another one left in the session (GetPraiseHandler).        *)
THEOREM PraisesCounted == Spec => []PraiseCounted
 <1>1. Init => PraiseInv
  <2> SUFFICES ASSUME Init PROVE PraiseInv
    OBVIOUS
  <2>1. Owed = {} /\ web.at # "praise"
    BY DEF Init, Idle, Owed
  <2>2. ASSUME NEW m \in Message
        PROVE  db.board[m] = New /\ RowsOf(db, m) = {} /\ ~Exists(db, m)
    BY DEF Init, RowsOf, Exists
  <2>3. QED
    BY <2>1, <2>2 DEF Init, PraiseInv, Tallied
 <1>2. QED
   BY <1>1, NextTallied, TalliedIsCounted, TypeCorrect, PTL DEF Spec
=============================================================================
