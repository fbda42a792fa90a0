----------------------------- MODULE StreamBuffers -----------------------------
(***************************************************************************)
(* _StreamBuffer, what a stream has still to write: a queue of bytes in    *)
(* pieces.  Small pieces are put together in one bytearray, large ones are *)
(* kept as they are; the first may be written in part.  Bytes are numbered *)
(* in the order they are appended.                                         *)
(***************************************************************************)
EXTENDS Integers, Sequences, Functions

CONSTANTS
  Large,         \* _large_buf_threshold, 2048 in the code
  MaxBytes       \* bound of the bytes that are appended

VARIABLES
  buffers,       \* of pieces: [large, bytes]
  first,         \* _first_pos, how much of the first piece is written
  size,          \* _size
  appended, advanced  \* bytes appended, and bytes written, so far

vars == <<buffers, first, size, appended, advanced>>

Init == buffers = <<>> /\ first = 0 /\ size = 0 /\ appended = 0 /\ advanced = 0

-----------------------------------------------------------------------------

Piece(n) == [large |-> n > Large, bytes |-> [i \in 1..n |-> appended + i]]

(* A small piece joins the last one if that is a bytearray and not too     *)
(* long already.                                                           *)
AppendData(n) ==
  LET last == buffers[Len(buffers)]
      Joins == n <= Large /\ buffers # <<>> /\ ~last.large /\ Len(last.bytes) < Large
  IN /\ appended + n <= MaxBytes
     /\ buffers' = IF n = 0 THEN buffers
                   ELSE IF Joins
                   THEN [buffers EXCEPT ![Len(buffers)].bytes = @ \o Piece(n).bytes]
                   ELSE Append(buffers, Piece(n))
     /\ size' = size + n /\ appended' = appended + n
     /\ UNCHANGED <<first, advanced>>

(* At most n bytes, those of the first piece.                              *)
Peek(n) ==
  IF buffers = <<>> THEN <<>>
  ELSE LET b == buffers[1].bytes
       IN SubSeq(b, first + 1, IF first + n < Len(b) THEN first + n ELSE Len(b))

(* Fault for the mutants: the position is left where it was in the piece.  *)
DropWhole(k) == [buffers |-> SubSeq(buffers, k + 1, Len(buffers)), first |-> first]

(* Pieces that are written leave: here the first k.                        *)
Drop(k) == [buffers |-> SubSeq(buffers, k + 1, Len(buffers)),
            first |-> IF k = 0 THEN first ELSE 0]

(* The bytes in the first k pieces, and those of them that are not written. *)
Upto(k) == SumFunctionOnSet([i \in DOMAIN buffers |-> Len(buffers[i].bytes)], 1..k)
LengthOf(k) == Upto(k) - first

(* The piece after those that are written is written in part.  A bytearray *)
(* gives up its beginning when that is half of it or more.                 *)
Shrink(b, n) ==
  LET pos == b.first + n
      p == b.buffers[1]
  IN IF n = 0 THEN b
     ELSE IF p.large \/ Len(p.bytes) > 2 * pos THEN [b EXCEPT !.first = pos]
     ELSE [buffers |-> [b.buffers EXCEPT ![1].bytes = SubSeq(@, pos + 1, Len(@))], first |-> 0]

Advance(n) ==
  /\ n > 0 /\ n <= size
  /\ LET whole == {k \in 1..Len(buffers) : LengthOf(k) <= n}
         k == IF whole = {} THEN 0 ELSE CHOOSE x \in whole : \A y \in whole : y <= x
         b == Shrink(Drop(k), IF k = 0 THEN n ELSE n - LengthOf(k))
     IN buffers' = b.buffers /\ first' = b.first
  /\ size' = size - n /\ advanced' = advanced + n
  /\ UNCHANGED appended

Next == \E n \in 0..MaxBytes : AppendData(n) \/ Advance(n)

Spec == Init /\ [][Next]_vars

-----------------------------------------------------------------------------

TypeOK ==
  /\ first \in 0..MaxBytes /\ size \in 0..MaxBytes
  /\ 0 <= advanced /\ advanced <= appended /\ appended <= MaxBytes
  /\ \A i \in 1..Len(buffers) : buffers[i].large \in BOOLEAN

(* The pieces hold the bytes that were appended and are not written, in    *)
(* order, and size counts them; what peek gives is where they begin, and   *)
(* is something as long as there is anything (append, peek and advance,    *)
(* iostream.py 140-207).                                                   *)
BytesInOrder ==
  /\ size = appended - advanced /\ first + size = Upto(Len(buffers))
  /\ \A i \in DOMAIN buffers : \A j \in DOMAIN buffers[i].bytes :
       buffers[i].bytes[j] = advanced - first + Upto(i - 1) + j
  /\ \A n \in 1..MaxBytes :
       /\ \A i \in 1..Len(Peek(n)) : Peek(n)[i] = advanced + i
       /\ Len(Peek(n)) <= n /\ (size > 0 => Peek(n) # <<>>)

(* What was written is not kept: it is less than half of a bytearray, and  *)
(* less than the whole of a large piece; bytearrays stay short.            *)
WrittenIsFreed ==
  /\ buffers = <<>> => first = 0
  /\ buffers # <<>> =>
       first < Len(buffers[1].bytes) /\ (first > 0 /\ ~buffers[1].large => 2 * first < Len(buffers[1].bytes))
  /\ \A i \in 1..Len(buffers) : ~buffers[i].large => Len(buffers[i].bytes) < 2 * Large

BufferSound == BytesInOrder /\ WrittenIsFreed
=============================================================================
