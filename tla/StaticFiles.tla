------------------------------ MODULE StaticFiles -----------------------------
(***************************************************************************)
(* tornado.web.StaticFileHandler: one file, that may be rewritten, its     *)
(* hash in _static_hashes, and GET requests for it, one after the other,   *)
(* with a Range or with the validators of a copy that some client has.     *)
(*                                                                         *)
(* A byte is the pair of the file's version and its position; the body is  *)
(* sent in chunks (of 64 KB in the code), and the loop runs others between *)
(* them.  A range is what its header says, before and after the "-".       *)
(***************************************************************************)
EXTENDS Integers, Sequences, FiniteSets

CONSTANTS
  MaxSize,       \* bound of the size
  Chunk,         \* chunk_size
  MaxVersion,    \* bound of the rewritings
  MaxGets        \* bound of the requests

VARIABLES
  file,       \* its version, size and modification time in seconds
  hash,       \* the version in _static_hashes; None if it is not there
  copies,     \* what clients have: etag, modified, and the true version
  gets,       \* requests that came
  r           \* the request

vars == <<file, hash, copies, gets, r>>

None == 0 - (MaxSize + 2)     \* not an offset
Offsets == {None} \cup 0..(MaxSize + 1)

NoRequest == [phase |-> "none"]

Init ==
  /\ \E n \in 0..MaxSize : file = [version |-> 1, size |-> n, time |-> 0]
  /\ hash = None /\ copies = {} /\ gets = 0 /\ r = NoRequest

-----------------------------------------------------------------------------
(* Ranges *)

(* _parse_request_range: start and end as for a slice. *)
ParseRequestRange(a, b) ==
  IF b = None THEN [start |-> a, end |-> None]
  ELSE IF a = None THEN (IF b = 0 THEN [start |-> None, end |-> 0]
                                  ELSE [start |-> 0 - b, end |-> None])
  ELSE [start |-> a, end |-> b + 1]

Or(x, y) == IF x \in {None, 0} THEN y ELSE x

(* What get() makes of a range for a file of this size: its answer, where  *)
(* the content begins and ends, and how long it is to be.                  *)
Ranged(g, size) ==
  LET start == IF g.start # None /\ g.start < 0 THEN g.start + size ELSE g.start
      end == IF g.end # None /\ g.end > size THEN size ELSE g.end
  IN IF (g.start # None /\ g.start >= size) \/ g.end = 0
     THEN [status |-> 416, start |-> None, end |-> None, length |-> 0]
     ELSE [ status |-> IF size # Or(end, size) - Or(start, 0) THEN 206 ELSE 200,
            start |-> start, end |-> end,
            length |-> (IF end # None THEN end ELSE size) - (IF start # None THEN start ELSE 0) ]

Unranged(size) == [status |-> 200, start |-> None, end |-> None, length |-> size]

-----------------------------------------------------------------------------
(* The file and its requests *)

(* Another process rewrites the file, in the same second or later. *)
Rewrite ==
  /\ file.version < MaxVersion
  /\ \E n \in 0..MaxSize, t \in {file.time, file.time + 1} :
       file' = [version |-> file.version + 1, size |-> n, time |-> t]
  /\ r' = IF r.phase = "none" THEN r ELSE [r EXCEPT !.rewritten = TRUE]
  /\ UNCHANGED <<hash, copies, gets>>

(* _get_cached_version. *)
CachedVersion == IF hash = None THEN file.version ELSE hash

(* should_return_304, for the validators of a copy. *)
NotModified(c) == c.etag = CachedVersion \/ c.modified >= file.time

(* get() up to its first chunk: headers, 304, range and length are all of  *)
(* one stat. *)
Started(a, b, c, answer) ==
  [ phase |-> "body", a |-> a, b |-> b, copy |-> c,
    status |-> answer.status, length |-> answer.length,
    pos |-> IF answer.start = None THEN 0 ELSE answer.start,
    left |-> IF answer.end = None THEN None
             ELSE answer.end - (IF answer.start = None THEN 0 ELSE answer.start),
    etag |-> CachedVersion, modified |-> file.time,
    asked |-> file,         \* the file as it was
    headed |-> FALSE,       \* headers are written
    body |-> <<>>,
    rewritten |-> FALSE, gone |-> FALSE ]  \* the file was, the client is

NoCopy == [etag |-> None, modified |-> -1, version |-> None]

Get(a, b, c) ==
  /\ r.phase = "none" /\ gets < MaxGets
  /\ gets' = gets + 1
  /\ hash' = CachedVersion
  /\ LET answer == IF a = None /\ b = None THEN Unranged(file.size)
                   ELSE Ranged(ParseRequestRange(a, b), file.size)
         s == Started(a, b, c, answer)
     IN r' = CASE NotModified(c) -> [s EXCEPT !.phase = "complete", !.status = 304, !.length = 0]
               [] ~NotModified(c) /\ answer.status = 416 -> [s EXCEPT !.phase = "complete"]
               [] ~NotModified(c) /\ answer.status # 416 -> s
  /\ UNCHANGED <<file, copies>>

(* Fault for the mutants: what is left is not looked at. *)
WholeChunk == Chunk

(* The size of the next read; one that is negative reads all there is. *)
ChunkSize == IF r.left # None /\ r.left < Chunk THEN r.left ELSE Chunk

Size(n) == IF n < 0 THEN MaxSize ELSE n

Bytes ==
  LET n == Size(ChunkSize)
      last == IF r.pos + n <= file.size THEN r.pos + n ELSE file.size
  IN IF last <= r.pos THEN <<>>
     ELSE [i \in 1..(last - r.pos) |-> <<file.version, r.pos + i - 1>>]

(* An exception: 500 if nothing was sent, else finish() is tried, and the  *)
(* connection closed if that is too early.                                 *)
Fails(s) ==
  [s EXCEPT !.phase = IF ~s.headed \/ Len(s.body) = s.length THEN "complete" ELSE "closed",
            !.status = IF s.headed THEN @ ELSE 500,
            !.length = IF s.headed THEN @ ELSE 0]

(* Another chunk is read, written and flushed.  What is more than the      *)
(* length that was promised closes the connection, and so does the end of  *)
(* the response if it is less.                                             *)
NextChunk ==
  /\ r.phase = "body"
  /\ r' = IF r.pos < 0 THEN Fails(r)
          ELSE IF Bytes # <<>>
          THEN IF Len(r.body) + Len(Bytes) > r.length
               THEN [r EXCEPT !.phase = "closed", !.headed = TRUE]
               ELSE [r EXCEPT !.body = @ \o Bytes, !.pos = @ + Len(Bytes), !.headed = TRUE,
                              !.left = IF @ = None THEN None ELSE @ - Len(Bytes)]
          ELSE IF r.left \notin {None, 0} THEN Fails(r)
          ELSE [r EXCEPT !.phase = IF Len(r.body) = r.length THEN "complete" ELSE "closed",
                         !.headed = TRUE]
  /\ UNCHANGED <<file, hash, copies, gets>>

(* The client is gone: flush() raises StreamClosedError. *)
ClientGone ==
  /\ r.phase = "body"
  /\ r' = [r EXCEPT !.phase = "closed", !.gone = TRUE]
  /\ UNCHANGED <<file, hash, copies, gets>>

(* The client keeps what it was given, if it was all. *)
Received ==
  /\ r.phase \in {"complete", "closed"}
  /\ r' = NoRequest
  /\ copies' = IF r.phase = "complete" /\ r.status = 200 /\ ~r.rewritten
               THEN copies \cup {[etag |-> r.etag, modified |-> r.modified,
                                  version |-> r.asked.version]}
               ELSE copies
  /\ UNCHANGED <<file, hash, gets>>

Next ==
  \/ Rewrite \/ NextChunk \/ ClientGone \/ Received
  \/ \E a, b \in Offsets : Get(a, b, NoCopy)
  \/ \E c \in copies : Get(None, None, c)

Spec == Init /\ [][Next]_vars

-----------------------------------------------------------------------------
(* The types of the variables. *)
TypeOK ==
  /\ file.version \in 1..MaxVersion /\ file.size \in 0..MaxSize
  /\ hash \in {None} \cup 1..file.version /\ gets \in 0..MaxGets
  /\ r.phase \in {"none", "body", "complete", "closed"}
  /\ r.phase # "none" => r.status \in {200, 206, 304, 416, 500}

(* What a header asks for, as RFC 7233 defines it.  *)
ValidRange(a, b) == IF a = None THEN b # None ELSE b = None \/ b >= a

Wanted(a, b, size) ==
  { i \in 0..(size - 1) :
      \/ a = None /\ b = None
      \/ a # None /\ i >= a /\ (b = None \/ i <= b)
      \/ a = None /\ b # None /\ i >= size - b }

(* A valid range of a file that is not rewritten meanwhile is answered by  *)
(* just its bytes, in their order, with 206 if they are not all, and with  *)
(* 416 if there are none.  A suffix that is longer than the file is not:   *)
(* it is answered by 500, the seek being to before the file.               *)
RangeExact ==
  r.phase = "complete" /\ ~r.rewritten /\ r.status # 304 /\ (ValidRange(r.a, r.b) \/ r.b = None) =>
    LET wanted == Wanted(r.a, r.b, r.asked.size)
    IN IF r.a = None /\ r.b # None /\ r.b > r.asked.size
       THEN r.status = 500
       ELSE IF wanted = {} /\ ~(r.a = None /\ r.b = None) THEN r.status = 416
       ELSE /\ {r.body[i][2] : i \in DOMAIN r.body} = wanted
            /\ \A i \in DOMAIN r.body : r.body[i][2] = r.body[1][2] + i - 1
            /\ r.status = IF Cardinality(wanted) = r.asked.size THEN 200 ELSE 206

(* Whatever becomes of the file while it is sent, a response that is not   *)
(* cut off by a close has the length that was promised; and it is cut off  *)
(* only if the file was rewritten, or the range ends before it begins.     *)
AsPromised ==
  /\ r.phase = "complete" => Len(r.body) = r.length
  /\ r.phase = "closed" => r.gone \/ r.rewritten \/ (r.b # None /\ ~ValidRange(r.a, r.b))

(* A client is told "not modified" only if the file is what it has a copy  *)
(* of, or was rewritten in the second of that copy, or since its hash was  *)
(* taken (the hash is never taken again).                                  *)
NotModifiedIsTrue ==
  r.phase = "complete" /\ r.status = 304 =>
    \/ r.copy.version = r.asked.version
    \/ r.copy.modified = r.asked.time
    \/ r.copy.etag = hash /\ hash < r.asked.version

StaticSound == RangeExact /\ AsPromised /\ NotModifiedIsTrue

(* "if an invalid Range header is specified, the request will be treated   *)
(* as if the header didn't exist" (a comment of get): so all of the file   *)
(* is what the response promises.  Here it is one that begins in the file. *)
InvalidRangeIgnored ==
  r.phase # "none" /\ ~r.rewritten /\ r.b # None /\ ~ValidRange(r.a, r.b) /\ r.a < r.asked.size =>
    r.status = 200 /\ r.length = r.asked.size
=============================================================================
