--------------------------- MODULE Tornado_proofs ---------------------------
(***************************************************************************)
(* Proofs about parts of Tornado, each for any values of its constants.    *)
(* Every theorem is about the specification of one part, which is taken    *)
(* under its letter of MCParts.  The parts do not touch each other: each   *)
(* section first names the variables of its part, and a constant or a      *)
(* variable that several parts have carries the letter of its part here.   *)
(***************************************************************************)
EXTENDS Sums, Integers, Sequences, FiniteSets, FiniteSetTheorems, TLAPS

CONSTANTS Acquire, Backlog, Chunk, EventWait, Expires, Futures, GCAfterCn,
          GCAfterSm, Keys, MaxAge, MaxBodyH, MaxBodyY, MaxCallsD, MaxChunks,
          MaxClear, MaxConns, MaxExtra, MaxFramesWe, MaxGets, MaxInitial,
          MaxRequests, MaxRestarts, MaxSize, MaxTimeCo, MaxToken, MaxVersion,
          MaxYields, Page, PidD, PidJ, Sock, Subproc, Tasks, Wait

VARIABLES v1, v2, v3, v4, v5, v6, v7, v8, v9, v10, v11, v12, v13, v14, v15, v16, v17

-----------------------------------------------------------------------------
(* The serving loop of a connection                                        *)

H == INSTANCE HttpServing WITH
       MaxBody <- MaxBodyH, phase <- v1, req <- v2, stream <- v3, left <- v4,
       delegate <- v5, told <- v6, readDone <- v7, writeDone <- v8,
       disconnect <- v9, finished <- v10, write <- v11, hooked <- v12,
       events <- v13, served <- v14

(* Its variables. *)
phase == v1
req == v2
stream == v3
leftH == v4
delegate == v5
toldH == v6
readDone == v7
writeDone == v8
disconnect == v9
finished == v10
write == v11
hooked == v12
eventsH == v13
servedH == v14

USE DEF phase, req, stream, leftH, delegate, toldH, readDone, writeDone, disconnect,
        finished, write, hooked, eventsH, servedH

Events == {"write", "close"}

(* What the delegate was told last, at each place of the loop. *)
ToldByPhase ==
  /\ toldH = IF delegate \in {"none", "open"} THEN 0 ELSE 1
  /\ phase = "headers" => delegate = "none"
  /\ phase = "bad" => delegate \in {"none", "open"}
  /\ phase \in {"received", "body", "chunk"} => delegate = "open"
  /\ phase = "respond" => delegate \in {"open", "finished"}
  /\ phase = "finish" => delegate = "finished"
  /\ phase = "between" => delegate \in {"finished", "closed"}
  /\ phase = "ended" /\ stream # "detached" => delegate # "open"

(* A stream is detached under the delegate's hands, or left behind. *)
DetachedApart == stream = "detached" => phase \in {"received", "ended"}

(* Where the loop waits, or has waited, for the response, it has read all  *)
(* of the request.                                                         *)
ReadByPhase == phase \in {"finish", "respond", "between"} \/ delegate = "finished" => readDone

(* Nobody waits any more on an open stream only if all is written; and the *)
(* loop goes on if nobody waits, or nobody is there to read.               *)
NobodyLeft ==
  /\ finished /\ stream = "open" => writeDone /\ write # "pending"
  /\ phase = "between" => finished \/ stream # "open"

(* The loop hears of a close while it waits; what the stream has to call   *)
(* comes of a close.                                                       *)
Hearing ==
  /\ phase = "respond" /\ ~finished => hooked
  /\ eventsH # <<>> => stream # "open"

ServingInv ==
  /\ H!TypeOK
  /\ ToldByPhase /\ DetachedApart /\ ReadByPhase /\ NobodyLeft /\ Hearing
  /\ H!NoStreamLeaks /\ H!NotLeftWaiting

LEMMA ServingInvImplies == ServingInv => H!ServingSound
  BY DEF ServingInv, H!TypeOK, ToldByPhase, DetachedApart, ReadByPhase, H!ServingSound,
     H!DelegateToldOnce, H!NoStreamLeaks, H!NotLeftWaiting

-----------------------------------------------------------------------------
(* How a stream closes. *)

(* A close callback is queued last, and nothing on a stream that is closed. *)
LEMMA CloseQueues ==
  ASSUME eventsH \in Seq(Events), NEW calls \in BOOLEAN, H!CloseStream(calls)
  PROVE  /\ eventsH' \in Seq(Events)
         /\ stream # "open" => eventsH' = eventsH
         /\ stream = "open" /\ calls => \E i \in DOMAIN eventsH' : eventsH'[i] = "close"
 <1> DEFINE fails == IF write = "pending" THEN <<"write">> ELSE <<>>
            close == IF calls THEN <<"close">> ELSE <<>>
 <1>1. fails \in Seq(Events) /\ close \in Seq(Events)
  <2>1. <<"write">> \in Seq(Events) /\ <<"close">> \in Seq(Events) /\ <<>> \in Seq(Events)
    BY DEF Events
  <2>2. QED
    BY <2>1
 <1>2. CASE stream # "open"
   BY <1>2 DEF H!CloseStream
 <1>3. CASE stream = "open"
  <2>1. eventsH' = (eventsH \o fails) \o close
    BY <1>3 DEF H!CloseStream
  <2> HIDE DEF fails
  <2>2. eventsH \o fails \in Seq(Events)
    BY <1>1
  <2>3. eventsH' \in Seq(Events)
    BY <1>1, <2>1, <2>2
  <2>4. ASSUME calls
        PROVE  LET i == Len(eventsH \o fails) + 1 IN i \in DOMAIN eventsH' /\ eventsH'[i] = "close"
    BY <1>1, <2>1, <2>2, <2>4
  <2>5. QED
    BY <1>3, <2>3, <2>4
 <1>4. QED
   BY <1>2, <1>3

(* A stream that was open is closed, and its pending write has failed. *)
LEMMA StreamIsClosed ==
  ASSUME H!TypeOK, NEW calls, H!CloseStream(calls)
  PROVE  /\ stream' = (IF stream = "open" THEN "closed" ELSE stream)
         /\ write' = (IF write = "pending" THEN "failed" ELSE write)
         /\ stream' \in {"closed", "detached"}
         /\ write' \in {"none", "done", "failed"}
  BY DEF H!TypeOK, H!CloseStream

(* The delegate is told once more, or nothing changes for it. *)
LEMMA TellCases ==
  ASSUME H!TellIfOpen
  PROVE  \/ delegate = "open" /\ delegate' = "closed" /\ toldH' = toldH + 1
         \/ delegate # "open" /\ delegate' = delegate /\ toldH' = toldH
  BY DEF H!TellIfOpen, H!TellClosed

(* What comes after the body. *)
LEMMA AwaitCases ==
  ASSUME H!AwaitResponse
  PROVE  \/ phase' = "between" /\ hooked' = FALSE /\ (finished \/ stream # "open")
         \/ phase' = "respond" /\ hooked' = TRUE /\ ~finished /\ stream = "open"
  BY DEF H!AwaitResponse

LEMMA BodyReadCases ==
  ASSUME H!BodyRead
  PROVE  /\ readDone' = TRUE
         /\ \/ /\ phase' = "finish" /\ delegate' = "finished" /\ toldH' = toldH + 1
               /\ hooked' = hooked
            \/ /\ phase' = "between" /\ delegate' = "closed" /\ toldH' = toldH + 1
               /\ hooked' = FALSE /\ (finished \/ stream # "open")
            \/ /\ phase' = "respond" /\ delegate' = delegate /\ toldH' = toldH
               /\ hooked' = TRUE /\ ~finished /\ stream = "open"
 <1>1. CASE writeDone
  <2>1. H!AwaitResponse
    BY <1>1 DEF H!BodyRead
  <2>2. QED
    BY <1>1, <2>1, AwaitCases DEF H!BodyRead, H!TellClosed
 <1>2. CASE ~writeDone
   BY <1>2 DEF H!BodyRead
 <1>3. QED
   BY <1>1, <1>2

-----------------------------------------------------------------------------
(* What a step of the loop may tell the delegate of a request whose body   *)
(* it reads.                                                               *)
LEMMA ReadCases ==
  ASSUME H!TypeOK, H!ReceivedReturns \/ H!ReadChunk \/ H!ChunkReturns
  PROVE  \/ delegate' = delegate /\ toldH' = toldH
            /\ phase' \in {phase, "ended", "body", "chunk", "respond"}
            /\ (phase' = "ended" => stream = "detached")
         \/ delegate' = "finished" /\ toldH' = toldH + 1 /\ phase' = "finish"
         \/ delegate' = "closed" /\ toldH' = toldH + 1 /\ phase' = "between"
 <1>1. CASE H!BodyRead
   BY <1>1, BodyReadCases
 <1>2. CASE H!ReceivedReturns /\ ~H!BodyRead
   BY <1>2 DEF H!ReceivedReturns, H!EndServing
 <1>3. CASE H!ReadChunk /\ ~H!BodyRead
   BY <1>3 DEF H!ReadChunk
 <1>4. CASE H!ChunkReturns /\ ~H!BodyRead
   BY <1>4 DEF H!ChunkReturns
 <1>5. QED
   BY <1>1, <1>2, <1>3, <1>4

(* The bounds of an instance. *)
ServingBounds == MaxRequests \in Nat \ {0} /\ MaxBodyH \in Nat

(* All but what the loop hears of a close. *)
Core == ToldByPhase /\ DetachedApart /\ ReadByPhase /\ NobodyLeft /\ H!NoStreamLeaks

LEMMA ServingTyped ==
  ASSUME ServingBounds, ServingInv, H!Next
  PROVE  H!TypeOK'
 <1> USE DEF ServingBounds, ServingInv, H!TypeOK, H!StreamStays, H!EndServing
 <1>1. CASE H!HeadersReceived
   BY <1>1 DEF H!HeadersReceived
 <1>2. CASE H!Malformed
   BY <1>2 DEF H!Malformed
 <1>3. CASE H!ReceivedReturns
  <2>1. phase' \in {"headers", "received", "body", "chunk", "finish", "bad", "respond",
                     "between", "ended"}
    BY <1>3, BodyReadCases DEF H!ReceivedReturns
  <2>2. req' \in 1..MaxRequests /\ leftH' \in 0..MaxBodyH /\ toldH' \in Nat
   <3>1. req' = req /\ leftH' = leftH
     BY <1>3 DEF H!ReceivedReturns
   <3>2. toldH' \in {toldH, toldH + 1}
     BY <1>3, ReadCases
   <3>3. QED
     BY <3>1, <3>2
  <2>3. /\ stream' \in {"open", "closed", "detached"}
        /\ delegate' \in {"none", "open", "finished", "closed"}
        /\ write' \in {"none", "pending", "done", "failed"}
    BY <1>3, BodyReadCases DEF H!ReceivedReturns
  <2>4. eventsH' \in Seq({"write", "close"})
    BY <1>3, BodyReadCases DEF H!ReceivedReturns
  <2>5. {readDone', writeDone', disconnect', finished', hooked', servedH'} \subseteq BOOLEAN
    BY <1>3, BodyReadCases DEF H!ReceivedReturns
  <2>6. QED
    BY <2>1, <2>2, <2>3, <2>4, <2>5
 <1>4. CASE H!ReadChunk
  <2>1. phase' \in {"headers", "received", "body", "chunk", "finish", "bad", "respond",
                     "between", "ended"}
    BY <1>4, BodyReadCases DEF H!ReadChunk
  <2>2. req' \in 1..MaxRequests /\ leftH' \in 0..MaxBodyH /\ toldH' \in Nat
    BY <1>4, ReadCases DEF H!ReadChunk
  <2>3. /\ stream' \in {"open", "closed", "detached"}
        /\ delegate' \in {"none", "open", "finished", "closed"}
        /\ write' \in {"none", "pending", "done", "failed"}
    BY <1>4, BodyReadCases DEF H!ReadChunk
  <2>4. eventsH' \in Seq({"write", "close"})
    BY <1>4, BodyReadCases DEF H!ReadChunk
  <2>5. {readDone', writeDone', disconnect', finished', hooked', servedH'} \subseteq BOOLEAN
    BY <1>4, BodyReadCases DEF H!ReadChunk
  <2>6. QED
    BY <2>1, <2>2, <2>3, <2>4, <2>5
 <1>5. CASE H!ChunkReturns
  <2>1. phase' \in {"headers", "received", "body", "chunk", "finish", "bad", "respond",
                     "between", "ended"}
    BY <1>5, BodyReadCases DEF H!ChunkReturns
  <2>2. req' \in 1..MaxRequests /\ leftH' \in 0..MaxBodyH /\ toldH' \in Nat
    BY <1>5, ReadCases DEF H!ChunkReturns
  <2>3. /\ stream' \in {"open", "closed", "detached"}
        /\ delegate' \in {"none", "open", "finished", "closed"}
        /\ write' \in {"none", "pending", "done", "failed"}
    BY <1>5, BodyReadCases DEF H!ChunkReturns
  <2>4. eventsH' \in Seq({"write", "close"})
    BY <1>5, BodyReadCases DEF H!ChunkReturns
  <2>5. {readDone', writeDone', disconnect', finished', hooked', servedH'} \subseteq BOOLEAN
    BY <1>5, BodyReadCases DEF H!ChunkReturns
  <2>6. QED
    BY <2>1, <2>2, <2>3, <2>4, <2>5
 <1>6. CASE H!FinishReturns
   BY <1>6, AwaitCases DEF H!FinishReturns
 <1>7. CASE H!BodyLost
  <2>1. phase' \in {"headers", "received", "body", "chunk", "finish", "bad", "respond",
                     "between", "ended"}
    BY <1>7, TellCases DEF H!BodyLost
  <2>2. req' \in 1..MaxRequests /\ leftH' \in 0..MaxBodyH /\ toldH' \in Nat
    BY <1>7, TellCases DEF H!BodyLost
  <2>3. /\ stream' \in {"open", "closed", "detached"}
        /\ delegate' \in {"none", "open", "finished", "closed"}
        /\ write' \in {"none", "pending", "done", "failed"}
    BY <1>7, TellCases DEF H!BodyLost
  <2>4. eventsH' \in Seq({"write", "close"})
    BY <1>7, TellCases DEF H!BodyLost
  <2>5. {readDone', writeDone', disconnect', finished', hooked', servedH'} \subseteq BOOLEAN
    BY <1>7, TellCases DEF H!BodyLost
  <2>6. QED
    BY <2>1, <2>2, <2>3, <2>4, <2>5
 <1>8. CASE H!Responded
  <2>1. phase' \in {"headers", "received", "body", "chunk", "finish", "bad", "respond",
                     "between", "ended"}
    BY <1>8, TellCases DEF H!Responded
  <2>2. req' \in 1..MaxRequests /\ leftH' \in 0..MaxBodyH /\ toldH' \in Nat
    BY <1>8, TellCases DEF H!Responded
  <2>3. /\ stream' \in {"open", "closed", "detached"}
        /\ delegate' \in {"none", "open", "finished", "closed"}
        /\ write' \in {"none", "pending", "done", "failed"}
    BY <1>8, TellCases DEF H!Responded
  <2>4. eventsH' \in Seq({"write", "close"})
    BY <1>8, TellCases DEF H!Responded
  <2>5. {readDone', writeDone', disconnect', finished', hooked', servedH'} \subseteq BOOLEAN
    BY <1>8, TellCases DEF H!Responded
  <2>6. QED
    BY <2>1, <2>2, <2>3, <2>4, <2>5
 <1>9. CASE H!NextRequest
  <2>1. phase' \in {"headers", "received", "body", "chunk", "finish", "bad", "respond",
                     "between", "ended"}
    BY <1>9 DEF H!NextRequest
  <2>2. req' \in 1..MaxRequests /\ leftH' \in 0..MaxBodyH /\ toldH' \in Nat
    BY <1>9 DEF H!NextRequest
  <2>3. /\ stream' \in {"open", "closed", "detached"}
        /\ delegate' \in {"none", "open", "finished", "closed"}
        /\ write' \in {"none", "pending", "done", "failed"}
    BY <1>9 DEF H!NextRequest
  <2>4. eventsH' \in Seq({"write", "close"})
    BY <1>9 DEF H!NextRequest
  <2>5. {readDone', writeDone', disconnect', finished', hooked', servedH'} \subseteq BOOLEAN
    BY <1>9 DEF H!NextRequest
  <2>6. QED
    BY <2>1, <2>2, <2>3, <2>4, <2>5
 <1>10. CASE H!Detach
   BY <1>10 DEF H!Detach
 <1>11. CASE H!Write
   BY <1>11 DEF H!Write, H!CanRespond
 <1>12. CASE H!Flushed
   BY <1>12 DEF H!Flushed
 <1>13. CASE H!StreamCalls
   BY <1>13 DEF H!StreamCalls
 <1>14. CASE H!NoHeaders
   BY <1>14, CloseQueues, StreamIsClosed DEF H!NoHeaders, H!Closing, Events
 <1>15. CASE H!HeaderTimeout
   BY <1>15, CloseQueues, StreamIsClosed DEF H!HeaderTimeout, H!CloseConnection, H!Closing, Events
 <1>16. CASE H!BadWritten
  <2>1. phase' \in {"headers", "received", "body", "chunk", "finish", "bad", "respond",
                     "between", "ended"}
    BY <1>16, CloseQueues, StreamIsClosed, TellCases DEF H!BadWritten, H!CloseConnection,
       H!Closing, Events
  <2>2. req' \in 1..MaxRequests /\ leftH' \in 0..MaxBodyH /\ toldH' \in Nat
    BY <1>16, CloseQueues, StreamIsClosed, TellCases DEF H!BadWritten, H!CloseConnection,
       H!Closing, Events
  <2>3. /\ stream' \in {"open", "closed", "detached"}
        /\ delegate' \in {"none", "open", "finished", "closed"}
        /\ write' \in {"none", "pending", "done", "failed"}
    BY <1>16, CloseQueues, StreamIsClosed, TellCases DEF H!BadWritten, H!CloseConnection,
       H!Closing, Events
  <2>4. eventsH' \in Seq({"write", "close"})
    BY <1>16, CloseQueues, StreamIsClosed, TellCases DEF H!BadWritten, H!CloseConnection,
       H!Closing, Events
  <2>5. {readDone', writeDone', disconnect', finished', hooked', servedH'} \subseteq BOOLEAN
    BY <1>16, CloseQueues, StreamIsClosed, TellCases DEF H!BadWritten, H!CloseConnection,
       H!Closing, Events
  <2>6. QED
    BY <2>1, <2>2, <2>3, <2>4, <2>5
 <1>17. CASE H!DelegateRaises
  <2>1. phase' \in {"headers", "received", "body", "chunk", "finish", "bad", "respond",
                     "between", "ended"}
    BY <1>17, CloseQueues, StreamIsClosed, TellCases DEF H!DelegateRaises, H!CloseConnection,
       H!Closing, Events
  <2>2. req' \in 1..MaxRequests /\ leftH' \in 0..MaxBodyH /\ toldH' \in Nat
    BY <1>17, CloseQueues, StreamIsClosed, TellCases DEF H!DelegateRaises, H!CloseConnection,
       H!Closing, Events
  <2>3. /\ stream' \in {"open", "closed", "detached"}
        /\ delegate' \in {"none", "open", "finished", "closed"}
        /\ write' \in {"none", "pending", "done", "failed"}
    BY <1>17, CloseQueues, StreamIsClosed, TellCases DEF H!DelegateRaises, H!CloseConnection,
       H!Closing, Events
  <2>4. eventsH' \in Seq({"write", "close"})
    BY <1>17, CloseQueues, StreamIsClosed, TellCases DEF H!DelegateRaises, H!CloseConnection,
       H!Closing, Events
  <2>5. {readDone', writeDone', disconnect', finished', hooked', servedH'} \subseteq BOOLEAN
    BY <1>17, CloseQueues, StreamIsClosed, TellCases DEF H!DelegateRaises, H!CloseConnection,
       H!Closing, Events
  <2>6. QED
    BY <2>1, <2>2, <2>3, <2>4, <2>5
 <1>18. CASE H!BodyTimeout
  <2>1. phase' \in {"headers", "received", "body", "chunk", "finish", "bad", "respond",
                     "between", "ended"}
    BY <1>18, CloseQueues, StreamIsClosed, TellCases DEF H!BodyTimeout, H!Closing, Events
  <2>2. req' \in 1..MaxRequests /\ leftH' \in 0..MaxBodyH /\ toldH' \in Nat
    BY <1>18, CloseQueues, StreamIsClosed, TellCases DEF H!BodyTimeout, H!Closing, Events
  <2>3. /\ stream' \in {"open", "closed", "detached"}
        /\ delegate' \in {"none", "open", "finished", "closed"}
        /\ write' \in {"none", "pending", "done", "failed"}
    BY <1>18, CloseQueues, StreamIsClosed, TellCases DEF H!BodyTimeout, H!Closing, Events
  <2>4. eventsH' \in Seq({"write", "close"})
    BY <1>18, CloseQueues, StreamIsClosed, TellCases DEF H!BodyTimeout, H!Closing, Events
  <2>5. {readDone', writeDone', disconnect', finished', hooked', servedH'} \subseteq BOOLEAN
    BY <1>18, CloseQueues, StreamIsClosed, TellCases DEF H!BodyTimeout, H!Closing, Events
  <2>6. QED
    BY <2>1, <2>2, <2>3, <2>4, <2>5
 <1>19. CASE H!WrongLength
   BY <1>19, CloseQueues, StreamIsClosed DEF H!WrongLength, H!Closing, H!CanRespond, Events
 <1>20. CASE H!StreamCloses
   BY <1>20, CloseQueues, StreamIsClosed DEF H!StreamCloses, H!Closing, Events
 <1>21. CASE H!Finish
   BY <1>21, CloseQueues, StreamIsClosed DEF H!Finish, H!FinishRequest, Events
 <1>22. QED
   BY <1>1, <1>2, <1>3, <1>4, <1>5, <1>6, <1>7, <1>8, <1>9, <1>10, <1>11, <1>12, <1>13, <1>14,
      <1>15, <1>16, <1>17, <1>18, <1>19, <1>20, <1>21 DEF H!Next

LEMMA CoreKept ==
  ASSUME ServingBounds, ServingInv, H!Next
  PROVE  Core'
 <1> USE DEF ServingBounds, ServingInv, H!TypeOK, H!StreamStays, H!EndServing, Core,
             ToldByPhase, DetachedApart, ReadByPhase, NobodyLeft, H!NoStreamLeaks
 <1>1. CASE H!HeadersReceived
   BY <1>1 DEF H!HeadersReceived
 <1>2. CASE H!Malformed
   BY <1>2 DEF H!Malformed
 <1>3. CASE H!ReceivedReturns
  <2>1. ToldByPhase'
   <3>1. phase = "received" /\ stream' = stream
     BY <1>3 DEF H!ReceivedReturns
   <3>2. QED
     BY <1>3, <3>1, ReadCases
  <2>2. DetachedApart'
    BY <1>3, BodyReadCases DEF H!ReceivedReturns
  <2>3. ReadByPhase'
    BY <1>3, BodyReadCases DEF H!ReceivedReturns
  <2>4. NobodyLeft'
    BY <1>3, BodyReadCases DEF H!ReceivedReturns
  <2>5. H!NoStreamLeaks'
    BY <1>3, BodyReadCases DEF H!ReceivedReturns
  <2>6. QED
    BY <2>1, <2>2, <2>3, <2>4, <2>5
 <1>4. CASE H!ReadChunk
  <2>1. ToldByPhase'
    BY <1>4, ReadCases DEF H!ReadChunk
  <2>2. DetachedApart'
    BY <1>4, BodyReadCases DEF H!ReadChunk
  <2>3. ReadByPhase'
    BY <1>4, BodyReadCases DEF H!ReadChunk
  <2>4. NobodyLeft'
    BY <1>4, BodyReadCases DEF H!ReadChunk
  <2>5. H!NoStreamLeaks'
    BY <1>4, BodyReadCases DEF H!ReadChunk
  <2>6. QED
    BY <2>1, <2>2, <2>3, <2>4, <2>5
 <1>5. CASE H!ChunkReturns
  <2>1. ToldByPhase'
    BY <1>5, ReadCases DEF H!ChunkReturns
  <2>2. DetachedApart'
    BY <1>5, BodyReadCases DEF H!ChunkReturns
  <2>3. ReadByPhase'
    BY <1>5, BodyReadCases DEF H!ChunkReturns
  <2>4. NobodyLeft'
    BY <1>5, BodyReadCases DEF H!ChunkReturns
  <2>5. H!NoStreamLeaks'
    BY <1>5, BodyReadCases DEF H!ChunkReturns
  <2>6. QED
    BY <2>1, <2>2, <2>3, <2>4, <2>5
 <1>6. CASE H!FinishReturns
   BY <1>6, AwaitCases DEF H!FinishReturns
 <1>7. CASE H!BodyLost
  <2>1. ToldByPhase'
    BY <1>7, TellCases DEF H!BodyLost
  <2>2. DetachedApart'
    BY <1>7, TellCases DEF H!BodyLost
  <2>3. ReadByPhase'
    BY <1>7, TellCases DEF H!BodyLost
  <2>4. NobodyLeft'
    BY <1>7, TellCases DEF H!BodyLost
  <2>5. H!NoStreamLeaks'
    BY <1>7, TellCases DEF H!BodyLost
  <2>6. QED
    BY <2>1, <2>2, <2>3, <2>4, <2>5
 <1>8. CASE H!Responded
   BY <1>8, TellCases DEF H!Responded
 <1>9. CASE H!NextRequest
   BY <1>9 DEF H!NextRequest
 <1>10. CASE H!Detach
   BY <1>10 DEF H!Detach
 <1>11. CASE H!Write
   BY <1>11 DEF H!Write, H!CanRespond
 <1>12. CASE H!Flushed
   BY <1>12 DEF H!Flushed
 <1>13. CASE H!StreamCalls
   BY <1>13 DEF H!StreamCalls, Hearing
 <1>14. CASE H!NoHeaders
   BY <1>14, StreamIsClosed DEF H!NoHeaders, H!Closing
 <1>15. CASE H!HeaderTimeout
   BY <1>15, StreamIsClosed DEF H!HeaderTimeout, H!CloseConnection, H!Closing
 <1>16. CASE H!BadWritten
  <2>1. ToldByPhase'
    BY <1>16, StreamIsClosed, TellCases DEF H!BadWritten, H!CloseConnection, H!Closing
  <2>2. DetachedApart'
    BY <1>16, StreamIsClosed, TellCases DEF H!BadWritten, H!CloseConnection, H!Closing
  <2>3. ReadByPhase'
    BY <1>16, StreamIsClosed, TellCases DEF H!BadWritten, H!CloseConnection, H!Closing
  <2>4. NobodyLeft'
    BY <1>16, StreamIsClosed, TellCases DEF H!BadWritten, H!CloseConnection, H!Closing
  <2>5. H!NoStreamLeaks'
    BY <1>16, StreamIsClosed, TellCases DEF H!BadWritten, H!CloseConnection, H!Closing
  <2>6. QED
    BY <2>1, <2>2, <2>3, <2>4, <2>5
 <1>17. CASE H!DelegateRaises
  <2>1. ToldByPhase'
    BY <1>17, StreamIsClosed, TellCases DEF H!DelegateRaises, H!CloseConnection, H!Closing
  <2>2. DetachedApart'
    BY <1>17, StreamIsClosed, TellCases DEF H!DelegateRaises, H!CloseConnection, H!Closing
  <2>3. ReadByPhase'
    BY <1>17, StreamIsClosed, TellCases DEF H!DelegateRaises, H!CloseConnection, H!Closing
  <2>4. NobodyLeft'
    BY <1>17, StreamIsClosed, TellCases DEF H!DelegateRaises, H!CloseConnection, H!Closing
  <2>5. H!NoStreamLeaks'
    BY <1>17, StreamIsClosed, TellCases DEF H!DelegateRaises, H!CloseConnection, H!Closing
  <2>6. QED
    BY <2>1, <2>2, <2>3, <2>4, <2>5
 <1>18. CASE H!BodyTimeout
  <2>1. ToldByPhase'
    BY <1>18, StreamIsClosed, TellCases DEF H!BodyTimeout, H!Closing
  <2>2. DetachedApart'
    BY <1>18, StreamIsClosed, TellCases DEF H!BodyTimeout, H!Closing
  <2>3. ReadByPhase'
    BY <1>18, StreamIsClosed, TellCases DEF H!BodyTimeout, H!Closing
  <2>4. NobodyLeft'
    BY <1>18, StreamIsClosed, TellCases DEF H!BodyTimeout, H!Closing
  <2>5. H!NoStreamLeaks'
    BY <1>18, StreamIsClosed, TellCases DEF H!BodyTimeout, H!Closing
  <2>6. QED
    BY <2>1, <2>2, <2>3, <2>4, <2>5
 <1>19. CASE H!WrongLength
   BY <1>19, StreamIsClosed DEF H!WrongLength, H!Closing, H!CanRespond
 <1>20. CASE H!StreamCloses
   BY <1>20, StreamIsClosed DEF H!StreamCloses, H!Closing
 <1>21. CASE H!Finish
   BY <1>21, StreamIsClosed DEF H!Finish, H!FinishRequest
 <1>22. QED
   BY <1>1, <1>2, <1>3, <1>4, <1>5, <1>6, <1>7, <1>8, <1>9, <1>10, <1>11, <1>12, <1>13, <1>14,
      <1>15, <1>16, <1>17, <1>18, <1>19, <1>20, <1>21 DEF H!Next

(* What the loop hears of a close: it begins to wait on an open stream,    *)
(* with its callback in place, and while it waits nothing takes that away  *)
(* or calls it without letting the loop go.                                *)
LEMMA HearingKept ==
  ASSUME ServingBounds, ServingInv, H!Next
  PROVE  Hearing' /\ H!NotLeftWaiting'
 <1>1. hooked \in BOOLEAN /\ eventsH \in Seq(Events)
   BY DEF ServingInv, H!TypeOK, Events
 <1>2. CASE H!ReceivedReturns \/ H!ReadChunk \/ H!ChunkReturns \/ H!FinishReturns
  <2>1. /\ stream' = stream /\ eventsH' = eventsH /\ finished' = finished
        /\ phase' = "respond" =>
             (phase = "respond" /\ hooked' = hooked) \/ (hooked' = TRUE /\ stream = "open")
    BY <1>2, BodyReadCases, AwaitCases DEF H!ReceivedReturns, H!ReadChunk, H!ChunkReturns,
       H!FinishReturns,
       H!StreamStays, H!EndServing
  <2>2. phase # "respond"
    BY <1>2 DEF H!ReceivedReturns, H!ReadChunk, H!ChunkReturns, H!FinishReturns
  <2>3. QED
    BY <2>1, <2>2 DEF ServingInv, Hearing, H!NotLeftWaiting
 <1>3. CASE H!Malformed \/ H!HeadersReceived \/ H!BodyLost \/ H!Responded \/ H!NextRequest \/ H!Detach
  <2>1. phase' # "respond" /\ (eventsH' = <<>> \/ (eventsH' = eventsH /\ stream' \in {stream, "detached"}))
    BY <1>3 DEF H!Malformed, H!HeadersReceived, H!BodyLost, H!Responded, H!NextRequest, H!Detach,
       H!StreamStays, H!EndServing
  <2>2. QED
    BY <2>1 DEF ServingInv, Hearing, H!NotLeftWaiting
 <1>4. CASE H!NoHeaders \/ H!HeaderTimeout \/ H!BadWritten \/ H!DelegateRaises \/ H!BodyTimeout
  <2>1. phase' = "ended" /\ (stream' # "open" \/ H!StreamStays)
    BY <1>1, <1>4, StreamIsClosed DEF H!NoHeaders, H!HeaderTimeout, H!BadWritten,
       H!DelegateRaises,
       H!BodyTimeout, H!EndServing, H!CloseConnection, H!Closing, ServingInv
  <2>2. QED
    BY <2>1 DEF ServingInv, Hearing, H!NotLeftWaiting, H!StreamStays
 <1>5. CASE H!Write
   BY <1>5 DEF H!Write, ServingInv, Hearing, H!NotLeftWaiting
 <1>6. CASE H!WrongLength \/ H!StreamCloses
  <2>1. H!CloseStream(hooked) /\ stream = "open" /\ phase' = phase /\ finished' = finished
        /\ hooked' = hooked
    BY <1>6 DEF H!WrongLength, H!StreamCloses, H!Closing
  <2>2. /\ stream' # "open"
        /\ hooked => \E i \in DOMAIN eventsH' : eventsH'[i] = "close"
    BY <1>1, <2>1, CloseQueues, StreamIsClosed DEF ServingInv
  <2>3. QED
    BY <2>1, <2>2 DEF ServingInv, Hearing, H!NotLeftWaiting
 <1>7. CASE H!Finish
  <2>1. CASE finished'
   <3>1. stream' # "open" \/ H!StreamStays
     BY <1>7, StreamIsClosed DEF H!Finish, H!FinishRequest, ServingInv
   <3>2. QED
     BY <2>1, <3>1 DEF ServingInv, Hearing, H!NotLeftWaiting, H!StreamStays
  <2>2. CASE ~finished'
   <3>1. H!StreamStays /\ hooked' = hooked /\ finished' = finished /\ phase' = phase
         /\ writeDone' = TRUE
     BY <1>7, <2>2 DEF H!Finish, H!FinishRequest
   <3>2. QED
     BY <3>1 DEF ServingInv, Hearing, H!NotLeftWaiting, H!StreamStays
  <2>3. QED
    BY <2>1, <2>2
 <1>8. CASE H!Flushed
   BY <1>8 DEF H!Flushed, ServingInv, Hearing, H!NotLeftWaiting
 <1>9. CASE H!StreamCalls
  <2>1. /\ eventsH # <<>> /\ eventsH' = Tail(eventsH)
        /\ phase' = phase /\ stream' = stream /\ writeDone' = writeDone
    BY <1>9 DEF H!StreamCalls
  <2>2. finished' = (finished \/ Head(eventsH) = "close" \/ writeDone)
        /\ hooked' = (hooked /\ Head(eventsH) = "write" /\ ~writeDone)
    BY <1>9 DEF H!StreamCalls
  <2>3. Hearing'
   <3>1. Head(eventsH) \in Events
     BY <1>1, <2>1
   <3>2. phase' = "respond" /\ ~finished' => hooked'
     BY <2>1, <2>2, <3>1 DEF ServingInv, Hearing, Events
   <3>3. QED
     BY <2>1, <3>2 DEF ServingInv, Hearing
  <2>4. H!NotLeftWaiting'
   <3>1. SUFFICES ASSUME phase' = "respond", stream' = "closed", ~finished'
         PROVE  \E i \in DOMAIN eventsH' : eventsH'[i] = "close"
     BY DEF H!NotLeftWaiting
   <3>2. ~finished /\ Head(eventsH) # "close" /\ ~writeDone
     BY <2>2, <3>1
   <3>3. PICK i \in DOMAIN eventsH : eventsH[i] = "close"
     BY <2>1, <3>1, <3>2 DEF ServingInv, H!NotLeftWaiting
   <3>4. i \in 2..Len(eventsH)
     BY <1>1, <2>1, <3>2, <3>3
   <3>5. i - 1 \in DOMAIN Tail(eventsH) /\ Tail(eventsH)[i - 1] = eventsH[i]
     BY <1>1, <2>1, <3>4
   <3>6. QED
     BY <2>1, <3>3, <3>5
  <2>5. QED
    BY <2>3, <2>4
 <1>10. QED
   BY <1>2, <1>3, <1>4, <1>5, <1>6, <1>7, <1>8, <1>9 DEF H!Next

LEMMA InitServing == ServingBounds /\ H!Init => ServingInv
 <1> SUFFICES ASSUME ServingBounds, H!Init PROVE ServingInv
   OBVIOUS
 <1>1. H!TypeOK
  <2>1. req \in 1..MaxRequests /\ leftH \in 0..MaxBodyH /\ toldH \in Nat
    BY DEF ServingBounds, H!Init, H!Fresh
  <2>2. eventsH \in Seq({"write", "close"})
    BY DEF H!Init
  <2>3. {readDone, writeDone, disconnect, finished, hooked, servedH} \subseteq BOOLEAN
    BY DEF H!Init, H!Fresh
  <2>4. QED
    BY <2>1, <2>2, <2>3 DEF H!Init, H!Fresh, H!TypeOK
 <1>2. ToldByPhase /\ DetachedApart /\ ReadByPhase /\ NobodyLeft
   BY DEF H!Init, H!Fresh, ToldByPhase, DetachedApart, ReadByPhase, NobodyLeft
 <1>3. Hearing /\ H!NoStreamLeaks /\ H!NotLeftWaiting
   BY DEF H!Init, H!Fresh, Hearing, H!NoStreamLeaks, H!NotLeftWaiting
 <1>4. QED
   BY <1>1, <1>2, <1>3 DEF ServingInv

LEMMA ServingInvKept == ServingBounds /\ ServingInv /\ [H!Next]_(H!vars) => ServingInv'
 <1> SUFFICES ASSUME ServingBounds, ServingInv, [H!Next]_(H!vars) PROVE ServingInv'
   OBVIOUS
 <1>1. CASE H!Next
   BY <1>1, ServingTyped, CoreKept, HearingKept DEF ServingInv, Core
 <1>2. CASE UNCHANGED H!vars
   BY <1>2 DEF H!vars, ServingInv, H!TypeOK, ToldByPhase, DetachedApart, ReadByPhase, NobodyLeft,
      Hearing, H!NoStreamLeaks, H!NotLeftWaiting
 <1>3. QED
   BY <1>1, <1>2

-----------------------------------------------------------------------------
(* Every request is told its end once, by whatever errors, timeouts and    *)
(* early answers; a loop that ends leaves no open stream; and one that     *)
(* waits for a response is let go when the stream closes                   *)
(* (HTTP1ServerConnection._server_request_loop, HTTP1Connection).          *)
THEOREM ServingIsSound ==
  ASSUME ServingBounds
  PROVE  H!Spec => []H!ServingSound
  BY InitServing, ServingInvKept, ServingInvImplies, PTL DEF H!Spec

(* The requests of a stream do not overlap: the next one is read when the  *)
(* body of the one before was, and its response is written, all of it, or  *)
(* nobody is there to read it (HTTP1ServerConnection).                     *)
THEOREM RequestsApart ==
  ASSUME ServingBounds
  PROVE  H!Spec => H!RequestsInTurn
 <1>1. ServingInv /\ [H!Next]_(H!vars) => [H!NextInTurn]_(H!vars)
  <2> SUFFICES ASSUME ServingInv, H!Next, req' # req PROVE H!NextInTurn
    BY DEF H!NextInTurn
  <2>1. H!NextRequest
    BY DEF H!Next, H!HeadersReceived, H!NoHeaders, H!HeaderTimeout, H!Malformed, H!BadWritten,
       H!ReceivedReturns, H!ReadChunk, H!ChunkReturns, H!FinishReturns, H!DelegateRaises,
       H!BodyLost,
       H!BodyTimeout, H!Responded, H!Detach, H!Write, H!Finish, H!WrongLength, H!Flushed,
       H!StreamCloses,
       H!StreamCalls
  <2>2. QED
    BY <2>1 DEF H!NextRequest, ServingInv, ReadByPhase, NobodyLeft, H!NextInTurn
 <1>2. QED
   BY InitServing, <1>1, ServingInvKept, PTL DEF H!Spec, H!RequestsInTurn

HIDE DEF phase, req, stream, leftH, delegate, toldH, readDone, writeDone,
         disconnect, finished, write, hooked, eventsH, servedH

-----------------------------------------------------------------------------
(* A request and its handler                                               *)

Y == INSTANCE RequestHandlers WITH
       MaxBody <- MaxBodyY, kind <- v1, server <- v2, left <- v3, at <- v4,
       body <- v5, prepared <- v6, closes <- v7, h <- v8

(* Its variables. *)
kind == v1
server == v2
leftY == v3
at == v4
body == v5
prepared == v6
closes == v7
h == v8

USE DEF kind, server, leftY, at, body, prepared, closes, h

Responses ==
  [ finished : BOOLEAN, headersWritten : BOOLEAN, buffer : Nat, status : {200, 204, 500},
    length : Nat \cup {Y!None}, hook : BOOLEAN, open : BOOLEAN, chunked : BOOLEAN,
    remaining : Nat \cup {Y!None}, heads : Nat, ends : 0..2, written : Nat, late : BOOLEAN,
    raised : BOOLEAN, logFailed : BOOLEAN, gaveUp : BOOLEAN ]

(* What the methods of a handler keep of its response, raising or not: its *)
(* head is sent when the headers are, and its end comes after both; it is  *)
(* finished then, unless _log raised.                                      *)
Consistent(r) ==
  /\ r.finished => r.ends > 0
  /\ r.ends > 0 => (r.finished \/ r.logFailed) /\ r.headersWritten
  /\ r.heads <= 1 /\ (~r.headersWritten => r.heads = 0)
  /\ r.headersWritten /\ r.open => r.heads = 1
  /\ r.ends > 0 /\ r.open => r.remaining \in {Y!None, 0}
  /\ ~r.logFailed => ~r.late /\ r.ends <= 1

(* The client is answered, or its connection is closed. *)
Answered(r) == r.ends > 0 \/ ~r.open

(* Finish raised before anything was written. *)
Refused(r) == r.status = 204 /\ r.buffer > 0 /\ ~r.headersWritten

(* From r to s no stream is opened. *)
Continues(r, s) == s \in Responses /\ Consistent(s) /\ (s.open => r.open)

-----------------------------------------------------------------------------
(* A response with another value in one field. *)
LEMMA Updated ==
  ASSUME NEW r \in Responses
  PROVE  /\ \A x \in BOOLEAN : [r EXCEPT !.finished = x] \in Responses
         /\ \A x \in BOOLEAN : [r EXCEPT !.headersWritten = x] \in Responses
         /\ \A x \in Nat : [r EXCEPT !.buffer = x] \in Responses
         /\ \A x \in {200, 204, 500} : [r EXCEPT !.status = x] \in Responses
         /\ \A x \in Nat \cup {Y!None} : [r EXCEPT !.length = x] \in Responses
         /\ \A x \in BOOLEAN : [r EXCEPT !.hook = x] \in Responses
         /\ \A x \in BOOLEAN : [r EXCEPT !.open = x] \in Responses
         /\ \A x \in BOOLEAN : [r EXCEPT !.chunked = x] \in Responses
         /\ \A x \in Nat \cup {Y!None} : [r EXCEPT !.remaining = x] \in Responses
         /\ \A x \in Nat : [r EXCEPT !.heads = x] \in Responses
         /\ \A x \in 0..2 : [r EXCEPT !.ends = x] \in Responses
         /\ \A x \in Nat : [r EXCEPT !.written = x] \in Responses
         /\ \A x \in BOOLEAN : [r EXCEPT !.late = x] \in Responses
         /\ \A x \in BOOLEAN : [r EXCEPT !.raised = x] \in Responses
         /\ \A x \in BOOLEAN : [r EXCEPT !.logFailed = x] \in Responses
         /\ \A x \in BOOLEAN : [r EXCEPT !.gaveUp = x] \in Responses
 <1>1. \A x \in BOOLEAN : [r EXCEPT !.finished = x] \in Responses
   BY DEF Responses
 <1>2. \A x \in BOOLEAN : [r EXCEPT !.headersWritten = x] \in Responses
   BY DEF Responses
 <1>3. \A x \in Nat : [r EXCEPT !.buffer = x] \in Responses
   BY DEF Responses
 <1>4. \A x \in {200, 204, 500} : [r EXCEPT !.status = x] \in Responses
   BY DEF Responses
 <1>5. \A x \in Nat \cup {Y!None} : [r EXCEPT !.length = x] \in Responses
   BY DEF Responses
 <1>6. \A x \in BOOLEAN : [r EXCEPT !.hook = x] \in Responses
   BY DEF Responses
 <1>7. \A x \in BOOLEAN : [r EXCEPT !.open = x] \in Responses
   BY DEF Responses
 <1>8. \A x \in BOOLEAN : [r EXCEPT !.chunked = x] \in Responses
   BY DEF Responses
 <1>9. \A x \in Nat \cup {Y!None} : [r EXCEPT !.remaining = x] \in Responses
   BY DEF Responses
 <1>10. \A x \in Nat : [r EXCEPT !.heads = x] \in Responses
   BY DEF Responses
 <1>11. \A x \in 0..2 : [r EXCEPT !.ends = x] \in Responses
   BY DEF Responses
 <1>12. \A x \in Nat : [r EXCEPT !.written = x] \in Responses
   BY DEF Responses
 <1>13. \A x \in BOOLEAN : [r EXCEPT !.late = x] \in Responses
   BY DEF Responses
 <1>14. \A x \in BOOLEAN : [r EXCEPT !.raised = x] \in Responses
   BY DEF Responses
 <1>15. \A x \in BOOLEAN : [r EXCEPT !.logFailed = x] \in Responses
   BY DEF Responses
 <1>16. \A x \in BOOLEAN : [r EXCEPT !.gaveUp = x] \in Responses
   BY DEF Responses
 <1>17. QED
   BY <1>1, <1>2, <1>3, <1>4, <1>5, <1>6, <1>7, <1>8, <1>9, <1>10, <1>11, <1>12, <1>13, <1>14,
      <1>15, <1>16

LEMMA SendTyped ==
  ASSUME NEW r \in Responses, NEW n \in Nat
  PROVE  LET s == Y!Send(r, n) IN
         /\ s \in Responses
         /\ s.finished = r.finished /\ s.headersWritten = r.headersWritten
         /\ s.buffer = r.buffer /\ s.status = r.status /\ s.length = r.length
         /\ s.hook = r.hook /\ s.heads = r.heads /\ s.ends = r.ends /\ s.chunked = r.chunked
         /\ s.logFailed = r.logFailed /\ s.gaveUp = r.gaveUp
         /\ s.raised /\ ~r.raised => ~s.open
         /\ s.open => r.open
         /\ s.open /\ r.remaining \in {Y!None, 0} => s.remaining \in {Y!None, 0}
         /\ r.ends = 0 => s.late = r.late
 <1>1. CASE r.remaining # Y!None /\ n > r.remaining
  <2> DEFINE c == [r EXCEPT !.open = FALSE]
  <2>1. c \in Responses /\ [c EXCEPT !.raised = TRUE] \in Responses
    BY Updated
  <2>2. Y!Send(r, n) = [c EXCEPT !.raised = TRUE] /\ Y!Send(r, n) \in Responses
    BY <1>1, <2>1 DEF Y!Send, Y!Raise, Y!CloseStream
  <2>3. QED
    BY <2>2 DEF Responses
 <1>2. CASE ~(r.remaining # Y!None /\ n > r.remaining)
  <2> DEFINE rest == IF r.remaining = Y!None THEN Y!None ELSE r.remaining - n
             isLate == r.late \/ (r.ends > 0 /\ n > 0)
             a == [r EXCEPT !.written = r.written + n]
             b == [a EXCEPT !.late = isLate]
             s == [b EXCEPT !.remaining = rest]
  <2>1. Y!Send(r, n) = s
    BY <1>2 DEF Y!Send
  <2>2. rest \in Nat \cup {Y!None} /\ isLate \in BOOLEAN /\ r.written + n \in Nat
    BY <1>2 DEF Responses, Y!None
  <2>3. r.ends = 0 => isLate = r.late
    BY DEF Responses
  <2>4. r.remaining \in {Y!None, 0} => rest \in {Y!None, 0}
    BY <1>2 DEF Y!None
  <2> HIDE DEF rest, isLate
  <2>5. a \in Responses
    BY <2>2, Updated
  <2>6. b \in Responses
    BY <2>2, <2>5, Updated, ZenonT(30)
  <2>7. s \in Responses
    BY <2>2, <2>6, Updated, ZenonT(30)
  <2>8. QED
    BY <2>1, <2>2, <2>3, <2>4, <2>7 DEF Responses
 <1>3. QED
   BY <1>1, <1>2

(* What flush() leaves of the response. *)
LEMMA FlushKeeps ==
  ASSUME NEW r \in Responses, Consistent(r), ~r.finished, ~r.raised
  PROVE  LET s == Y!Flush(r) IN
         /\ Continues(r, s) /\ s.headersWritten
         /\ s.finished = r.finished /\ s.ends = r.ends /\ s.status = r.status
         /\ s.logFailed = r.logFailed
         /\ s.raised => ~s.open
 <1> DEFINE a == [r EXCEPT !.buffer = 0]
            b == [a EXCEPT !.headersWritten = TRUE]
            n == r.buffer
 <1>1. a \in Responses /\ n \in Nat
   BY Updated DEF Responses
 <1>2. b \in Responses /\ Y!Flush(r) = IF r.headersWritten THEN Y!ConnectionWrite(b, n)
                                                       ELSE Y!WriteHeaders(b, n)
   BY <1>1, Updated DEF Y!Flush
 <1>3. /\ b.headersWritten /\ b.finished = r.finished /\ b.ends = r.ends /\ b.status = r.status
       /\ b.logFailed = r.logFailed /\ b.raised = r.raised /\ b.open = r.open /\ b.late = r.late
       /\ b.heads = r.heads /\ b.remaining = r.remaining /\ b.length = r.length
   BY DEF Responses
 <1> HIDE DEF a, b, n
 <1>4. CASE r.headersWritten
  <2>1. CASE ~b.open
    BY <1>2, <1>3, <1>4, <2>1 DEF Y!ConnectionWrite, Consistent, Continues
  <2>2. CASE b.open
   <3> DEFINE s == Y!Send(b, n)
   <3>1. Y!Flush(r) = s
     BY <1>2, <1>4, <2>2 DEF Y!ConnectionWrite
   <3>2. /\ s \in Responses /\ s.finished = b.finished /\ s.headersWritten /\ s.status = b.status
         /\ s.heads = b.heads /\ s.ends = b.ends /\ s.logFailed = b.logFailed
         /\ s.raised => ~s.open
         /\ s.open /\ b.remaining \in {Y!None, 0} => s.remaining \in {Y!None, 0}
         /\ b.ends = 0 => s.late = b.late
     BY <1>1, <1>2, <1>3, SendTyped
   <3> HIDE DEF s
   <3>3. r.ends \in 0..2 /\ s.ends = r.ends
     BY <1>3, <3>2 DEF Responses
   <3>4. Consistent(s)
     BY <1>3, <1>4, <2>2, <3>2, <3>3 DEF Consistent
   <3>5. QED
     BY <1>3, <2>2, <3>1, <3>2, <3>4 DEF Continues
  <2>3. QED
    BY <2>1, <2>2
 <1>5. CASE ~r.headersWritten
  <2> DEFINE chunks == b.length = Y!None /\ b.status # 204
             c == [b EXCEPT !.chunked = chunks]
             d == [c EXCEPT !.remaining = b.length]
             s == Y!Send(d, n)
             e == [s EXCEPT !.heads = @ + 1]
  <2>1. chunks \in BOOLEAN /\ b.length \in Nat \cup {Y!None}
    BY <1>2 DEF Responses
  <2>2. c \in Responses
    BY <1>2, <2>1, Updated, ZenonT(30)
  <2>3. d \in Responses
   <3> HIDE DEF c
   <3>1. \A m \in Nat \cup {Y!None} : [c EXCEPT !.remaining = m] \in Responses
     BY <2>2, Updated
   <3>2. QED
     BY <2>1, <3>1
  <2>4. Y!Flush(r) = IF ~d.open THEN d ELSE IF s.raised THEN s ELSE e
   <3>1. d = [b EXCEPT !.chunked = b.length = Y!None /\ b.status # 204, !.remaining = b.length]
     OBVIOUS
   <3>2. QED
     BY <1>2, <1>5, <3>1 DEF Y!WriteHeaders
  <2>5. /\ d.headersWritten /\ d.finished = r.finished /\ d.ends = r.ends /\ d.status = r.status
        /\ d.logFailed = r.logFailed /\ d.raised = r.raised /\ d.open = r.open /\ d.late = r.late
        /\ d.heads = 0 /\ r.ends = 0
    BY <1>2, <1>3, <1>5 DEF Responses, Consistent
  <2> HIDE DEF d
  <2>6. /\ s \in Responses /\ s.finished = d.finished /\ s.headersWritten /\ s.status = d.status
        /\ s.heads = 0 /\ s.ends = 0 /\ s.logFailed = d.logFailed
        /\ s.raised => ~s.open
        /\ s.open => d.open
        /\ s.late = d.late
    BY <1>1, <2>3, <2>5, SendTyped
  <2> HIDE DEF s
  <2>7. /\ e \in Responses /\ e.finished = d.finished /\ e.headersWritten /\ e.status = d.status
        /\ e.heads = 1 /\ e.ends = 0 /\ e.logFailed = d.logFailed /\ e.raised = s.raised
        /\ e.open = s.open /\ e.late = d.late
   <3>1. 0 + 1 \in Nat /\ e = [s EXCEPT !.heads = 0 + 1]
     BY <2>6
   <3>2. e \in Responses
     BY <2>6, <3>1, Updated
   <3>3. QED
     BY <2>6, <3>1, <3>2 DEF Responses
  <2> HIDE DEF e
  <2>8. CASE ~d.open
    BY <2>3, <2>4, <2>5, <2>8 DEF Continues, Consistent
  <2>9. CASE d.open /\ s.raised
    BY <2>4, <2>5, <2>6, <2>9 DEF Continues, Consistent
  <2>10. CASE d.open /\ ~s.raised
    BY <2>4, <2>5, <2>6, <2>7, <2>10 DEF Continues, Consistent
  <2>11. QED
    BY <2>8, <2>9, <2>10
 <1>6. QED
   BY <1>4, <1>5

LEMMA HeadedKeeps ==
  ASSUME NEW r \in Responses, Consistent(r), ~r.raised
  PROVE  LET s == Y!Headed(r) IN
         /\ Continues(r, s)
         /\ s.headersWritten = r.headersWritten /\ s.finished = r.finished /\ s.ends = r.ends
         /\ s.status = r.status /\ s.buffer = r.buffer /\ s.logFailed = r.logFailed
         /\ s.open = r.open
         /\ s.raised => Refused(r)
 <1>1. CASE Y!Headed(r) = r
   BY <1>1 DEF Continues
 <1>2. CASE Y!Headed(r) = Y!Raise(r) /\ Refused(r)
  <2>1. [r EXCEPT !.raised = TRUE] \in Responses
    BY Updated
  <2>2. QED
    BY <1>2, <2>1 DEF Y!Raise, Responses, Continues, Consistent
 <1>3. ASSUME NEW m \in Nat \cup {Y!None}, Y!Headed(r) = [r EXCEPT !.length = m]
       PROVE  LET s == Y!Headed(r) IN
              /\ Continues(r, s)
              /\ s.headersWritten = r.headersWritten /\ s.finished = r.finished /\ s.ends = r.ends
              /\ s.status = r.status /\ s.buffer = r.buffer /\ s.logFailed = r.logFailed
              /\ s.open = r.open
              /\ ~s.raised
  <2>1. [r EXCEPT !.length = m] \in Responses
    BY Updated
  <2>2. QED
    BY <1>3, <2>1 DEF Responses, Continues, Consistent
 <1>4. r.buffer \in Nat
   BY DEF Responses
 <1>5. QED
   BY <1>1, <1>2, <1>3, <1>4 DEF Y!Headed, Refused

LEMMA FinishKeeps ==
  ASSUME NEW r \in Responses, Consistent(r), ~r.raised, NEW fails
  PROVE  LET s == Y!Finish(r, fails) IN
         /\ Continues(r, s) /\ s.status = r.status
         /\ s.raised \/ (s.finished /\ s.ends > 0)
         /\ Answered(s) \/ (s.raised /\ Refused(s) /\ Refused(r))
         /\ r.headersWritten => s.headersWritten
 <1> DEFINE a == Y!Headed(r)
            g == [a EXCEPT !.hook = FALSE]
            b == Y!Flush(g)
            c == Y!ConnectionFinish(b)
 <1>1. CASE r.finished
  <2>1. Y!Finish(r, fails) = Y!Raise(r) /\ [r EXCEPT !.raised = TRUE] \in Responses
    BY <1>1, Updated DEF Y!Finish
  <2>2. QED
    BY <1>1, <2>1 DEF Y!Raise, Responses, Continues, Consistent, Answered
 <1>2. CASE ~r.finished
  <2>1. /\ Continues(r, a)
        /\ a.headersWritten = r.headersWritten /\ a.finished = r.finished /\ a.ends = r.ends
        /\ a.status = r.status /\ a.buffer = r.buffer /\ a.logFailed = r.logFailed
        /\ a.open = r.open
        /\ a.raised => Refused(r)
    BY HeadedKeeps
  <2>2. Y!Finish(r, fails) = IF a.raised THEN a ELSE IF b.raised THEN b ELSE IF c.raised THEN c
                           ELSE IF fails = "log" THEN Y!Raise([c EXCEPT !.logFailed = TRUE])
                           ELSE [c EXCEPT !.finished = TRUE, !.raised = fails = "on_finish"]
    BY <1>2 DEF Y!Finish
  <2> HIDE DEF a
  <2>3. CASE a.raised
    BY <2>1, <2>2, <2>3 DEF Continues, Answered, Refused
  <2>4. CASE ~a.raised
   <3>1. a \in Responses /\ g \in Responses
     BY <2>1, Updated DEF Continues
   <3>2. /\ g.finished = r.finished /\ g.headersWritten = r.headersWritten /\ g.ends = r.ends
         /\ g.status = r.status /\ g.logFailed = r.logFailed /\ g.open = r.open /\ ~g.raised
         /\ Consistent(g)
     BY <2>1, <2>4, <3>1 DEF Responses, Continues, Consistent
   <3> HIDE DEF g
   <3>3. /\ b \in Responses /\ Consistent(b) /\ (b.open => r.open) /\ b.headersWritten
         /\ b.finished = r.finished /\ b.ends = r.ends /\ b.status = r.status
         /\ b.logFailed = r.logFailed
         /\ b.raised => ~b.open
     BY <1>2, <3>1, <3>2, FlushKeeps DEF Continues
   <3> HIDE DEF b
   <3>4. CASE b.raised
     BY <2>2, <2>4, <3>3, <3>4 DEF Continues, Answered
   <3>5. CASE ~b.raised /\ c.raised
    <4> DEFINE d == [b EXCEPT !.open = FALSE]
    <4>1. d \in Responses /\ [d EXCEPT !.raised = TRUE] \in Responses
      BY <3>3, Updated
    <4>2. c = [d EXCEPT !.raised = TRUE]
      BY <3>3, <3>5 DEF Y!ConnectionFinish, Y!Raise, Y!CloseStream, Responses
    <4>3. QED
      BY <2>2, <2>4, <3>3, <3>5, <4>1, <4>2 DEF Responses, Continues, Consistent, Answered
   <3>6. CASE ~b.raised /\ ~c.raised
    <4> DEFINE ends == IF b.ends < 2 THEN b.ends + 1 ELSE b.ends
               isLate == b.late \/ (b.ends > 0 /\ b.chunked /\ b.open)
               d == [b EXCEPT !.ends = ends]
               e == [d EXCEPT !.late = isLate]
               log == [e EXCEPT !.logFailed = TRUE]
               done == [e EXCEPT !.finished = TRUE]
    <4>1. b.ends \in 0..2 /\ isLate \in BOOLEAN /\ ends \in 1..2 /\ (b.ends = 0 => ends = 1)
      BY <3>3 DEF Responses
    <4>2. ~(b.remaining \notin {Y!None, 0} /\ b.open)
     <5>1. CASE b.remaining \notin {Y!None, 0} /\ b.open
      <6>1. c = [[b EXCEPT !.open = FALSE] EXCEPT !.raised = TRUE]
        BY <5>1 DEF Y!ConnectionFinish, Y!Raise, Y!CloseStream
      <6>2. c.raised
        BY <3>3, <6>1 DEF Responses
      <6>3. QED
        BY <3>6, <6>2
     <5>2. QED
       BY <5>1
    <4>3. c = e
      BY <4>2 DEF Y!ConnectionFinish
    <4>4. d \in Responses
     <5> HIDE DEF ends
     <5>1. ends \in 0..2
       BY <4>1
     <5>2. QED
       BY <3>3, <5>1, Updated, ZenonT(30)
    <4>5. e \in Responses
     <5> HIDE DEF d, isLate
     <5>1. QED
       BY <4>1, <4>4, Updated, ZenonT(30)
    <4>6. /\ e.ends = ends /\ e.late = isLate /\ e.finished = b.finished /\ e.open = b.open
          /\ e.headersWritten /\ e.heads = b.heads /\ e.remaining = b.remaining
          /\ e.status = b.status /\ e.logFailed = b.logFailed /\ ~e.raised
      BY <3>3, <3>6, <4>4 DEF Responses
    <4>7. b.heads <= 1 /\ (b.open => b.heads = 1) /\ (b.ends > 0 => b.logFailed)
          /\ (~b.logFailed => ~b.late)
      BY <1>2, <3>3 DEF Consistent
    <4>8. ~b.logFailed => ends = 1 /\ ~isLate
      BY <4>1, <4>7
    <4> HIDE DEF e, ends, isLate
    <4>9. CASE fails = "log"
     <5> DEFINE f == [log EXCEPT !.raised = TRUE]
     <5>1. log \in Responses
       BY <4>5, Updated
     <5>2. f \in Responses
      <6> HIDE DEF log
      <6>1. QED
        BY <5>1, Updated
     <5>3. Y!Finish(r, fails) = f
       BY <2>2, <2>4, <3>6, <4>3, <4>9 DEF Y!Raise
     <5>4. /\ f.ends = ends /\ f.finished = b.finished /\ f.open = b.open
           /\ f.headersWritten /\ f.heads = b.heads /\ f.remaining = b.remaining
           /\ f.status = b.status /\ f.logFailed /\ f.raised
       BY <4>5, <4>6 DEF Responses
     <5>5. QED
       BY <1>2, <3>3, <4>1, <4>2, <4>7, <5>2, <5>3, <5>4 DEF Continues, Consistent, Answered
    <4>10. CASE fails # "log"
     <5> DEFINE f == [done EXCEPT !.raised = fails = "on_finish"]
     <5>1. done \in Responses
       BY <4>5, Updated
     <5>2. f \in Responses
      <6> HIDE DEF done
      <6>1. (fails = "on_finish") \in BOOLEAN
        OBVIOUS
      <6>2. QED
        BY <5>1, <6>1, Updated, ZenonT(30)
     <5>3. Y!Finish(r, fails) = f
       BY <2>2, <2>4, <3>6, <4>3, <4>10
     <5>4. /\ f.ends = ends /\ f.finished /\ f.open = b.open /\ f.late = isLate
           /\ f.headersWritten /\ f.heads = b.heads /\ f.remaining = b.remaining
           /\ f.status = b.status /\ f.logFailed = b.logFailed
       BY <4>5, <4>6 DEF Responses
     <5>5. QED
       BY <3>3, <4>1, <4>2, <4>7, <4>8, <5>2, <5>3, <5>4 DEF Continues, Consistent, Answered
    <4>11. QED
      BY <4>9, <4>10
   <3>7. QED
     BY <3>4, <3>5, <3>6
  <2>5. QED
    BY <2>3, <2>4
 <1>3. QED
   BY <1>1, <1>2

(* A response that raises no more. *)
LEMMA CaughtKeeps ==
  ASSUME NEW r \in Responses, Consistent(r)
  PROVE  LET s == Y!Caught(r) IN
         /\ Continues(r, s) /\ ~s.raised /\ s.finished = r.finished /\ s.ends = r.ends
         /\ s.headersWritten = r.headersWritten /\ s.status = r.status /\ s.buffer = r.buffer
         /\ s.open = r.open
 <1>1. [r EXCEPT !.raised = FALSE] \in Responses
   BY Updated
 <1>2. QED
   BY <1>1 DEF Y!Caught, Responses, Continues, Consistent

LEMMA WriteKeeps ==
  ASSUME NEW r \in Responses, Consistent(r)
  PROVE  LET s == Y!Write(r) IN
         /\ Continues(r, s) /\ s.finished = r.finished /\ s.headersWritten = r.headersWritten
         /\ s.status = r.status /\ s.ends = r.ends /\ s.open = r.open
         /\ s.raised => r.finished \/ r.raised
 <1>1. CASE r.finished
  <2>1. Y!Write(r) = [r EXCEPT !.raised = TRUE] /\ Y!Write(r) \in Responses
    BY <1>1, Updated, ZenonT(30) DEF Y!Write, Y!Raise
  <2> DEFINE s == Y!Write(r)
  <2>2. /\ s.finished = r.finished /\ s.headersWritten = r.headersWritten /\ s.status = r.status
        /\ s.ends = r.ends /\ s.open = r.open /\ s.heads = r.heads /\ s.remaining = r.remaining
        /\ s.logFailed = r.logFailed /\ s.late = r.late
    BY <2>1 DEF Responses
  <2>3. QED
    BY <1>1, <2>1, <2>2 DEF Continues, Consistent
 <1>2. CASE ~r.finished
  <2>1. r.buffer + 1 \in Nat
    BY DEF Responses
  <2>2. [r EXCEPT !.buffer = r.buffer + 1] \in Responses
    BY <2>1, Updated
  <2>3. QED
    BY <1>2, <2>2 DEF Y!Write, Responses, Continues, Consistent
 <1>3. QED
   BY <1>1, <1>2

LEMMA ClearKeeps ==
  ASSUME NEW r \in Responses, Consistent(r)
  PROVE  LET s == Y!Clear(r) IN
         /\ Continues(r, s) /\ s.finished = r.finished /\ s.headersWritten = r.headersWritten
         /\ s.status = 500 /\ s.raised = r.raised
 <1> DEFINE a == [r EXCEPT !.buffer = 0]
            b == [a EXCEPT !.status = 500]
 <1>1. a \in Responses
   BY Updated
 <1>2. b \in Responses
  <2> HIDE DEF a
  <2>1. \A x \in {200, 204, 500} : [a EXCEPT !.status = x] \in Responses
    BY <1>1, Updated, ZenonT(30)
  <2>2. QED
    BY <2>1
 <1>3. [b EXCEPT !.length = Y!None] \in Responses
  <2> HIDE DEF b
  <2>1. QED
    BY <1>2, Updated, Zenon
 <1>4. QED
   BY <1>3 DEF Y!Clear, Responses, Continues, Consistent

LEMMA SendErrorKeeps ==
  ASSUME NEW r \in Responses, Consistent(r), ~r.raised, NEW fails
  PROVE  Continues(r, Y!SendError(r, fails)) /\ Answered(Y!SendError(r, fails))
 <1>1. CASE r.headersWritten /\ r.finished
   BY <1>1 DEF Y!SendError, Continues, Consistent, Answered
 <1>2. CASE r.headersWritten /\ ~r.finished
  <2> DEFINE f == Y!Finish(r, fails)
  <2>1. Continues(r, f) /\ Answered(f)
    BY <1>2, FinishKeeps DEF Refused
  <2>2. Y!SendError(r, fails) = Y!Caught(f)
    BY <1>2 DEF Y!SendError
  <2> HIDE DEF f
  <2>3. QED
    BY <2>1, <2>2, CaughtKeeps DEF Continues, Answered
 <1>3. CASE ~r.headersWritten
  <2> DEFINE c == Y!Clear(r)
             w == Y!Write(c)
             f == Y!Finish(w, fails)
             e == IF fails = "write_error" THEN c ELSE Y!Caught(f)
  <2>1. Y!SendError(r, fails) = IF e.finished THEN e ELSE Y!Finish(e, fails)
    BY <1>3 DEF Y!SendError
  <2>2. Continues(r, c) /\ ~c.finished /\ c.status = 500 /\ ~c.raised
    BY <1>3, ClearKeeps DEF Consistent
  <2> HIDE DEF c
  <2>3. Continues(r, w) /\ w.status = 500 /\ ~w.raised
    BY <2>2, WriteKeeps DEF Continues
  <2> HIDE DEF w
  <2>4. Continues(r, f) /\ f.status = 500 /\ Answered(f)
    BY <2>3, FinishKeeps DEF Continues, Refused
  <2> HIDE DEF f
  <2>5. Continues(r, e) /\ e.status = 500 /\ ~e.raised
    BY <2>2, <2>4, CaughtKeeps DEF Continues
  <2> HIDE DEF e
  <2>6. CASE e.finished
    BY <2>1, <2>5, <2>6 DEF Continues, Consistent, Answered
  <2>7. CASE ~e.finished
    BY <2>1, <2>5, <2>7, FinishKeeps DEF Continues, Refused
  <2>8. QED
    BY <2>6, <2>7
 <1>4. QED
   BY <1>1, <1>2, <1>3

LEMMA HandleExceptionKeeps ==
  ASSUME NEW r \in Responses, Consistent(r), NEW e, NEW fails
  PROVE  LET s == Y!HandleException(r, e, fails) IN
         Continues(r, s) /\ (Answered(s) \/ (s.raised /\ Refused(s)))
 <1> DEFINE c == Y!Caught(r)
 <1>1. Continues(r, c) /\ ~c.raised /\ c.finished = r.finished
   BY CaughtKeeps
 <1>2. Y!HandleException(r, e, fails) = IF r.finished THEN c
                                      ELSE IF e = "Finish" THEN Y!Finish(c, fails)
                                      ELSE Y!SendError(c, fails)
   BY DEF Y!HandleException
 <1> HIDE DEF c
 <1>3. /\ Continues(c, Y!Finish(c, fails)) /\ Continues(c, Y!SendError(c, fails))
       /\ Answered(Y!SendError(c, fails))
       /\ Answered(Y!Finish(c, fails)) \/ (Y!Finish(c, fails).raised /\ Refused(Y!Finish(c, fails)))
   BY <1>1, FinishKeeps, SendErrorKeeps DEF Continues
 <1>4. r.finished => Answered(c)
   BY <1>1 DEF Continues, Consistent, Answered
 <1>5. CASE r.finished
   BY <1>1, <1>2, <1>4, <1>5
 <1>6. CASE ~r.finished /\ e = "Finish"
  <2>1. Y!HandleException(r, e, fails) = Y!Finish(c, fails)
    BY <1>2, <1>6
  <2>2. QED
    BY <1>1, <1>3, <2>1 DEF Continues
 <1>7. CASE ~r.finished /\ e # "Finish"
  <2>1. Y!HandleException(r, e, fails) = Y!SendError(c, fails)
    BY <1>2, <1>7
  <2>2. QED
    BY <1>1, <1>3, <2>1 DEF Continues
 <1>8. QED
   BY <1>5, <1>6, <1>7

-----------------------------------------------------------------------------
(* The steps *)

HandlerTyped ==
  /\ kind \in {"plain", "asynchronous", "stream"}
  /\ server \in {"headers", "prepare", "body", "respond", "done"} /\ leftY \in 0..MaxBodyY
  /\ at \in {"none", "prepare", "body", "method", "callbacks", "over"}
  /\ body \in {"none", "pending", "done", "failed"} /\ prepared \in {"none", "pending", "done"}

ResponseSound == h \in Responses /\ Consistent(h) /\ ~h.raised

(* The body of a stream, as the handler and the connection have it. *)
BodyAwaited ==
  /\ body = "failed" => ~h.open
  /\ body = "done" => leftY = 0
  /\ body = "pending" => server \in {"prepare", "body"} \/ at = "none"
  /\ kind = "stream" /\ at # "none" => body # "none"
  /\ kind = "stream" /\ at = "method" => body = "done"
  /\ at = "body" => kind = "stream"
  /\ kind # "stream" => body = "none"
  /\ server = "headers" => at = "none"

PrepareAwaited ==
  server = "prepare" => prepared = "done" \/ (at = "prepare" /\ prepared = "pending")

ClosesOnce == closes \in 0..1 /\ (server # "done" => closes = 0)

HandlerInv ==
  /\ HandlerTyped /\ ResponseSound /\ Y!AlwaysAnswered
  /\ BodyAwaited /\ PrepareAwaited /\ ClosesOnce

LEMMA HandlerInvImplies == HandlerInv => Y!TypeOK /\ Y!HandlerSound
 <1> SUFFICES ASSUME HandlerInv PROVE Y!TypeOK /\ Y!HandlerSound
   OBVIOUS
 <1>1. Y!TypeOK
   BY DEF HandlerInv, HandlerTyped, ResponseSound, Responses, Y!TypeOK
 <1>2. Y!OneResponse
   BY DEF HandlerInv, ResponseSound, Consistent, Y!OneResponse
 <1>3. Y!StreamingGoesOn
   BY DEF HandlerInv, BodyAwaited, PrepareAwaited, Y!StreamingGoesOn
 <1>4. Y!ToldOnce
   BY DEF HandlerInv, ClosesOnce, Y!ToldOnce
 <1>5. QED
   BY <1>1, <1>2, <1>3, <1>4 DEF HandlerInv, Y!HandlerSound

LEMMA InitHandler == MaxBodyY \in Nat /\ Y!Init => HandlerInv
 <1> SUFFICES ASSUME MaxBodyY \in Nat, Y!Init PROVE HandlerInv
   OBVIOUS
 <1>1. Y!Response \in Responses /\ Consistent(Y!Response) /\ ~Y!Response.raised
   BY DEF Y!Response, Responses, Consistent
 <1>2. QED
   BY <1>1 DEF Y!Init, HandlerInv, HandlerTyped, ResponseSound, Y!AlwaysAnswered, BodyAwaited,
      PrepareAwaited, ClosesOnce

LEMMA CloseStreamKeeps ==
  ASSUME NEW r \in Responses, Consistent(r)
  PROVE  LET s == Y!CloseStream(r) IN
         /\ Continues(r, s) /\ ~s.open /\ s.raised = r.raised
 <1>1. [r EXCEPT !.open = FALSE] \in Responses
   BY Updated
 <1>2. QED
   BY <1>1 DEF Y!CloseStream, Responses, Continues, Consistent

(* An exception has been handled. *)
LEMMA OverKeeps ==
  ASSUME HandlerInv, Y!Running, NEW r, Continues(h, r), NEW e, Y!Over(r, e),
         UNCHANGED <<kind, server, leftY, body, closes>>
  PROVE  HandlerInv'
 <1>1. PICK fails \in Y!Fails :
         /\ h' = [Y!Caught(Y!HandleException(r, e, fails))
                    EXCEPT !.gaveUp = @ \/ Y!HandleException(r, e, fails).raised]
         /\ at' = IF at = "callbacks" THEN at ELSE "over"
         /\ prepared' = IF prepared = "pending" THEN "done" ELSE prepared
   BY DEF Y!Over
 <1> DEFINE s == Y!HandleException(r, e, fails)
            c == Y!Caught(s)
            gave == c.gaveUp \/ s.raised
 <1>2. Continues(h, s) /\ (Answered(s) \/ (s.raised /\ Refused(s)))
   BY HandleExceptionKeeps DEF Continues
 <1>3. h' = [c EXCEPT !.gaveUp = gave]
   BY <1>1
 <1> HIDE DEF s
 <1>4. /\ Continues(h, c) /\ ~c.raised /\ c.ends = s.ends /\ c.status = s.status
       /\ c.buffer = s.buffer /\ c.open = s.open
   BY <1>2, CaughtKeeps DEF Continues
 <1>5. gave \in BOOLEAN /\ (s.raised => gave)
   BY <1>2, <1>4 DEF Continues, Responses
 <1> HIDE DEF c, gave
 <1>6. h' \in Responses
  <2>1. \A x \in BOOLEAN : [c EXCEPT !.gaveUp = x] \in Responses
    BY <1>4, Updated DEF Continues
  <2>2. QED
    BY <1>3, <1>5, <2>1
 <1>7. /\ Consistent(h') /\ ~h'.raised /\ h'.gaveUp = gave /\ h'.ends = s.ends
       /\ h'.status = s.status /\ h'.buffer = s.buffer /\ h'.open = s.open
   BY <1>3, <1>4, <1>6 DEF Continues, Responses, Consistent
 <1>8. ResponseSound'
   BY <1>6, <1>7 DEF ResponseSound
 <1>9. Y!AlwaysAnswered'
   BY <1>2, <1>5, <1>7 DEF Y!AlwaysAnswered, Answered, Refused
 <1>10. HandlerTyped' /\ ClosesOnce' /\ PrepareAwaited'
   BY <1>1 DEF HandlerInv, HandlerTyped, ClosesOnce, PrepareAwaited
 <1>11. h'.open => h.open
   BY <1>2, <1>7 DEF Continues
 <1>12. BodyAwaited'
   BY <1>1, <1>11 DEF HandlerInv, BodyAwaited, Y!Running
 <1>13. QED
   BY <1>8, <1>9, <1>10, <1>12 DEF HandlerInv

(* A call of the handler's. *)
LEMMA CallKeeps ==
  ASSUME HandlerInv, NEW r, Continues(h, r), Y!Call(r)
  PROVE  HandlerInv'
 <1>1. CASE r.raised
   BY <1>1, OverKeeps DEF Y!Call
 <1>2. CASE ~r.raised
  <2>1. h' = r /\ UNCHANGED <<at, prepared, kind, server, leftY, body, closes>> /\ at # "over"
    BY <1>2 DEF Y!Call, Y!Running
  <2>2. QED
    BY <1>2, <2>1 DEF HandlerInv, HandlerTyped, ResponseSound, Y!AlwaysAnswered, BodyAwaited,
       PrepareAwaited, ClosesOnce, Continues
 <1>3. QED
   BY <1>1, <1>2 DEF Y!Call

LEMMA CallsKeep ==
  ASSUME HandlerInv,
         \/ Y!CallWrite \/ Y!CallFlush \/ Y!CallFinish \/ Y!CallSendError \/ Y!SetStatus \/ Y!SetLength
         \/ Y!Raises
  PROVE  HandlerInv'
 <1>0. h \in Responses /\ Consistent(h) /\ ~h.raised
   BY DEF HandlerInv, ResponseSound
 <1>1. CASE Y!CallWrite
   BY <1>0, <1>1, WriteKeeps, CallKeeps DEF Y!CallWrite
 <1>2. CASE Y!CallFlush
   BY <1>0, <1>2, FlushKeeps, CallKeeps DEF Y!CallFlush
 <1>3. CASE Y!CallFinish
   BY <1>0, <1>3, FinishKeeps, CallKeeps DEF Y!CallFinish
 <1>4. CASE Y!CallSendError
   BY <1>0, <1>4, SendErrorKeeps, CallKeeps DEF Y!CallSendError
 <1>5. CASE Y!SetStatus
  <2>1. \A x \in {200, 204, 500} : [h EXCEPT !.status = x] \in Responses
    BY <1>0, Updated, ZenonT(30)
  <2>2. Continues(h, [h EXCEPT !.status = 204])
    BY <1>0, <2>1 DEF Continues, Consistent, Responses
  <2>3. QED
    BY <1>5, <2>2, CallKeeps DEF Y!SetStatus
 <1>6. CASE Y!SetLength
  <2>1. \A x \in Nat \cup {Y!None} : [h EXCEPT !.length = x] \in Responses
    BY <1>0, Updated
  <2>2. Continues(h, [h EXCEPT !.length = 1])
    BY <1>0, <2>1 DEF Continues, Consistent, Responses
  <2>3. QED
    BY <1>6, <2>2, CallKeeps DEF Y!SetLength
 <1>7. CASE Y!Raises
  <2>1. Continues(h, h)
    BY <1>0 DEF Continues
  <2>2. QED
    BY <1>7, <2>1, OverKeeps DEF Y!Raises
 <1>8. QED
   BY <1>1, <1>2, <1>3, <1>4, <1>5, <1>6, <1>7

LEMMA ExecuteKeeps ==
  ASSUME HandlerInv, Y!PrepareReturns \/ Y!BodyCame \/ Y!MethodReturns
  PROVE  HandlerInv'
 <1>0. h \in Responses /\ Consistent(h) /\ ~h.raised
   BY DEF HandlerInv, ResponseSound
 <1>1. CASE Y!PrepareReturns
   BY <1>0, <1>1 DEF Y!PrepareReturns, HandlerInv, HandlerTyped, ResponseSound, Y!AlwaysAnswered,
      BodyAwaited, PrepareAwaited, ClosesOnce, Consistent
 <1>2. CASE Y!BodyCame
   BY <1>2 DEF Y!BodyCame, HandlerInv, HandlerTyped, ResponseSound, Y!AlwaysAnswered, BodyAwaited,
      PrepareAwaited, ClosesOnce
 <1>3. CASE Y!MethodReturns /\ (kind = "asynchronous" \/ h.finished)
   BY <1>0, <1>3 DEF Y!MethodReturns, HandlerInv, HandlerTyped, ResponseSound, Y!AlwaysAnswered,
      BodyAwaited, PrepareAwaited, ClosesOnce, Consistent
 <1>4. CASE Y!MethodReturns /\ kind # "asynchronous" /\ ~h.finished
  <2>1. PICK fails \in Y!Fails :
          LET r == Y!Finish(h, fails)
          IN IF r.raised THEN Y!Over(r, "error")
             ELSE at' = "over" /\ h' = r /\ UNCHANGED prepared
    BY <1>4 DEF Y!MethodReturns
  <2> DEFINE r == Y!Finish(h, fails)
  <2>2. Continues(h, r) /\ (r.raised \/ r.ends > 0)
    BY <1>0, FinishKeeps
  <2>3. Y!Running /\ UNCHANGED <<kind, server, leftY, body, closes>>
    BY <1>4 DEF Y!MethodReturns, Y!Running
  <2>4. CASE r.raised
   <3>1. Y!Over(r, "error")
     BY <2>1, <2>4
   <3> HIDE DEF r
   <3>2. QED
     BY <2>2, <2>3, <3>1, OverKeeps
  <2>5. CASE ~r.raised
   <3>1. at' = "over" /\ h' = r /\ prepared' = prepared
     BY <2>1, <2>5
   <3> HIDE DEF r
   <3>2. at = "method"
     BY <1>4 DEF Y!MethodReturns
   <3>3. QED
     BY <2>2, <2>3, <2>5, <3>1, <3>2 DEF HandlerInv, HandlerTyped, ResponseSound,
        Y!AlwaysAnswered,
        BodyAwaited, PrepareAwaited, ClosesOnce, Continues
  <2>6. QED
    BY <2>4, <2>5
 <1>5. QED
   BY <1>1, <1>2, <1>3, <1>4

(* The connection's steps. *)
LEMMA DelegateKeeps ==
  ASSUME MaxBodyY \in Nat, HandlerInv,
         Y!HeadersReceived \/ Y!Prepared \/ Y!DataReceived \/ Y!BodyLost \/ Y!BodyRead \/ Y!Responded
         \/ Y!StreamClosed \/ Y!PeerCloses
  PROVE  HandlerInv'
 <1> DEFINE closed == Y!CloseStream(h)
            withHook == [h EXCEPT !.hook = TRUE]
            noHook == [h EXCEPT !.hook = FALSE]
 <1>0. h \in Responses /\ Consistent(h) /\ ~h.raised
   BY DEF HandlerInv, ResponseSound
 <1>1. /\ closed \in Responses /\ Consistent(closed) /\ ~closed.raised /\ ~closed.open
       /\ closed.ends = h.ends /\ closed.gaveUp = h.gaveUp /\ closed.status = h.status
       /\ closed.buffer = h.buffer
  <2>1. Continues(h, closed) /\ ~closed.open /\ closed.raised = h.raised
    BY <1>0, CloseStreamKeeps
  <2>2. QED
    BY <1>0, <2>1 DEF Continues, Y!CloseStream, Responses
 <1>2. /\ withHook \in Responses /\ Consistent(withHook) /\ ~withHook.raised /\ withHook.open = h.open
       /\ noHook \in Responses /\ Consistent(noHook) /\ ~noHook.raised
       /\ noHook.open = h.open /\ noHook.ends = h.ends
       /\ withHook.ends = h.ends
  <2>1. withHook \in Responses /\ noHook \in Responses
    BY <1>0, Updated
  <2>2. QED
    BY <1>0, <2>1 DEF Responses, Consistent
 <1> HIDE DEF closed, withHook, noHook
 <1>3. h' \in {h, closed, withHook, noHook}
   BY DEF Y!HeadersReceived, Y!Prepared, Y!DataReceived, Y!BodyLost, Y!BodyRead, Y!Responded,
      Y!StreamClosed,
      Y!PeerCloses, Y!Execute, closed, withHook, noHook
 <1>4. at' = at \/ at' = "prepare"
   BY DEF Y!HeadersReceived, Y!Prepared, Y!DataReceived, Y!BodyLost, Y!BodyRead, Y!Responded,
      Y!StreamClosed,
      Y!PeerCloses, Y!Execute
 <1>5. at' = "over" => h' \in {h, closed, noHook}
   BY DEF HandlerInv, BodyAwaited, Y!HeadersReceived, Y!Prepared, Y!DataReceived, Y!BodyLost,
      Y!BodyRead,
      Y!Responded, Y!StreamClosed, Y!PeerCloses, Y!Execute, closed, withHook, noHook
 <1>6. ResponseSound'
   BY <1>0, <1>1, <1>2, <1>3 DEF ResponseSound
 <1>7. Y!AlwaysAnswered'
  <2>1. Y!AlwaysAnswered
    BY DEF HandlerInv
  <2>2. /\ noHook.gaveUp = h.gaveUp /\ noHook.status = h.status /\ noHook.buffer = h.buffer
    BY <1>0 DEF noHook, Responses
  <2>3. QED
    BY <1>1, <1>2, <1>4, <1>5, <2>1, <2>2 DEF Y!AlwaysAnswered
 <1>8. (h'.open => h.open) /\ (Y!BodyLost => ~h'.open) /\ (Y!StreamClosed => ~h'.open)
   BY <1>1, <1>2, <1>3 DEF Y!BodyLost, Y!StreamClosed, closed, noHook
 <1>9. HandlerTyped /\ BodyAwaited /\ PrepareAwaited /\ ClosesOnce
   BY DEF HandlerInv
 <1>10. HandlerTyped'
  <2>1. CASE Y!DataReceived
   <3>1. leftY' \in 0..MaxBodyY
     BY <1>9, <2>1 DEF Y!DataReceived, HandlerTyped
   <3>2. QED
     BY <1>9, <2>1, <3>1 DEF Y!DataReceived, HandlerTyped
  <2>2. CASE ~Y!DataReceived
   <3>1. leftY' = leftY
     BY <2>2 DEF Y!HeadersReceived, Y!Prepared, Y!BodyLost, Y!BodyRead, Y!Responded,
        Y!StreamClosed, Y!PeerCloses
   <3>2. QED
     BY <1>9, <2>2, <3>1 DEF HandlerTyped, Y!HeadersReceived, Y!Prepared, Y!BodyLost,
        Y!BodyRead, Y!Responded,
        Y!StreamClosed, Y!PeerCloses, Y!Execute, Y!OnConnectionClose
  <2>3. QED
    BY <2>1, <2>2
 <1>11. PrepareAwaited'
   BY <1>9 DEF PrepareAwaited, HandlerTyped, Y!HeadersReceived, Y!Prepared, Y!DataReceived,
      Y!BodyLost,
      Y!BodyRead, Y!Responded, Y!StreamClosed, Y!PeerCloses, Y!Execute, Y!OnConnectionClose
 <1>12. ClosesOnce'
   BY <1>9 DEF ClosesOnce, HandlerTyped, Y!HeadersReceived, Y!Prepared, Y!DataReceived, Y!BodyLost,
      Y!BodyRead, Y!Responded, Y!StreamClosed, Y!PeerCloses, Y!Execute, Y!OnConnectionClose
 <1>13. BodyAwaited'
  <2>1. CASE Y!HeadersReceived \/ Y!Prepared \/ Y!DataReceived \/ Y!Responded \/ Y!PeerCloses
    BY <1>8, <1>9, <2>1 DEF HandlerTyped, BodyAwaited, Y!HeadersReceived, Y!Prepared,
       Y!DataReceived,
       Y!Responded, Y!PeerCloses, Y!Execute
  <2>2. CASE Y!BodyLost \/ Y!StreamClosed
    BY <1>8, <1>9, <2>2 DEF HandlerTyped, BodyAwaited, Y!BodyLost, Y!StreamClosed,
       Y!OnConnectionClose
  <2>3. CASE Y!BodyRead
   <3>1. kind = "stream" /\ h.ends > 0 => ~h'.open
     BY <1>1, <2>3 DEF Y!BodyRead, closed
   <3>2. QED
     BY <1>1, <1>8, <1>9, <2>3, <3>1 DEF HandlerTyped, BodyAwaited, Y!BodyRead, Y!Execute,
        Y!OnConnectionClose, closed
  <2>4. QED
    BY <2>1, <2>2, <2>3
 <1>14. QED
   BY <1>6, <1>7, <1>10, <1>11, <1>12, <1>13 DEF HandlerInv

LEMMA StepHandler == MaxBodyY \in Nat /\ HandlerInv /\ [Y!Next]_(Y!vars) => HandlerInv'
 <1> SUFFICES ASSUME MaxBodyY \in Nat, HandlerInv, [Y!Next]_(Y!vars) PROVE HandlerInv'
   OBVIOUS
 <1>1. CASE UNCHANGED Y!vars
   BY <1>1 DEF Y!vars, HandlerInv, HandlerTyped, ResponseSound, Y!AlwaysAnswered, BodyAwaited,
      PrepareAwaited, ClosesOnce
 <1>2. QED
   BY <1>1, CallsKeep, ExecuteKeeps, DelegateKeeps DEF Y!Next

THEOREM RequestsAreAnswered == MaxBodyY \in Nat => (Y!Spec => [](Y!TypeOK /\ Y!HandlerSound))
 <1> SUFFICES ASSUME MaxBodyY \in Nat PROVE Y!Spec => [](Y!TypeOK /\ Y!HandlerSound)
   OBVIOUS
 <1>1. Y!Init => HandlerInv
   BY InitHandler
 <1>2. HandlerInv => Y!TypeOK /\ Y!HandlerSound
   BY HandlerInvImplies
 <1>3. QED
   BY <1>1, <1>2, StepHandler, PTL DEF Y!Spec

HIDE DEF kind, server, leftY, at, body, prepared, closes, h

-----------------------------------------------------------------------------
(* A coroutine and its Runner                                              *)

G == INSTANCE Coroutines WITH
       pc <- v1, future <- v2, own <- v3, state <- v4, inner <- v5, runs <- v6,
       starting <- v7, point <- v8, context <- v9, pending <- v10, results <- v11,
       failed <- v12, result <- v13, leaked <- v14, asked <- v15, yields <- v16

(* Its variables. *)
pc == v1
future == v2
own == v3
state == v4
inner == v5
runs == v6
starting == v7
point == v8
context == v9
pendingG == v10
results == v11
failedG == v12
result == v13
leaked == v14
asked == v15
yields == v16

USE DEF pc, future, own, state, inner, runs, starting, point, context, pendingG,
        results, failedG, result, leaked, asked, yields

(* Futures and keys are apart from each other and from the other names. *)
FutureNames ==
  /\ Futures \cap Keys = {}
  /\ {"own", "moment", "bad", G!None} \cap (Futures \cup Keys) = {}

(* How often runs are queued is left open. *)
Typed ==
  /\ pc \in {"gen", "loop", "parked", "finished"}
  /\ future \in Futures \cup {"own", "moment", G!None}
  /\ own \in {"pending", "value", "error"}
  /\ state \in [Futures -> {"pending", "value", "error"}]
  /\ inner \subseteq Futures \cup {"own"} /\ runs \in Nat
  /\ starting \in G!Points \cup {G!NoPoint} /\ point \in Keys \cup {G!None}
  /\ pendingG \subseteq Keys /\ results \subseteq pendingG
  /\ result \in {G!None, "value", "error", "cancelled"}

(* The Runner waits for the yield point it has, or is about to start. *)
PointAwaited ==
  /\ starting # G!NoPoint \/ point # G!None =>
       pc \in {"parked", "loop"} /\ future = "own" /\ own = "pending"
  /\ starting # G!NoPoint => point = G!None
  /\ point # G!None => point \in pendingG \ results

(* What the Runner looks at is done and, unless it looks right now, a run  *)
(* is queued; or somebody will run it when it is done.                     *)
SomebodyRuns ==
  pc \in {"parked", "loop"} =>
    \/ G!Settled(future) /\ (pc = "parked" => runs > 0)
    \/ starting # G!NoPoint
    \/ future \in inner \ {"own"} /\ state[future] = "pending"
    \/ point # G!None

(* A future the generator asked for is the one the Runner looks at. *)
LooksAtAsked == pc \in {"parked", "loop"} /\ asked \in Futures => future = asked

RunnerInv == Typed /\ PointAwaited /\ SomebodyRuns /\ LooksAtAsked /\ G!ResultGiven

LEMMA RunnerInvImplies == RunnerInv => G!NeverStuck /\ G!ResultGiven
  BY DEF RunnerInv, PointAwaited, SomebodyRuns, G!NeverStuck

-----------------------------------------------------------------------------
(* What the start of a yield point comes to: an answer, or a key that is   *)
(* waited for.                                                             *)
LEMMA StartCases ==
  ASSUME FutureNames, Typed, NEW p \in G!Points, point = G!None, G!StartPoint(p)
  PROVE  /\ pendingG' \subseteq Keys /\ results' \subseteq pendingG'
         /\ \/ own' \in {"value", "error"} /\ point' = G!None
            \/ own' = "pending" /\ point' \in Keys /\ point' \in pendingG' \ results'
 <1>1. p.key \in Keys /\ p.type \in {"Callback", "Wait"}
   BY DEF G!Points
 <1>2. CASE p.type = "Callback"
   BY <1>1, <1>2 DEF G!StartPoint, Typed
 <1>3. CASE p.type # "Callback"
   BY <1>1, <1>3 DEF G!StartPoint, Typed, G!keyVars
 <1>4. QED
   BY <1>2, <1>3

(* Neither a future nor a key is taken for another name. *)
LEMMA NamesApart ==
  ASSUME FutureNames
  PROVE  /\ \A f \in Futures : f \notin {"own", "moment", "bad", G!None} /\ f \notin Keys
         /\ \A k \in Keys : k \notin {"own", "moment", "bad", G!None} /\ k \notin Futures
         /\ "own" \notin Futures /\ "moment" \notin Futures /\ "bad" \notin Futures
         /\ G!None \notin Futures /\ G!None \notin Keys
  BY DEF FutureNames

LEMMA SettledCases ==
  ASSUME FutureNames
  PROVE  /\ \A f \in Futures : G!Settled(f) <=> state[f] # "pending"
         /\ G!Settled("own") <=> own # "pending"
         /\ G!Settled("moment") /\ ~G!Settled(G!None)
  BY DEF G!Settled, FutureNames, G!None

LEMMA NoPointApart == G!NoPoint \notin G!Points
 <1>1. G!NoPoint.type = "none"
   BY DEF G!NoPoint, G!None
 <1>2. \A p \in G!Points : p.type \in {"Callback", "Wait"}
   BY DEF G!Points
 <1>3. QED
   BY <1>1, <1>2

(* One step of a coroutine keeps its invariant. *)
LEMMA RunnerInvKept ==
  ASSUME FutureNames, RunnerInv, G!Next
  PROVE  RunnerInv'
 <1> USE NamesApart, SettledCases
 <1>1. ASSUME NEW f \in Futures, G!YieldFuture(f) PROVE RunnerInv'
   BY <1>1 DEF G!YieldFuture, G!Yield, G!keyVars, G!outVars, RunnerInv, Typed, PointAwaited,
      SomebodyRuns, LooksAtAsked, G!ResultGiven, G!Settled
 <1>2. CASE G!YieldMoment
   BY <1>2 DEF G!YieldMoment, G!Yield, G!keyVars, G!outVars, RunnerInv, Typed, PointAwaited,
      SomebodyRuns, LooksAtAsked, G!ResultGiven, G!Settled
 <1>3. CASE G!YieldBad
   BY <1>3 DEF G!YieldBad, G!Yield, G!keyVars, G!outVars, RunnerInv, Typed, PointAwaited,
      SomebodyRuns, LooksAtAsked, G!ResultGiven, G!Settled
 <1>4. CASE G!Return \/ G!Raise
  <2>1. /\ pc = "gen" /\ pc' = "finished" /\ future' = "moment"
        /\ UNCHANGED <<own, state, inner, runs, starting, context, asked, yields>>
        /\ UNCHANGED G!keyVars
    BY <1>4 DEF G!Return, G!Raise
  <2>2. result' \in {G!None, "value", "error", "cancelled"}
    BY <1>4 DEF G!Return, G!Raise, RunnerInv, Typed
  <2>3. Typed'
    BY <2>1, <2>2 DEF G!keyVars, RunnerInv, Typed
  <2>4. result' = G!None => leaked' /\ pendingG' # {}
   <3>1. CASE G!Raise
     BY <3>1 DEF G!Raise, G!None
   <3>2. CASE G!Return /\ leaked'
     BY <3>2 DEF G!Return, G!keyVars
   <3>3. CASE G!Return /\ ~leaked'
     BY <3>3 DEF G!Return, G!None
   <3>4. QED
     BY <1>4, <3>1, <3>2, <3>3
  <2>5. QED
    BY <2>1, <2>3, <2>4 DEF G!keyVars, RunnerInv, PointAwaited, SomebodyRuns, LooksAtAsked,
       G!ResultGiven
 <1>5. CASE G!Take
   BY <1>5 DEF G!Take, G!keyVars, RunnerInv, Typed, PointAwaited, SomebodyRuns,
      LooksAtAsked, G!ResultGiven, G!Settled
 <1>6. ASSUME NEW p \in G!Points, G!YieldPoint(p) PROVE RunnerInv'
  <2>1. /\ pc = "gen" /\ future' = "own" /\ asked' = p.key
        /\ UNCHANGED <<state, runs, result>>
        /\ starting = G!NoPoint /\ point = G!None
    BY <1>6 DEF G!YieldPoint, G!Yield, G!outVars, RunnerInv, PointAwaited
  <2>2. p.key \in Keys
    BY DEF G!Points
  <2>3. CASE context
   <3>1. G!StartPoint(p) /\ starting' = G!NoPoint
     BY <1>6, <2>1, <2>3 DEF G!YieldPoint
   <3>2. IF own' = "pending" THEN pc' = "parked" /\ inner' = inner \cup {"own"}
                             ELSE pc' = "loop" /\ inner' = inner
     BY <1>6, <2>3 DEF G!YieldPoint
   <3>3. QED
     BY <2>1, <2>2, <3>1, <3>2, StartCases DEF RunnerInv, Typed, PointAwaited, SomebodyRuns,
        LooksAtAsked, G!ResultGiven, G!Settled
  <2>4. CASE ~context
   <3>1. /\ own' = "pending" /\ starting' = p /\ pc' = "parked"
         /\ UNCHANGED <<inner, point, pendingG, results>>
     BY <1>6, <2>4 DEF G!YieldPoint, G!keyVars
   <3>2. p # G!NoPoint
     BY NoPointApart
   <3>3. QED
     BY <2>1, <2>2, <3>1, <3>2 DEF RunnerInv, Typed, PointAwaited, SomebodyRuns,
        LooksAtAsked, G!ResultGiven
  <2>5. QED
    BY <2>3, <2>4
 <1>7. CASE G!QueuedRun
   BY <1>7 DEF G!QueuedRun, G!RunPc, G!keyVars, G!outVars, RunnerInv, Typed, PointAwaited,
      SomebodyRuns, LooksAtAsked, G!ResultGiven, G!Settled
 <1>8. CASE G!QueuedStart
   BY <1>8, StartCases DEF G!QueuedStart, G!outVars, RunnerInv, Typed, PointAwaited, SomebodyRuns,
      LooksAtAsked, G!ResultGiven, G!Settled
 <1>9. ASSUME NEW f \in Futures, G!Resolve(f) PROVE RunnerInv'
   BY <1>9 DEF G!Resolve, G!keyVars, G!outVars, RunnerInv, Typed, PointAwaited,
      SomebodyRuns, LooksAtAsked, G!ResultGiven, G!Settled
 <1>10. ASSUME NEW k \in Keys, G!CallResult(k) PROVE RunnerInv'
   BY <1>10 DEF G!CallResult, G!RunPc, G!keyVars, G!outVars, RunnerInv, Typed, PointAwaited,
      SomebodyRuns, LooksAtAsked, G!ResultGiven, G!Settled
 <1>11. CASE G!Interrupt \/ G!CancelResult
   BY <1>11 DEF G!Interrupt, G!CancelResult, G!keyVars, G!outVars, RunnerInv, Typed, PointAwaited,
      SomebodyRuns, LooksAtAsked, G!ResultGiven, G!Settled
 <1>12. QED
   BY <1>1, <1>2, <1>3, <1>4, <1>5, <1>6, <1>7, <1>8, <1>9, <1>10, <1>11 DEF G!Next

LEMMA InitRunner == FutureNames /\ G!Init => RunnerInv
  BY DEF G!Init, RunnerInv, Typed, PointAwaited, SomebodyRuns, LooksAtAsked, G!ResultGiven

LEMMA StepRunner == FutureNames /\ RunnerInv /\ [G!Next]_(G!vars) => RunnerInv'
 <1>1. FutureNames /\ RunnerInv /\ G!Next => RunnerInv'
   BY RunnerInvKept
 <1>2. RunnerInv /\ UNCHANGED G!vars => RunnerInv'
   BY DEF G!vars, RunnerInv, Typed, PointAwaited, SomebodyRuns, LooksAtAsked, G!ResultGiven,
      G!Settled
 <1>3. QED
   BY <1>1, <1>2

-----------------------------------------------------------------------------
(* A coroutine that is parked is run again when what it waits for is done, *)
(* in whatever order futures are resolved, keys answered and stale runs    *)
(* come in; and its result is missing only if callbacks were leaked        *)
(* (gen.Runner).                                                           *)
THEOREM NeverStuckForGood ==
  ASSUME FutureNames
  PROVE  G!Spec => [](G!NeverStuck /\ G!ResultGiven)
  BY InitRunner, StepRunner, RunnerInvImplies, PTL DEF G!Spec

(* The generator goes on only with the future it asked for last, when that *)
(* is done, and the result is given once (gen.Runner.run).                 *)
THEOREM AnswersAsked ==
  ASSUME FutureNames
  PROVE  G!Spec => G!AnsweredYield
 <1>1. RunnerInv /\ [G!Next]_(G!vars) => [G!GoesOnAnswered /\ G!ResultStays]_(G!vars)
  <2> SUFFICES ASSUME RunnerInv, G!Next PROVE G!GoesOnAnswered /\ G!ResultStays
    OBVIOUS
  <2>1. G!ResultStays
    BY DEF G!Next, G!YieldFuture, G!Resolve, G!YieldMoment, G!YieldBad, G!Return, G!Raise,
       G!Take, G!YieldPoint,
       G!QueuedRun, G!QueuedStart, G!CallResult, G!Interrupt, G!CancelResult, G!outVars,
       G!ResultStays
  <2>2. G!GoesOnAnswered
   <3> SUFFICES ASSUME pc = "loop", pc' = "gen", asked \in Futures
       PROVE  state[asked] # "pending" /\ future = asked
     BY DEF G!GoesOnAnswered
   <3>1. G!Take
     BY DEF G!Next, G!YieldFuture, G!Yield, G!Resolve, G!YieldMoment, G!YieldBad, G!Return,
        G!Raise, G!YieldPoint,
        G!QueuedRun, G!QueuedStart, G!CallResult, G!Interrupt, G!CancelResult
   <3>2. G!Settled(future) /\ future = asked
     BY <3>1 DEF G!Take, RunnerInv, LooksAtAsked
   <3>3. QED
     BY <3>2, SettledCases
  <2>3. QED
    BY <2>1, <2>2
 <1>2. QED
   BY <1>1, InitRunner, StepRunner, PTL DEF G!Spec, G!AnsweredYield

HIDE DEF pc, future, own, state, inner, runs, starting, point, context, pendingG,
         results, failedG, result, leaked, asked, yields

-----------------------------------------------------------------------------
(* A TCP server                                                            *)

V == INSTANCE Servers WITH
       started <- v1, stopped <- v2, pending <- v3, sockets <- v4, handlers <- v5,
       registered <- v6, removed <- v7, closedSocks <- v8, events <- v9,
       accepting <- v10, left <- v11, arrived <- v12, came <- v13, failed <- v14

(* Its variables. *)
started == v1
stopped == v2
pendingV == v3
sockets == v4
handlers == v5
registered == v6
removed == v7
closedSocks == v8
eventsV == v9
accepting == v10
leftV == v11
arrived == v12
came == v13
failedV == v14

USE DEF started, stopped, pendingV, sockets, handlers, registered, removed,
        closedSocks, eventsV, accepting, leftV, arrived, came, failedV

(* Sockets move from pending to sockets and are closed there; a handler    *)
(* that runs finds its removed[0] set as soon as its socket is closed.     *)
SocketsApart ==
  /\ pendingV \cap sockets = {}
  /\ closedSocks \subseteq sockets
  /\ removed = closedSocks

StopInv == eventsV \subseteq registered /\ SocketsApart /\ V!StopHolds

(* The server and the loop apart from connections and accept loops. *)
serverVars ==
  <<started, pendingV, sockets, handlers, registered, removed, closedSocks, eventsV, failedV>>

LEMMA ServerKept == StopInv /\ UNCHANGED serverVars => StopInv'
  BY DEF StopInv, SocketsApart, V!StopHolds, serverVars

LEMMA StartKeeps == StopInv /\ V!Start => StopInv'
 <1> SUFFICES ASSUME StopInv, V!Start PROVE StopInv'
   OBVIOUS
 <1> USE DEF V!Start, V!AddSockets, StopInv, SocketsApart, V!StopHolds, V!loopVars
 <1>1. pendingV \cap closedSocks = {}
   OBVIOUS
 <1>2. registered' = sockets' \ closedSocks'
   BY <1>1
 <1>3. QED
   BY <1>2

LEMMA AddKeeps ==
  ASSUME StopInv, NEW s \in Sock, V!Listen(s) \/ V!Bind(s)
  PROVE  StopInv'
 <1> USE DEF V!New, V!AddSockets, StopInv, SocketsApart, V!StopHolds, V!loopVars, V!netVars
 <1>1. CASE V!Listen(s)
   BY <1>1 DEF V!Listen
 <1>2. CASE V!Bind(s) /\ started
   BY <1>2 DEF V!Bind
 <1>3. CASE V!Bind(s) /\ ~started
   BY <1>3 DEF V!Bind
 <1>4. QED
   BY <1>1, <1>2, <1>3

LEMMA StopKeeps == StopInv /\ V!Stop => StopInv'
 <1> SUFFICES ASSUME StopInv, V!Stop PROVE StopInv'
   OBVIOUS
 <1> USE DEF V!Stop, StopInv, SocketsApart, V!StopHolds
 <1>1. registered' = {} /\ eventsV' = {} /\ sockets' \ closedSocks' = {}
   OBVIOUS
 <1>2. QED
   BY <1>1

(* The turn of an accept loop is never on a closed socket. *)
LEMMA LoopKeeps ==
  ASSUME StopInv, V!Poll \/ V!Accept \/ V!AcceptReturns \/ \E s \in Sock : V!AcceptHandler(s)
  PROVE  StopInv'
 <1> USE DEF StopInv, SocketsApart, V!StopHolds, V!loopVars, V!netVars
 <1>1. CASE V!Poll
   BY <1>1 DEF V!Poll
 <1>2. CASE V!Accept
  <2>1. accepting \notin closedSocks
    BY <1>2 DEF V!Accept, V!MayAccept
  <2>2. UNCHANGED serverVars
    BY <1>2, <2>1 DEF V!Accept, serverVars
  <2>3. QED
    BY <2>2, ServerKept
 <1>3. CASE V!AcceptReturns
   BY <1>3, ServerKept DEF V!AcceptReturns, serverVars
 <1>4. ASSUME NEW s \in Sock, V!AcceptHandler(s) PROVE StopInv'
   BY <1>4 DEF V!AcceptHandler
 <1>5. QED
   BY <1>1, <1>2, <1>3, <1>4

LEMMA StepStop == StopInv /\ [V!Next]_(V!vars) => StopInv'
 <1> SUFFICES ASSUME StopInv, [V!Next]_(V!vars) PROVE StopInv'
   OBVIOUS
 <1>1. ASSUME NEW s \in Sock, V!Connect(s) PROVE StopInv'
   BY <1>1, ServerKept DEF V!Connect, V!loopVars, serverVars
 <1>2. CASE UNCHANGED V!vars
   BY <1>2, ServerKept DEF V!vars, serverVars
 <1>3. QED
   BY <1>1, <1>2, StartKeeps, AddKeeps, StopKeeps, LoopKeeps DEF V!Next

(* A socket that stop() closed has no handler and no event left, and       *)
(* accept() is not called on it again, wherever stop() came in between:    *)
(* from the callback of the very loop that accepts, or between two events  *)
(* of a poll (TCPServer.stop, add_accept_handler).                         *)
THEOREM StopIsFinal == V!Spec => []V!StopHolds
 <1>1. V!Init => StopInv
   BY DEF V!Init, StopInv, SocketsApart, V!StopHolds
 <1>2. StopInv => V!StopHolds
   BY DEF StopInv
 <1>3. QED
   BY <1>1, <1>2, StepStop, PTL DEF V!Spec

HIDE DEF started, stopped, pendingV, sockets, handlers, registered, removed,
         closedSocks, eventsV, accepting, leftV, arrived, came, failedV

-----------------------------------------------------------------------------
(* A parent of worker processes                                            *)

J == INSTANCE Workers WITH
       Pid <- PidJ, os <- v1, job <- v2, master <- v3, children <- v4,
       restarts <- v5, ended <- v6

(* Its variables. *)
osJ == v1
job == v2
master == v3
children == v4
restarts == v5
ended == v6

USE DEF osJ, job, master, children, restarts, ended

LEMMA SameCardinalityJ == \A S : J!Cardinality(S) = Cardinality(S)
  BY DEF J!Cardinality, Cardinality

WorkerCounts == Tasks \in Nat /\ MaxRestarts \in Nat

(* Each pid of the dictionary is that of a process, and no two are of one  *)
(* task.                                                                   *)
ByPid ==
  /\ children \in [DOMAIN children -> J!Task] /\ DOMAIN children \subseteq PidJ
  /\ \A p \in PidJ : p \in DOMAIN children <=> osJ[p] # "free" /\ job[p] # J!Other
  /\ \A p \in DOMAIN children :
       /\ children[p] = job[p] /\ children[p] \notin ended
       /\ \A q \in DOMAIN children : children[p] = children[q] => p = q

HasWorker(i) == \E p \in DOMAIN children : children[p] = i

(* The tasks are started in their order. *)
ForkingInOrder ==
  master = "forking" =>
    /\ ended = {} /\ IsFiniteSet(DOMAIN children)
    /\ \A i \in J!Task : HasWorker(i) <=> i < J!Cardinality(DOMAIN children)

(* No task is forgotten, except one by a parent that gave up. *)
TasksCared ==
  /\ master = "waiting" => restarts <= MaxRestarts /\ \A i \in J!Task : i \in ended \/ HasWorker(i)
  /\ master = "gave up" =>
       \E t \in J!Task \ ended :
         ~HasWorker(t) /\ \A i \in J!Task : i \in ended \/ i = t \/ HasWorker(i)
  /\ master = "exit" => ended = J!Task

WorkersTyped ==
  /\ osJ \in [PidJ -> {"free", "alive", "ok", "died"}] /\ job \in [PidJ -> J!Task \cup {J!Other}]
  /\ master \in {"forking", "waiting", "exit", "gave up"}
  /\ restarts \in 0..(MaxRestarts + 1) /\ ended \subseteq J!Task
  /\ master = "forking" => restarts = 0

WorkersInv == WorkersTyped /\ ByPid /\ ForkingInOrder /\ TasksCared

(* The workers of a task, as the dictionary has them. *)
LEMMA WorkersListed ==
  ASSUME WorkersInv, WorkerCounts, NEW i \in J!Task
  PROVE  J!Workers(i) = {p \in DOMAIN children : children[p] = i}
  BY DEF WorkersInv, ByPid, J!Workers, J!Task, J!Other, WorkerCounts

LEMMA WorkersInvImplies == WorkersInv /\ WorkerCounts => J!TypeOK /\ J!WorkersKnown
 <1> SUFFICES ASSUME WorkersInv, WorkerCounts PROVE J!TypeOK /\ J!WorkersKnown
   OBVIOUS
 <1>1. J!TypeOK
   BY DEF WorkersInv, WorkersTyped, ByPid, J!TypeOK
 <1>2. ASSUME NEW i \in J!Task
       PROVE  /\ J!Cardinality(J!Workers(i)) <= 1 /\ (i \in ended => J!Workers(i) = {})
              /\ J!Workers(i) = {} <=> ~HasWorker(i)
  <2>1. J!Workers(i) = {} <=> ~HasWorker(i)
    BY WorkersListed DEF HasWorker
  <2>2. i \in ended => J!Workers(i) = {}
    BY WorkersListed DEF WorkersInv, ByPid
  <2>3. J!Workers(i) = {} \/ \E p : J!Workers(i) = {p}
   <3>1. \A p, q \in J!Workers(i) : p = q
     BY WorkersListed DEF WorkersInv, ByPid
   <3>2. QED
     BY <3>1
  <2>4. J!Cardinality(J!Workers(i)) <= 1
   <3>1. CASE J!Workers(i) = {}
    <4>1. J!Cardinality({}) = 0
      BY FS_EmptySet, SameCardinalityJ
    <4>2. QED
      BY <3>1, <4>1
   <3>2. ASSUME NEW p, J!Workers(i) = {p} PROVE J!Cardinality(J!Workers(i)) <= 1
    <4>1. J!Cardinality({p}) = 1
      BY FS_Singleton, SameCardinalityJ
    <4>2. QED
      BY <3>2, <4>1
   <3>3. QED
     BY <2>3, <3>1, <3>2
  <2>5. QED
    BY <2>1, <2>2, <2>4
 <1>3. ASSUME master = "gave up"
       PROVE  J!Cardinality({i \in J!Task \ ended : J!Workers(i) = {}}) = 1
  <2>1. PICK t \in J!Task \ ended :
          ~HasWorker(t) /\ \A i \in J!Task : i \in ended \/ i = t \/ HasWorker(i)
    BY <1>3 DEF WorkersInv, TasksCared
  <2>2. {i \in J!Task \ ended : J!Workers(i) = {}} = {t}
    BY <2>1, <1>2
  <2>3. QED
    BY <2>2, FS_Singleton, SameCardinalityJ
 <1>4. QED
   BY <1>1, <1>2, <1>3 DEF J!WorkersKnown, WorkersInv, ByPid, TasksCared

-----------------------------------------------------------------------------
LEMMA InitWorkers == WorkerCounts /\ J!Init => WorkersInv
 <1> SUFFICES ASSUME WorkerCounts, J!Init PROVE WorkersInv
   OBVIOUS
 <1>1. IsFiniteSet(DOMAIN children) /\ J!Cardinality(DOMAIN children) = 0 /\ DOMAIN children = {}
   BY FS_EmptySet, SameCardinalityJ DEF J!Init
 <1>2. WorkersTyped
   BY DEF J!Init, WorkersTyped, WorkerCounts, J!Other
 <1>3. ByPid
   BY <1>1 DEF J!Init, ByPid
 <1>4. ForkingInOrder
   BY <1>1 DEF J!Init, ForkingInOrder, HasWorker, J!Task
 <1>5. TasksCared
   BY DEF J!Init, TasksCared
 <1>6. QED
   BY <1>2, <1>3, <1>4, <1>5 DEF WorkersInv

LEMMA StartChildKeeps ==
  ASSUME WorkersInv, WorkerCounts, NEW p \in PidJ, J!StartChild(p)
  PROVE  WorkersInv'
 <1> DEFINE n == J!Cardinality(DOMAIN children)
 <1>1. /\ master = "forking" /\ n \in J!Task /\ osJ[p] = "free" /\ p \notin DOMAIN children
       /\ osJ' = [osJ EXCEPT ![p] = "alive"] /\ job' = [job EXCEPT ![p] = n]
       /\ children' = J!Put(children, p, n) /\ UNCHANGED <<master, restarts, ended>>
   BY DEF J!StartChild, J!Free, WorkersInv, ByPid
 <1>2. /\ DOMAIN children' = DOMAIN children \cup {p}
       /\ children'[p] = n /\ \A q \in DOMAIN children : children'[q] = children[q]
   BY <1>1 DEF J!Put
 <1>3. IsFiniteSet(DOMAIN children') /\ J!Cardinality(DOMAIN children') = n + 1
   BY <1>1, <1>2, FS_AddElement, SameCardinalityJ DEF WorkersInv, ForkingInOrder
 <1>4. ended = {} /\ \A i \in J!Task : HasWorker(i) <=> i < n
   BY <1>1 DEF WorkersInv, ForkingInOrder
 <1> HIDE DEF n
 <1>5. n \in Nat /\ J!Other \notin J!Task
   BY <1>1 DEF J!Task, WorkerCounts, J!Other
 <1>6. WorkersTyped'
   BY <1>1 DEF WorkersInv, WorkersTyped
 <1>7. ByPid'
  <2>1. children' \in [DOMAIN children' -> J!Task] /\ DOMAIN children' \subseteq PidJ
    BY <1>1, <1>2 DEF WorkersInv, ByPid, J!Put
  <2>2. \A q \in PidJ : q \in DOMAIN children' <=> osJ'[q] # "free" /\ job'[q] # J!Other
    BY <1>1, <1>2, <1>5 DEF WorkersInv, ByPid, WorkersTyped
  <2>3. \A q \in DOMAIN children : children[q] # n
   <3>1. ~HasWorker(n)
     BY <1>1, <1>4, <1>5
   <3>2. QED
     BY <3>1 DEF HasWorker
  <2>4. \A q \in DOMAIN children : q \in PidJ /\ q # p /\ job'[q] = job[q] /\ job'[p] = n
    BY <1>1 DEF WorkersInv, ByPid, WorkersTyped
  <2>5. \A q \in DOMAIN children' :
          /\ children'[q] = job'[q] /\ children'[q] \notin ended'
          /\ \A r \in DOMAIN children' : children'[q] = children'[r] => q = r
    BY <1>1, <1>2, <1>4, <2>3, <2>4 DEF WorkersInv, ByPid, WorkersTyped
  <2>6. QED
    BY <2>1, <2>2, <2>5 DEF ByPid
 <1>8. ForkingInOrder'
  <2>1. \A i \in J!Task : HasWorker(i)' <=> HasWorker(i) \/ i = n
    BY <1>2 DEF HasWorker
  <2>2. \A i \in J!Task : HasWorker(i)' <=> i < n + 1
    BY <2>1, <1>4, <1>5 DEF J!Task
  <2>3. QED
    BY <1>1, <1>3, <1>4, <2>2 DEF ForkingInOrder
 <1>9. TasksCared'
   BY <1>1 DEF TasksCared
 <1>10. QED
   BY <1>6, <1>7, <1>8, <1>9 DEF WorkersInv

LEMMA StartedAllKeeps == WorkersInv /\ WorkerCounts /\ J!StartedAll => WorkersInv'
 <1> SUFFICES ASSUME WorkersInv, WorkerCounts, J!StartedAll PROVE WorkersInv'
   OBVIOUS
 <1>1. \A i \in J!Task : HasWorker(i)
   BY DEF J!StartedAll, WorkersInv, ForkingInOrder, J!Task, WorkerCounts
 <1>2. \A i \in J!Task : HasWorker(i)'
   BY <1>1 DEF J!StartedAll, HasWorker
 <1>3. restarts' <= MaxRestarts
   BY DEF J!StartedAll, WorkersInv, WorkersTyped, WorkerCounts
 <1>4. QED
   BY <1>2, <1>3 DEF J!StartedAll, WorkersInv, WorkersTyped, ByPid, ForkingInOrder, TasksCared

(* What the parent's dictionary says stays as it is. *)
LEMMA OthersKeep ==
  ASSUME WorkersInv, WorkerCounts, NEW p \in PidJ, J!ProcessEnds(p) \/ J!OtherChild(p) \/ J!WaitOther(p)
  PROVE  WorkersInv'
 <1>1. UNCHANGED <<master, children, restarts, ended>>
   BY DEF J!ProcessEnds, J!OtherChild, J!WaitOther
 <1>2. WorkersTyped'
   BY DEF J!ProcessEnds, J!OtherChild, J!WaitOther, WorkersInv, WorkersTyped
 <1>3. ByPid'
  <2>1. \A q \in PidJ : q \in DOMAIN children <=> osJ'[q] # "free" /\ job'[q] # J!Other
    BY DEF J!ProcessEnds, J!OtherChild, J!WaitOther, J!Waits, J!Free, WorkersInv, WorkersTyped,
       ByPid
  <2>2. \A q \in DOMAIN children : q \in PidJ /\ job'[q] = job[q]
    BY DEF J!ProcessEnds, J!OtherChild, J!WaitOther, J!Free, WorkersInv, WorkersTyped, ByPid
  <2>3. QED
    BY <1>1, <2>1, <2>2 DEF WorkersInv, ByPid
 <1>4. QED
   BY <1>1, <1>2, <1>3 DEF WorkersInv, ForkingInOrder, TasksCared, HasWorker

(* A child has been waited for: its pid leaves the dictionary. *)
LEMMA PopWorker ==
  ASSUME WorkersInv, NEW p \in DOMAIN children
  PROVE  /\ DOMAIN J!Pop(children, p) = DOMAIN children \ {p}
         /\ \A q \in DOMAIN children \ {p} : J!Pop(children, p)[q] = children[q]
         /\ J!Pop(children, p) \in [DOMAIN children \ {p} -> J!Task]
         /\ p \in PidJ /\ children[p] \in J!Task /\ children[p] = job[p] /\ children[p] \notin ended
         /\ \A q \in DOMAIN children \ {p} : children[q] # children[p]
  BY DEF J!Pop, J!Restrict, WorkersInv, ByPid

LEMMA WaitExitedKeeps ==
  ASSUME WorkersInv, WorkerCounts, NEW p \in PidJ, J!WaitExited(p)
  PROVE  WorkersInv'
 <1>1. /\ master = "waiting" /\ p \in DOMAIN children
       /\ osJ' = [osJ EXCEPT ![p] = "free"] /\ children' = J!Pop(children, p)
       /\ ended' = ended \cup {children[p]} /\ UNCHANGED <<job, master, restarts>>
   BY DEF J!WaitExited, J!Waits
 <1>2. /\ DOMAIN children' = DOMAIN children \ {p}
       /\ \A q \in DOMAIN children' : children'[q] = children[q] /\ children[q] # children[p]
       /\ children' \in [DOMAIN children' -> J!Task] /\ children[p] \in J!Task
   BY <1>1, PopWorker
 <1>3. WorkersTyped'
   BY <1>1, <1>2 DEF WorkersInv, WorkersTyped
 <1>4. ByPid'
   BY <1>1, <1>2 DEF WorkersInv, ByPid, WorkersTyped
 <1>5. \A i \in J!Task : i \in ended' \/ HasWorker(i)'
   BY <1>1, <1>2 DEF WorkersInv, TasksCared, HasWorker
 <1>6. QED
   BY <1>1, <1>3, <1>4, <1>5 DEF WorkersInv, WorkersTyped, ForkingInOrder, TasksCared

(* The parent gives up. *)
LEMMA GivingUpKeeps ==
  ASSUME WorkersInv, WorkerCounts, NEW p \in PidJ, J!WaitDied(p), restarts + 1 > MaxRestarts
  PROVE  WorkersInv'
 <1>1. /\ master = "waiting" /\ p \in DOMAIN children /\ master' = "gave up"
       /\ osJ' = [osJ EXCEPT ![p] = "free"] /\ children' = J!Pop(children, p)
       /\ restarts' = restarts + 1 /\ UNCHANGED <<job, ended>>
   BY DEF J!WaitDied, J!Waits
 <1>2. /\ DOMAIN children' = DOMAIN children \ {p}
       /\ \A q \in DOMAIN children' : children'[q] = children[q] /\ children[q] # children[p]
       /\ children' \in [DOMAIN children' -> J!Task] /\ children[p] \in J!Task \ ended
   BY <1>1, PopWorker
 <1>3. restarts' \in 0..(MaxRestarts + 1)
  <2>1. restarts <= MaxRestarts /\ restarts \in 0..(MaxRestarts + 1)
    BY <1>1 DEF WorkersInv, WorkersTyped, TasksCared
  <2>2. MaxRestarts \in Nat /\ restarts' = restarts + 1
    BY <1>1 DEF WorkerCounts
  <2>3. restarts \in Nat /\ restarts' \in Nat /\ restarts' <= MaxRestarts + 1
    BY <2>1, <2>2
  <2>4. QED
    BY <2>2, <2>3
 <1>4. WorkersTyped'
   BY <1>1, <1>3 DEF WorkersInv, WorkersTyped
 <1>5. ByPid'
  <2>1. \A q \in PidJ : q \in DOMAIN children' <=> osJ'[q] # "free" /\ job'[q] # J!Other
    BY <1>1, <1>2 DEF WorkersInv, ByPid, WorkersTyped
  <2>2. \A q \in DOMAIN children' :
          /\ children'[q] = job'[q] /\ children'[q] \notin ended'
          /\ \A r \in DOMAIN children' : children'[q] = children'[r] => q = r
   <3>1. \A q, r \in DOMAIN children' : children'[q] = children'[r] => q = r
     BY <1>2 DEF WorkersInv, ByPid
   <3>2. \A q \in DOMAIN children' : children'[q] = job[q] /\ children'[q] \notin ended
     BY <1>2 DEF WorkersInv, ByPid
   <3>3. QED
     BY <1>1, <3>1, <3>2
  <2>3. QED
    BY <1>2, <2>1, <2>2 DEF WorkersInv, ByPid
 <1>6. \A i \in J!Task : HasWorker(i)' <=> HasWorker(i) /\ i # children[p]
   BY <1>2 DEF HasWorker
 <1>7. \A i \in J!Task : i \in ended \/ HasWorker(i)
   BY <1>1 DEF WorkersInv, TasksCared
 <1>8. \E t \in J!Task \ ended' :
         ~HasWorker(t)' /\ \A i \in J!Task : i \in ended' \/ i = t \/ HasWorker(i)'
   BY <1>1, <1>2, <1>6, <1>7
 <1>9. TasksCared'
   BY <1>1, <1>8 DEF TasksCared
 <1>10. QED
   BY <1>1, <1>4, <1>5, <1>9 DEF WorkersInv, ForkingInOrder

(* Another worker is started for the task, whatever pid it gets. *)
LEMMA RestartKeeps ==
  ASSUME WorkersInv, WorkerCounts, NEW p \in PidJ, J!WaitDied(p), ~(restarts + 1 > MaxRestarts)
  PROVE  WorkersInv'
 <1>1. PICK q \in J!Free \cup {p} :
         /\ osJ' = [osJ EXCEPT ![p] = "free", ![q] = "alive"]
         /\ job' = [job EXCEPT ![q] = children[p]]
         /\ children' = J!Put(J!Pop(children, p), q, children[p])
         /\ UNCHANGED master
   BY DEF J!WaitDied
 <1>2. master = "waiting" /\ p \in DOMAIN children /\ restarts' = restarts + 1 /\ ended' = ended
   BY DEF J!WaitDied, J!Waits
 <1>3. q \in PidJ /\ (q = p \/ q \notin DOMAIN children)
   BY <1>1 DEF J!Free, WorkersInv, ByPid
 <1>4. /\ DOMAIN children' = (DOMAIN children \ {p}) \cup {q}
       /\ children'[q] = children[p] /\ children[p] \in J!Task \ ended
       /\ \A r \in DOMAIN children \ {p} :
            r # q /\ children'[r] = children[r] /\ children[r] # children[p]
       /\ children' \in [DOMAIN children' -> J!Task]
   BY <1>1, <1>2, <1>3, PopWorker DEF J!Put
 <1>5. restarts' \in 0..(MaxRestarts + 1) /\ restarts' <= MaxRestarts
   BY <1>2 DEF WorkersInv, WorkersTyped, WorkerCounts
 <1>6. WorkersTyped'
   BY <1>1, <1>2, <1>3, <1>4, <1>5 DEF WorkersInv, WorkersTyped
 <1>7. ByPid'
  <2>1. J!Other \notin J!Task
    BY DEF J!Task, J!Other, WorkerCounts
  <2>2. \A r \in PidJ : /\ osJ'[r] = IF r = q THEN "alive" ELSE IF r = p THEN "free" ELSE osJ[r]
                        /\ job'[r] = IF r = q THEN children[p] ELSE job[r]
    BY <1>1, <1>3 DEF WorkersInv, WorkersTyped
  <2>3. \A r \in PidJ : r \in DOMAIN children' <=> osJ'[r] # "free" /\ job'[r] # J!Other
    BY <1>3, <1>4, <2>1, <2>2 DEF WorkersInv, ByPid
  <2>4. DOMAIN children' \subseteq PidJ
    BY <1>3, <1>4 DEF WorkersInv, ByPid
  <2>5. \A r \in DOMAIN children' : children'[r] = job'[r] /\ children'[r] \notin ended'
    BY <1>2, <1>3, <1>4, <2>2, <2>4 DEF WorkersInv, ByPid
  <2>6. \A r, s \in DOMAIN children' : children'[r] = children'[s] => r = s
    BY <1>4 DEF WorkersInv, ByPid
  <2>7. QED
    BY <1>4, <2>3, <2>4, <2>5, <2>6 DEF ByPid
 <1>8. \A i \in J!Task : i \in ended' \/ HasWorker(i)'
   BY <1>2, <1>4 DEF WorkersInv, TasksCared, HasWorker
 <1>9. QED
   BY <1>1, <1>2, <1>5, <1>6, <1>7, <1>8 DEF WorkersInv, ForkingInOrder, TasksCared

LEMMA StepWorkers == WorkersInv /\ WorkerCounts /\ [J!Next]_(J!vars) => WorkersInv'
 <1> SUFFICES ASSUME WorkersInv, WorkerCounts, [J!Next]_(J!vars) PROVE WorkersInv'
   OBVIOUS
 <1>1. CASE J!AllExited
  <2>1. \A i \in J!Task : i \in ended
    BY <1>1 DEF J!AllExited, WorkersInv, TasksCared, HasWorker
  <2>2. ended = J!Task
    BY <2>1 DEF WorkersInv, WorkersTyped
  <2>3. QED
    BY <1>1, <2>2 DEF J!AllExited, WorkersInv, WorkersTyped, ByPid, ForkingInOrder, TasksCared
 <1>2. CASE UNCHANGED J!vars
   BY <1>2 DEF J!vars, WorkersInv, WorkersTyped, ByPid, ForkingInOrder, TasksCared, HasWorker
 <1>3. QED
   BY <1>1, <1>2, StartChildKeeps, StartedAllKeeps, OthersKeep, WaitExitedKeeps, GivingUpKeeps,
      RestartKeeps DEF J!Next

THEOREM ParentKnowsWorkers == WorkerCounts => (J!Spec => [](J!TypeOK /\ J!WorkersKnown))
 <1> SUFFICES ASSUME WorkerCounts PROVE J!Spec => [](J!TypeOK /\ J!WorkersKnown)
   OBVIOUS
 <1>1. J!Init => WorkersInv
   BY InitWorkers
 <1>2. WorkersInv => J!TypeOK /\ J!WorkersKnown
   BY WorkersInvImplies
 <1>3. WorkersInv /\ [J!Next]_(J!vars) => WorkersInv'
   BY StepWorkers
 <1>4. QED
   BY <1>1, <1>2, <1>3, PTL DEF J!Spec

HIDE DEF osJ, job, master, children, restarts, ended

-----------------------------------------------------------------------------
(* Subprocesses and SIGCHLD                                                *)

D == INSTANCE Subprocesses WITH
       Pid <- PidD, MaxCalls <- MaxCallsD, os <- v1, pid <- v2, callback <- v3,
       set <- v4, returned <- v5, told <- v6, waiting <- v7, initialized <- v8,
       cleanup <- v9, due <- v10, late <- v11, stolen <- v12

(* Its variables. *)
osD == v1
pid == v2
callback == v3
setD == v4
returned == v5
toldD == v6
waiting == v7
initialized == v8
cleanup == v9
due == v10
late == v11
stolen == v12

USE DEF osD, pid, callback, setD, returned, toldD, waiting, initialized, cleanup,
        due, late, stolen

(* Pids are numbers other than that of no process. *)
PidsGiven == D!NoPid \notin PidD /\ MaxCallsD \in Nat

ProcsTyped ==
  /\ osD \in [PidD -> {"free", "alive", "ended"}]
  /\ pid \in [Subproc -> PidD \cup {D!NoPid}] /\ callback \in [Subproc -> 0..MaxCallsD]
  /\ setD \in [Subproc -> 0..MaxCallsD] /\ returned \in [Subproc -> BOOLEAN]
  /\ toldD \in [Subproc -> Seq(Nat)]
  /\ waiting \in [DOMAIN waiting -> Subproc] /\ DOMAIN waiting \subseteq PidD
  /\ initialized \in BOOLEAN /\ cleanup \in BOOLEAN
  /\ due \subseteq Subproc /\ late \subseteq Subproc /\ stolen \subseteq Subproc

(* Nothing happens to an object before its process is there. *)
Unborn ==
  \A s \in Subproc : pid[s] = D!NoPid =>
    s \notin due /\ s \notin late /\ ~returned[s] /\ callback[s] = D!NoCallback

(* Who waits for a pid has, or had, its process, or has set his callback   *)
(* too late.                                                               *)
WaitersKnow ==
  \A p \in DOMAIN waiting :
    pid[waiting[p]] = p /\ (waiting[p] \in late \/ waiting[p] \in D!Owner(p))

Tainted(p) == \E t \in late : pid[t] = p

(* As long as no callback for a pid was set too late: its process has one  *)
(* owner at most, is not waited for by anybody else, and is found ended.   *)
OwnersApart ==
  \A p \in PidD : Tainted(p) \/
    /\ \A s, t \in D!Owner(p) : s = t
    /\ \A s \in D!Owner(p) :
         /\ osD[p] # "free"
         /\ callback[s] # D!NoCallback =>
              p \in DOMAIN waiting /\ waiting[p] = s /\ (osD[p] = "ended" => cleanup)
    /\ p \in DOMAIN waiting => waiting[p] \in D!Owner(p)

(* What an object was told, and has still to be told. *)
ToldInOrder ==
  \A s \in Subproc :
    /\ callback[s] \in {D!NoCallback, setD[s]} /\ (callback[s] # D!NoCallback => initialized)
    /\ \A i, j \in DOMAIN toldD[s] : i < j => toldD[s][i] < toldD[s][j]
    /\ \A i \in DOMAIN toldD[s] :
         toldD[s][i] <= setD[s] /\ (callback[s] # D!NoCallback => toldD[s][i] < callback[s])
ToldOnTime ==
  \A s \in Subproc \ late :
    /\ s \in due => ~returned[s]
    /\ ~returned[s] => toldD[s] = <<>> /\ callback[s] = setD[s]
    /\ returned[s] => callback[s] = D!NoCallback /\ toldD[s] = IF setD[s] = 0 THEN <<>> ELSE <<setD[s]>>

ProcsInv ==
  /\ ProcsTyped /\ Unborn /\ WaitersKnow /\ OwnersApart /\ ToldInOrder /\ ToldOnTime
  /\ stolen \subseteq late

LEMMA ProcsInvImplies == ProcsInv => D!TypeOK /\ D!SubprocessSound
 <1> SUFFICES ASSUME ProcsInv PROVE D!TypeOK /\ D!SubprocessSound
   OBVIOUS
 <1>1. D!EndNotMissed
  <2>1. SUFFICES ASSUME NEW s \in Subproc, callback[s] # D!NoCallback, s \in D!Owner(pid[s])
                 PROVE  \/ /\ pid[s] \in DOMAIN waiting /\ waiting[pid[s]] = s
                           /\ osD[pid[s]] = "ended" => cleanup
                        \/ Tainted(pid[s])
    BY DEF D!EndNotMissed, Tainted
  <2>2. pid[s] \in PidD
    BY <2>1 DEF ProcsInv, ProcsTyped, Unborn
  <2>3. QED
    BY <2>1, <2>2 DEF ProcsInv, OwnersApart
 <1>2. D!ToldOnce
  <2>1. \A s \in Subproc : \A i, j \in DOMAIN toldD[s] : i < j => toldD[s][i] < toldD[s][j]
    BY DEF ProcsInv, ToldInOrder
  <2>2. \A s \in Subproc : s \notin late => Len(toldD[s]) <= 1
   <3>1. \A s \in Subproc \ late : toldD[s] = <<>> \/ toldD[s] = <<setD[s]>>
     BY DEF ProcsInv, ProcsTyped, ToldOnTime
   <3>2. \A x : Len(<<x>>) <= 1 /\ Len(<<>>) <= 1
     OBVIOUS
   <3>3. QED
     BY <3>1, <3>2, Zenon
  <2>3. \A s \in Subproc : s \notin late /\ setD[s] > 0 /\ returned[s] => toldD[s] = <<setD[s]>>
    BY DEF ProcsInv, ProcsTyped, ToldOnTime
  <2>4. QED
    BY <2>1, <2>2, <2>3 DEF D!ToldOnce, ProcsInv
 <1>3. QED
   BY <1>1, <1>2 DEF D!SubprocessSound, D!TypeOK, ProcsInv, ProcsTyped

LEMMA InitProcs == PidsGiven /\ D!Init => ProcsInv
 <1> SUFFICES ASSUME PidsGiven, D!Init PROVE ProcsInv
   OBVIOUS
 <1> USE DEF D!Init
 <1>1. DOMAIN waiting = {} /\ waiting \in [DOMAIN waiting -> Subproc]
   OBVIOUS
 <1>2. ProcsTyped
  <2>1. 0 \in 0..MaxCallsD /\ <<>> \in Seq(Nat)
    BY DEF PidsGiven
  <2>2. toldD \in [Subproc -> Seq(Nat)]
    BY <2>1
  <2>3. QED
    BY <1>1, <2>1, <2>2 DEF ProcsTyped, D!NoPid, D!NoCallback
 <1>3. Unborn /\ WaitersKnow /\ stolen \subseteq late
   BY <1>1 DEF Unborn, WaitersKnow
 <1>4. \A p \in PidD : D!Owner(p) = {}
   BY DEF D!Owner, PidsGiven
 <1>5. OwnersApart
   BY <1>1, <1>4 DEF OwnersApart
 <1>6. ToldInOrder /\ ToldOnTime
   BY DEF ToldInOrder, ToldOnTime, D!NoCallback
 <1>7. QED
   BY <1>2, <1>3, <1>5, <1>6 DEF ProcsInv

-----------------------------------------------------------------------------
LEMMA PopenKeeps ==
  ASSUME ProcsInv, PidsGiven, NEW s \in Subproc, NEW p \in PidD, D!Popen(s, p)
  PROVE  ProcsInv'
 <1>1. /\ pid[s] = D!NoPid /\ osD[p] = "free" /\ p # D!NoPid
       /\ pid' = [pid EXCEPT ![s] = p] /\ osD' = [osD EXCEPT ![p] = "alive"]
       /\ UNCHANGED <<callback, setD, returned, toldD, waiting, initialized, cleanup, due, late,
                      stolen>>
   BY DEF D!Popen, PidsGiven
 <1>2. s \notin due /\ s \notin late /\ ~returned[s] /\ callback[s] = D!NoCallback
   BY <1>1 DEF ProcsInv, Unborn
 <1>3. /\ \A t \in Subproc : pid'[t] = IF t = s THEN p ELSE pid[t]
       /\ \A q \in PidD : osD'[q] = IF q = p THEN "alive" ELSE osD[q]
   BY <1>1 DEF ProcsInv, ProcsTyped
 <1>4. \A q \in PidD : /\ D!Owner(q)' = IF q = p THEN D!Owner(q) \cup {s} ELSE D!Owner(q)
                       /\ Tainted(q)' <=> Tainted(q)
  <2>1. \A t \in Subproc : \A q \in PidD : t \in D!Owner(q)' <=> t \in D!Owner(q) \/ (t = s /\ q = p)
    BY <1>1, <1>2, <1>3, PidsGiven DEF D!Owner, PidsGiven
  <2>2. \A q \in PidD : D!Owner(q) \subseteq Subproc /\ D!Owner(q)' \subseteq Subproc
    BY DEF D!Owner
  <2>3. \A t \in late : pid'[t] = pid[t]
    BY <1>2, <1>3 DEF ProcsInv, ProcsTyped
  <2>4. QED
    BY <1>1, <2>1, <2>2, <2>3 DEF Tainted
 <1>5. ProcsTyped'
   BY <1>1 DEF ProcsInv, ProcsTyped
 <1>6. Unborn'
   BY <1>1, <1>3 DEF ProcsInv, Unborn
 <1>7. WaitersKnow'
  <2>1. ASSUME NEW q \in DOMAIN waiting PROVE waiting[q] # s /\ waiting[q] \in Subproc /\ q \in PidD
    BY <1>1 DEF ProcsInv, ProcsTyped, WaitersKnow, PidsGiven
  <2>2. QED
    BY <1>1, <1>3, <1>4, <2>1 DEF ProcsInv, WaitersKnow
 <1>8. OwnersApart'
  <2>1. ASSUME NEW q \in PidD, ~Tainted(q), q = p PROVE D!Owner(q) = {} /\ q \notin DOMAIN waiting
    BY <2>1, <1>1 DEF ProcsInv, OwnersApart
  <2>2. QED
    BY <1>1, <1>2, <1>3, <1>4, <2>1 DEF ProcsInv, OwnersApart
 <1>9. ToldInOrder' /\ ToldOnTime'
   BY <1>1 DEF ProcsInv, ToldInOrder, ToldOnTime
 <1>10. QED
   BY <1>1, <1>5, <1>6, <1>7, <1>8, <1>9 DEF ProcsInv

(* Processes come, end and are waited for by others. *)
LEMMA ProcessesKeep ==
  ASSUME ProcsInv, PidsGiven, NEW p \in PidD, D!OtherChild(p) \/ D!OtherWaited(p) \/ D!ProcessEnds(p)
  PROVE  ProcsInv'
 <1>1. /\ UNCHANGED <<waiting, initialized, due, late, stolen>> /\ UNCHANGED D!objectVars
       /\ \/ osD[p] = "free" /\ osD' = [osD EXCEPT ![p] = "alive"] /\ cleanup' = cleanup
          \/ D!Owner(p) = {} /\ osD' = [osD EXCEPT ![p] = "free"] /\ cleanup' = cleanup
          \/ /\ osD[p] = "alive" /\ osD' = [osD EXCEPT ![p] = "ended"]
             /\ cleanup' = (cleanup \/ initialized)
   BY DEF D!OtherChild, D!OtherWaited, D!ProcessEnds, D!objectVars
 <1>2. ProcsTyped'
   BY <1>1 DEF ProcsInv, ProcsTyped, D!objectVars
 <1>3. \A q \in PidD : D!Owner(q)' = D!Owner(q) /\ (Tainted(q)' <=> Tainted(q))
   BY <1>1 DEF D!Owner, Tainted, D!objectVars
 <1>4. Unborn' /\ WaitersKnow' /\ ToldInOrder' /\ ToldOnTime' /\ stolen' \subseteq late'
   BY <1>1, <1>3 DEF ProcsInv, ProcsTyped, Unborn, WaitersKnow, ToldInOrder, ToldOnTime,
      D!objectVars
 <1>5. OwnersApart'
  <2>1. \A q \in PidD : q # p => osD'[q] = osD[q]
    BY <1>1 DEF ProcsInv, ProcsTyped
  <2>2. cleanup => cleanup'
    BY <1>1
  <2>3. ASSUME ~Tainted(p), NEW s \in D!Owner(p)
        PROVE  /\ osD'[p] # "free"
               /\ callback[s] # D!NoCallback /\ osD'[p] = "ended" => cleanup'
   <3>1. s \in Subproc /\ osD[p] # "free"
     BY <2>3 DEF ProcsInv, OwnersApart, D!Owner
   <3>2. callback[s] # D!NoCallback => initialized
     BY <3>1 DEF ProcsInv, ToldInOrder
   <3>3. QED
     BY <1>1, <2>3, <3>1, <3>2 DEF ProcsInv, ProcsTyped
  <2>4. UNCHANGED <<waiting, callback>>
    BY <1>1 DEF D!objectVars
  <2>5. QED
    BY <1>3, <2>1, <2>2, <2>3, <2>4 DEF ProcsInv, OwnersApart
 <1>6. QED
   BY <1>2, <1>4, <1>5 DEF ProcsInv

-----------------------------------------------------------------------------
(* The status of a process is found: its waiter gets it. *)
LEMMA CleanupKeeps == ProcsInv /\ PidsGiven /\ D!Cleanup => ProcsInv'
 <1> SUFFICES ASSUME ProcsInv, PidsGiven, D!Cleanup PROVE ProcsInv'
   OBVIOUS
 <1> DEFINE gone == {p \in DOMAIN waiting : osD[p] = "ended"}
            mine == {waiting[p] : p \in gone}
 <1>1. /\ waiting' = D!Restrict(waiting, DOMAIN waiting \ gone)
       /\ due' = due \cup mine /\ stolen' = stolen \cup {s \in mine : s \notin D!Owner(pid[s])}
       /\ osD' = [p \in PidD |-> IF p \in gone THEN "free" ELSE osD[p]]
       /\ UNCHANGED <<initialized, late, pid, callback, setD, returned, toldD>>
       /\ cleanup' \in BOOLEAN
   BY DEF D!Cleanup, D!TryCleanup, D!objectVars
 <1>2. /\ DOMAIN waiting' = DOMAIN waiting \ gone
       /\ \A p \in DOMAIN waiting' : waiting'[p] = waiting[p]
       /\ waiting' \in [DOMAIN waiting' -> Subproc]
   BY <1>1 DEF D!Restrict, ProcsInv, ProcsTyped
 <1>3. /\ mine \subseteq Subproc /\ gone \subseteq PidD
       /\ \A s \in mine : pid[s] \in gone /\ waiting[pid[s]] = s /\ (s \in late \/ s \in D!Owner(pid[s]))
   BY DEF ProcsInv, ProcsTyped, WaitersKnow
 <1>4. \A p \in PidD : D!Owner(p)' = D!Owner(p) \ mine /\ (Tainted(p)' <=> Tainted(p))
   BY <1>1 DEF D!Owner, Tainted
 <1>5. \A p \in PidD : p \notin gone => \A s \in D!Owner(p) : s \notin mine
   BY <1>3 DEF D!Owner
 <1> HIDE DEF mine, gone
 <1>6. ProcsTyped'
   BY <1>1, <1>2, <1>3 DEF ProcsInv, ProcsTyped
 <1>7. Unborn'
   BY <1>1, <1>3 DEF ProcsInv, Unborn, PidsGiven
 <1>8. WaitersKnow'
  <2>1. ASSUME NEW q \in DOMAIN waiting'
        PROVE  pid'[waiting'[q]] = q /\ (waiting'[q] \in late' \/ waiting'[q] \in D!Owner(q)')
   <3>1. q \in DOMAIN waiting /\ q \in PidD /\ q \notin gone /\ waiting'[q] = waiting[q]
     BY <1>2 DEF ProcsInv, ProcsTyped
   <3>2. pid[waiting[q]] = q /\ (waiting[q] \in late \/ waiting[q] \in D!Owner(q))
     BY <3>1 DEF ProcsInv, WaitersKnow
   <3>3. QED
     BY <1>1, <1>4, <1>5, <3>1, <3>2
  <2>2. QED
    BY <2>1 DEF WaitersKnow
 <1>9. OwnersApart'
  <2>1. ASSUME NEW p \in PidD, ~Tainted(p), p \in gone
        PROVE  D!Owner(p)' = {} /\ p \notin DOMAIN waiting'
   <3>1. p \in DOMAIN waiting /\ waiting[p] \in mine
     BY <2>1 DEF gone, mine
   <3>2. \A s \in D!Owner(p) : s = waiting[p]
     BY <2>1, <3>1 DEF ProcsInv, OwnersApart
   <3>3. QED
     BY <1>2, <1>4, <2>1, <3>1, <3>2
  <2>2. ASSUME NEW p \in PidD, ~Tainted(p), p \notin gone
        PROVE  /\ D!Owner(p)' = D!Owner(p) /\ osD'[p] = osD[p]
               /\ p \in DOMAIN waiting' <=> p \in DOMAIN waiting
               /\ p \in DOMAIN waiting => waiting'[p] = waiting[p] /\ osD[p] # "ended"
    BY <1>1, <1>2, <1>4, <1>5, <2>2 DEF gone
  <2>3. ASSUME NEW p \in PidD, ~Tainted(p), p \notin gone
        PROVE  /\ \A s, t \in D!Owner(p)' : s = t
               /\ \A s \in D!Owner(p)' :
                    /\ osD'[p] # "free"
                    /\ callback'[s] # D!NoCallback =>
                         /\ p \in DOMAIN waiting' /\ waiting'[p] = s
                         /\ osD'[p] = "ended" => cleanup'
               /\ p \in DOMAIN waiting' => waiting'[p] \in D!Owner(p)'
   <3>1. /\ \A s, t \in D!Owner(p) : s = t
         /\ \A s \in D!Owner(p) :
              /\ osD[p] # "free"
              /\ callback[s] # D!NoCallback => p \in DOMAIN waiting /\ waiting[p] = s
         /\ p \in DOMAIN waiting => waiting[p] \in D!Owner(p)
     BY <2>3 DEF ProcsInv, OwnersApart
   <3>2. /\ D!Owner(p)' = D!Owner(p) /\ osD'[p] = osD[p]
         /\ p \in DOMAIN waiting' <=> p \in DOMAIN waiting
         /\ p \in DOMAIN waiting => waiting'[p] = waiting[p] /\ osD[p] # "ended"
     BY <2>2, <2>3
   <3>3. QED
     BY <1>1, <3>1, <3>2
  <2>4. QED
    BY <1>4, <2>1, <2>3 DEF OwnersApart
 <1>10. ToldInOrder'
   BY <1>1 DEF ProcsInv, ToldInOrder
 <1>11. \A s \in mine : s \notin late => ~returned[s]
   BY <1>3 DEF D!Owner
 <1>12. ToldOnTime'
   BY <1>1, <1>11 DEF ProcsInv, ToldOnTime
 <1>13. stolen' \subseteq late'
   BY <1>1, <1>3 DEF ProcsInv
 <1>14. QED
   BY <1>6, <1>7, <1>8, <1>9, <1>10, <1>12, <1>13 DEF ProcsInv

(* A callback is set: its process has ended already, or is waited for. *)
LEMMA SetCases ==
  ASSUME ProcsInv, PidsGiven, NEW s \in Subproc, D!SetExitCallback(s)
  PROVE  \E p \in PidD :
         /\ p = pid[s]
         /\ DOMAIN waiting' \subseteq PidD /\ waiting' \in [DOMAIN waiting' -> Subproc]
         /\ \A q \in PidD \ {p} : /\ osD'[q] = osD[q]
                                  /\ q \in DOMAIN waiting' <=> q \in DOMAIN waiting
                                  /\ q \in DOMAIN waiting => waiting'[q] = waiting[q]
         /\ osD' \in [PidD -> {"free", "alive", "ended"}]
         /\ stolen' = stolen \/ (stolen' = stolen \cup {s} /\ s \notin D!Owner(p))
         /\ \/ p \notin DOMAIN waiting' /\ due' = due \cup {s}
            \/ /\ osD'[p] # "ended" /\ osD'[p] = osD[p] /\ due' = due
               /\ p \in DOMAIN waiting' /\ waiting'[p] = s
 <1>1. PICK p \in PidD : p = pid[s]
   BY DEF D!SetExitCallback, ProcsInv, ProcsTyped
 <1> DEFINE w == D!Put(waiting, p, s)
            gone == {q \in {p} : osD[q] = "ended"}
            mine == {w[q] : q \in gone}
 <1>2. /\ waiting' = D!Restrict(w, DOMAIN w \ gone)
       /\ due' = due \cup mine /\ stolen' = stolen \cup {t \in mine : t \notin D!Owner(pid[t])}
       /\ osD' = [q \in PidD |-> IF q \in gone THEN "free" ELSE osD[q]]
   BY <1>1 DEF D!SetExitCallback, D!FirstTry, D!TryCleanup
 <1>3. /\ DOMAIN w = DOMAIN waiting \cup {p} /\ w[p] = s
       /\ \A q \in DOMAIN waiting \ {p} : w[q] = waiting[q] /\ waiting[q] \in Subproc
       /\ DOMAIN w \subseteq PidD
   BY <1>1 DEF D!Put, ProcsInv, ProcsTyped
 <1> HIDE DEF w
 <1>4. DOMAIN waiting' = DOMAIN w \ gone /\ \A q \in DOMAIN waiting' : waiting'[q] = w[q]
   BY <1>2 DEF D!Restrict
 <1>5. waiting' \in [DOMAIN waiting' -> Subproc]
   BY <1>2, <1>3 DEF D!Restrict
 <1>6. osD' \in [PidD -> {"free", "alive", "ended"}]
   BY <1>2 DEF ProcsInv, ProcsTyped
 <1>7. CASE osD[p] = "ended"
  <2>1. gone = {p} /\ mine = {s}
    BY <1>3, <1>7
  <2> HIDE DEF mine, gone
  <2>2. p \notin DOMAIN waiting' /\ due' = due \cup {s}
    BY <1>2, <1>4, <2>1
  <2>3. stolen' = stolen \/ (stolen' = stolen \cup {s} /\ s \notin D!Owner(p))
    BY <1>1, <1>2, <2>1
  <2>4. \A q \in PidD \ {p} : /\ osD'[q] = osD[q]
                              /\ q \in DOMAIN waiting' <=> q \in DOMAIN waiting
                              /\ q \in DOMAIN waiting => waiting'[q] = waiting[q]
    BY <1>2, <1>3, <1>4, <2>1
  <2>5. QED
    BY <1>1, <1>3, <1>4, <1>5, <1>6, <2>2, <2>3, <2>4
 <1>8. CASE osD[p] # "ended"
  <2>1. gone = {} /\ mine = {}
    BY <1>8
  <2> HIDE DEF mine, gone
  <2>2. p \in DOMAIN waiting' /\ waiting'[p] = s /\ due' = due /\ osD'[p] = osD[p]
    BY <1>2, <1>3, <1>4, <2>1
  <2>3. stolen' = stolen
    BY <1>2, <2>1
  <2>4. \A q \in PidD \ {p} : /\ osD'[q] = osD[q]
                              /\ q \in DOMAIN waiting' <=> q \in DOMAIN waiting
                              /\ q \in DOMAIN waiting => waiting'[q] = waiting[q]
    BY <1>2, <1>3, <1>4, <2>1
  <2>5. QED
    BY <1>1, <1>3, <1>4, <1>5, <1>6, <1>8, <2>2, <2>3, <2>4
 <1>9. QED
   BY <1>7, <1>8

LEMMA SetExitCallbackKeeps ==
  ASSUME ProcsInv, PidsGiven, NEW s \in Subproc, D!SetExitCallback(s)
  PROVE  ProcsInv'
 <1>1. PICK p \in PidD :
         /\ p = pid[s]
         /\ DOMAIN waiting' \subseteq PidD /\ waiting' \in [DOMAIN waiting' -> Subproc]
         /\ \A q \in PidD \ {p} : /\ osD'[q] = osD[q]
                                  /\ q \in DOMAIN waiting' <=> q \in DOMAIN waiting
                                  /\ q \in DOMAIN waiting => waiting'[q] = waiting[q]
         /\ osD' \in [PidD -> {"free", "alive", "ended"}]
         /\ stolen' = stolen \/ (stolen' = stolen \cup {s} /\ s \notin D!Owner(p))
         /\ \/ p \notin DOMAIN waiting' /\ due' = due \cup {s}
            \/ /\ osD'[p] # "ended" /\ osD'[p] = osD[p] /\ due' = due
               /\ p \in DOMAIN waiting' /\ waiting'[p] = s
   BY SetCases
 <1>2. \A q \in PidD \ {p} : /\ osD'[q] = osD[q]
                             /\ q \in DOMAIN waiting' <=> q \in DOMAIN waiting
                             /\ q \in DOMAIN waiting => waiting'[q] = waiting[q]
   BY <1>1
 <1>3. stolen' = stolen \/ (stolen' = stolen \cup {s} /\ s \notin D!Owner(p))
   BY <1>1
 <1>4. \/ p \notin DOMAIN waiting' /\ due' = due \cup {s}
       \/ /\ osD'[p] # "ended" /\ osD'[p] = osD[p] /\ due' = due
          /\ p \in DOMAIN waiting' /\ waiting'[p] = s
   BY <1>1
 <1>5. /\ setD[s] < MaxCallsD
       /\ setD' = [setD EXCEPT ![s] = @ + 1] /\ callback' = [callback EXCEPT ![s] = setD[s] + 1]
       /\ initialized' = TRUE /\ UNCHANGED <<pid, returned, toldD, cleanup>>
       /\ late' = IF s \in D!Owner(p) THEN late ELSE late \cup {s}
   BY <1>1 DEF D!SetExitCallback
 <1>6. /\ setD[s] \in Nat /\ setD[s] + 1 \in 1..MaxCallsD /\ pid[s] = p
       /\ \A t \in Subproc : /\ setD'[t] = IF t = s THEN setD[s] + 1 ELSE setD[t]
                             /\ callback'[t] = IF t = s THEN setD[s] + 1 ELSE callback[t]
   BY <1>1, <1>5 DEF ProcsInv, ProcsTyped, PidsGiven
 <1>7. ProcsTyped'
  <2>1. setD' \in [Subproc -> 0..MaxCallsD] /\ callback' \in [Subproc -> 0..MaxCallsD]
    BY <1>5, <1>6 DEF ProcsInv, ProcsTyped
  <2>2. due' \subseteq Subproc /\ late' \subseteq Subproc /\ stolen' \subseteq Subproc
    BY <1>3, <1>4, <1>5 DEF ProcsInv, ProcsTyped
  <2>3. QED
    BY <1>1, <1>5, <2>1, <2>2 DEF ProcsInv, ProcsTyped
 <1>8. Unborn'
   BY <1>1, <1>4, <1>5, <1>6 DEF ProcsInv, Unborn, PidsGiven
 <1>9. /\ \A q \in PidD \ {p} : D!Owner(q)' = D!Owner(q) /\ (Tainted(q)' <=> Tainted(q))
       /\ D!Owner(p)' \subseteq D!Owner(p) /\ (s \in due' => s \notin D!Owner(p)')
       /\ due' = due => D!Owner(p)' = D!Owner(p)
       /\ \A t \in D!Owner(p) : t # s => t \in D!Owner(p)'
       /\ Tainted(p) => Tainted(p)'
       /\ ~Tainted(p)' => s \in D!Owner(p)
  <2>1. \A q \in PidD : D!Owner(q)' = {t \in D!Owner(q) : t \notin due' \ due}
    BY <1>4, <1>5 DEF D!Owner
  <2>2. due' \ due \subseteq {s} /\ (s \in due' => s \notin D!Owner(p)')
    BY <1>4 DEF D!Owner
  <2>3. \A q \in PidD \ {p} : s \notin D!Owner(q)
    BY <1>6 DEF D!Owner
  <2>4. \A q \in PidD \ {p} : Tainted(q)' <=> Tainted(q)
    BY <1>5, <1>6 DEF Tainted
  <2>5. (Tainted(p) => Tainted(p)') /\ (~Tainted(p)' => s \in D!Owner(p))
    BY <1>5, <1>6 DEF Tainted
  <2>6. QED
    BY <2>1, <2>2, <2>3, <2>4, <2>5
 <1>10. WaitersKnow'
  <2>1. ASSUME NEW q \in DOMAIN waiting', q # p
        PROVE  /\ pid'[waiting'[q]] = q
               /\ waiting'[q] \in late' \/ waiting'[q] \in D!Owner(q)'
   <3>1. q \in PidD /\ q \in DOMAIN waiting /\ waiting'[q] = waiting[q]
     BY <1>1, <1>2, <2>1
   <3>2. pid[waiting[q]] = q /\ (waiting[q] \in late \/ waiting[q] \in D!Owner(q))
     BY <3>1 DEF ProcsInv, WaitersKnow
   <3>3. QED
     BY <1>5, <1>9, <2>1, <3>1, <3>2
  <2>2. ASSUME p \in DOMAIN waiting'
        PROVE  /\ pid'[waiting'[p]] = p
               /\ waiting'[p] \in late' \/ waiting'[p] \in D!Owner(p)'
    BY <1>4, <1>5, <1>6, <1>9, <2>2
  <2>3. QED
    BY <2>1, <2>2 DEF WaitersKnow
 <1>11. OwnersApart'
  <2>1. ASSUME NEW q \in PidD, q # p, ~Tainted(q)'
        PROVE  /\ \A t, u \in D!Owner(q)' : t = u
               /\ \A t \in D!Owner(q)' :
                    /\ osD'[q] # "free"
                    /\ callback'[t] # D!NoCallback =>
                         /\ q \in DOMAIN waiting' /\ waiting'[q] = t
                         /\ osD'[q] = "ended" => cleanup'
               /\ q \in DOMAIN waiting' => waiting'[q] \in D!Owner(q)'
   <3>1. \A t \in D!Owner(q) : t \in Subproc /\ callback'[t] = callback[t]
     BY <1>6, <2>1 DEF D!Owner
   <3>2. QED
     BY <1>2, <1>5, <1>9, <2>1, <3>1 DEF ProcsInv, OwnersApart
  <2>2. ASSUME ~Tainted(p)'
        PROVE  /\ \A t, u \in D!Owner(p)' : t = u
               /\ \A t \in D!Owner(p)' :
                    /\ osD'[p] # "free"
                    /\ callback'[t] # D!NoCallback =>
                         /\ p \in DOMAIN waiting' /\ waiting'[p] = t
                         /\ osD'[p] = "ended" => cleanup'
               /\ p \in DOMAIN waiting' => waiting'[p] \in D!Owner(p)'
   <3>1. s \in D!Owner(p) /\ \A t \in D!Owner(p) : t = s /\ osD[p] # "free"
     BY <1>1, <1>9, <2>2 DEF ProcsInv, OwnersApart
   <3>2. QED
     BY <1>4, <1>9, <3>1
  <2>3. QED
    BY <2>1, <2>2 DEF OwnersApart
 <1>12. ToldInOrder'
  <2>1. ASSUME NEW t \in Subproc
        PROVE  /\ callback'[t] \in {D!NoCallback, setD'[t]}
               /\ \A i \in DOMAIN toldD[t] :
                    toldD[t][i] <= setD'[t] /\ (callback'[t] # D!NoCallback => toldD[t][i] < callback'[t])
   <3>1. CASE t = s
    <4>1. \A i \in DOMAIN toldD[t] : toldD[t][i] \in Nat /\ toldD[t][i] <= setD[t]
      BY DEF ProcsInv, ProcsTyped, ToldInOrder
    <4>2. QED
      BY <1>6, <3>1, <4>1
   <3>2. CASE t # s
     BY <1>6, <3>2 DEF ProcsInv, ToldInOrder
   <3>3. QED
     BY <3>1, <3>2
  <2>2. QED
    BY <1>5, <2>1 DEF ProcsInv, ToldInOrder
 <1>13. ToldOnTime'
  <2>1. ASSUME s \notin late' PROVE s \in D!Owner(p) /\ ~returned[s] /\ s \notin late
    BY <1>5, <2>1 DEF D!Owner
  <2>2. ASSUME NEW t \in Subproc \ late', t # s
        PROVE  /\ t \notin late /\ setD'[t] = setD[t] /\ callback'[t] = callback[t]
               /\ t \in due' <=> t \in due
    BY <1>4, <1>5, <1>6, <2>2
  <2>3. ASSUME s \notin late'
        PROVE  /\ ~returned'[s] /\ toldD'[s] = <<>> /\ callback'[s] = setD'[s]
   <3>1. s \notin late /\ ~returned[s]
     BY <2>1, <2>3
   <3>2. toldD[s] = <<>>
     BY <3>1 DEF ProcsInv, ToldOnTime
   <3>3. QED
     BY <1>5, <1>6, <3>1, <3>2
  <2>4. ASSUME NEW t \in Subproc \ late'
        PROVE  /\ t \in due' => ~returned'[t]
               /\ ~returned'[t] => toldD'[t] = <<>> /\ callback'[t] = setD'[t]
               /\ returned'[t] => /\ callback'[t] = D!NoCallback
                                  /\ toldD'[t] = IF setD'[t] = 0 THEN <<>> ELSE <<setD'[t]>>
   <3>1. CASE t = s
     BY <2>3, <2>4, <3>1
   <3>2. CASE t # s
     BY <1>5, <2>2, <2>4, <3>2 DEF ProcsInv, ToldOnTime
   <3>3. QED
     BY <3>1, <3>2
  <2>5. QED
    BY <2>4 DEF ToldOnTime
 <1>14. stolen' \subseteq late'
   BY <1>3, <1>5 DEF ProcsInv
 <1>15. QED
   BY <1>7, <1>8, <1>10, <1>11, <1>12, <1>13, <1>14 DEF ProcsInv

LEMMA SetReturncodeKeeps ==
  ASSUME ProcsInv, PidsGiven, NEW s \in Subproc, D!SetReturncode(s)
  PROVE  ProcsInv'
 <1>1. /\ s \in due /\ due' = due \ {s}
       /\ returned' = [returned EXCEPT ![s] = TRUE]
       /\ callback' = [callback EXCEPT ![s] = D!NoCallback]
       /\ UNCHANGED <<osD, pid, setD, waiting, initialized, cleanup, late, stolen>>
   BY DEF D!SetReturncode
 <1>2. /\ \A t \in Subproc : /\ returned'[t] = IF t = s THEN TRUE ELSE returned[t]
                             /\ callback'[t] = IF t = s THEN D!NoCallback ELSE callback[t]
                             /\ t # s => toldD'[t] = toldD[t]
       /\ toldD'[s] = IF callback[s] = D!NoCallback THEN toldD[s] ELSE Append(toldD[s], callback[s])
   BY <1>1 DEF D!SetReturncode, ProcsInv, ProcsTyped
 <1>3. toldD[s] \in Seq(Nat) /\ callback[s] \in Nat /\ setD[s] \in Nat
   BY DEF ProcsInv, ProcsTyped
 <1>4. toldD'[s] \in Seq(Nat)
   BY <1>2, <1>3
 <1>5. ProcsTyped'
  <2>1. toldD' \in [Subproc -> Seq(Nat)]
    BY <1>4 DEF D!SetReturncode, ProcsInv, ProcsTyped
  <2>2. 0 \in 0..MaxCallsD
    BY DEF PidsGiven
  <2>3. QED
    BY <1>1, <2>1, <2>2 DEF ProcsInv, ProcsTyped, D!NoCallback
 <1>6. \A p \in PidD : D!Owner(p)' = D!Owner(p) /\ (Tainted(p)' <=> Tainted(p))
   BY <1>1, <1>2 DEF D!Owner, Tainted
 <1>7. Unborn' /\ WaitersKnow' /\ stolen' \subseteq late'
   BY <1>1, <1>2, <1>6 DEF ProcsInv, ProcsTyped, Unborn, WaitersKnow
 <1>8. OwnersApart'
  <2>1. \A p \in PidD : \A t \in D!Owner(p) : callback'[t] = callback[t]
    BY <1>1, <1>2 DEF D!Owner
  <2>2. QED
    BY <1>1, <1>6, <2>1 DEF ProcsInv, OwnersApart
 <1>9. ToldInOrder'
  <2>1. ASSUME NEW i \in DOMAIN toldD'[s]
        PROVE  /\ toldD'[s][i] <= setD[s]
               /\ \A j \in DOMAIN toldD'[s] : i < j => toldD'[s][i] < toldD'[s][j]
   <3>1. CASE callback[s] = D!NoCallback
     BY <1>2, <3>1 DEF ProcsInv, ToldInOrder
   <3>2. CASE callback[s] # D!NoCallback
    <4>1. /\ DOMAIN toldD'[s] = 1..(Len(toldD[s]) + 1)
          /\ \A j \in 1..Len(toldD[s]) : toldD'[s][j] = toldD[s][j]
          /\ toldD'[s][Len(toldD[s]) + 1] = callback[s]
      BY <1>2, <1>3, <3>2
    <4>2. DOMAIN toldD[s] = 1..Len(toldD[s]) /\ Len(toldD[s]) \in Nat
      BY <1>3
    <4>3. callback[s] = setD[s] /\ \A j \in DOMAIN toldD[s] : toldD[s][j] < callback[s]
      BY <3>2 DEF ProcsInv, ToldInOrder
    <4>4. \A j, k \in DOMAIN toldD[s] : j < k => toldD[s][j] < toldD[s][k]
      BY DEF ProcsInv, ToldInOrder
    <4>5. \A j \in DOMAIN toldD[s] : toldD[s][j] \in Nat /\ toldD[s][j] <= setD[s]
      BY <1>3 DEF ProcsInv, ToldInOrder
    <4>6. CASE i = Len(toldD[s]) + 1
      BY <4>1, <4>2, <4>3, <4>6, <1>3
    <4>7. CASE i \in DOMAIN toldD[s]
     <5>1. toldD'[s][i] = toldD[s][i] /\ toldD[s][i] <= setD[s] /\ toldD[s][i] < callback[s]
       BY <4>1, <4>2, <4>3, <4>5, <4>7
     <5>2. ASSUME NEW j \in DOMAIN toldD'[s], i < j PROVE toldD'[s][i] < toldD'[s][j]
      <6>1. CASE j \in DOMAIN toldD[s]
        BY <4>1, <4>2, <4>4, <4>7, <5>1, <5>2, <6>1
      <6>2. CASE j = Len(toldD[s]) + 1
        BY <4>1, <5>1, <6>2
      <6>3. QED
        BY <4>1, <4>2, <6>1, <6>2
     <5>3. QED
       BY <5>1, <5>2
    <4>8. QED
      BY <4>1, <4>2, <4>6, <4>7
   <3>3. QED
     BY <3>1, <3>2
  <2>2. QED
    BY <1>1, <1>2, <2>1 DEF ProcsInv, ToldInOrder
 <1>10. ToldOnTime'
  <2>1. ASSUME s \notin late
        PROVE  /\ ~returned[s] /\ toldD[s] = <<>> /\ callback[s] = setD[s]
               /\ toldD'[s] = IF setD[s] = 0 THEN <<>> ELSE <<setD[s]>>
   <3>1. ~returned[s] /\ toldD[s] = <<>> /\ callback[s] = setD[s]
     BY <1>1, <2>1 DEF ProcsInv, ToldOnTime
   <3>2. toldD'[s] = IF setD[s] = 0 THEN <<>> ELSE Append(<<>>, setD[s])
     BY <1>2, <3>1 DEF D!NoCallback
   <3>3. Append(<<>>, setD[s]) = <<setD[s]>>
     BY <1>3
   <3>4. QED
     BY <3>1, <3>2, <3>3
  <2>2. ASSUME NEW t \in Subproc \ late, t # s
        PROVE  /\ t \in due' <=> t \in due
               /\ returned'[t] = returned[t] /\ callback'[t] = callback[t] /\ toldD'[t] = toldD[t]
    BY <1>1, <1>2, <2>2
  <2>3. ASSUME NEW t \in Subproc \ late
        PROVE  /\ t \in due' => ~returned'[t]
               /\ ~returned'[t] => toldD'[t] = <<>> /\ callback'[t] = setD[t]
               /\ returned'[t] => /\ callback'[t] = D!NoCallback
                                  /\ toldD'[t] = IF setD[t] = 0 THEN <<>> ELSE <<setD[t]>>
   <3>1. CASE t = s
     BY <1>1, <1>2, <2>1, <2>3, <3>1
   <3>2. CASE t # s
     BY <2>2, <2>3, <3>2 DEF ProcsInv, ToldOnTime
   <3>3. QED
     BY <3>1, <3>2
  <2>4. QED
    BY <1>1, <2>3 DEF ToldOnTime
 <1>11. QED
   BY <1>5, <1>7, <1>8, <1>9, <1>10 DEF ProcsInv

LEMMA StepProcs == ProcsInv /\ PidsGiven /\ [D!Next]_(D!vars) => ProcsInv'
 <1>1. ProcsInv /\ UNCHANGED D!vars => ProcsInv'
   BY DEF D!vars, ProcsInv, ProcsTyped, Unborn, WaitersKnow, OwnersApart, ToldInOrder, ToldOnTime,
      D!Owner, Tainted
 <1>2. QED
   BY <1>1, PopenKeeps, ProcessesKeep, CleanupKeeps, SetExitCallbackKeeps, SetReturncodeKeeps
      DEF D!Next

THEOREM EndsAreTold == PidsGiven => (D!Spec => [](D!TypeOK /\ D!SubprocessSound))
 <1> SUFFICES ASSUME PidsGiven PROVE D!Spec => [](D!TypeOK /\ D!SubprocessSound)
   OBVIOUS
 <1>1. D!Init => ProcsInv
   BY InitProcs
 <1>2. ProcsInv => D!TypeOK /\ D!SubprocessSound
   BY ProcsInvImplies
 <1>3. ProcsInv /\ [D!Next]_(D!vars) => ProcsInv'
   BY StepProcs
 <1>4. QED
   BY <1>1, <1>2, <1>3, PTL DEF D!Spec

HIDE DEF osD, pid, callback, setD, returned, toldD, waiting, initialized, cleanup,
         due, late, stolen

-----------------------------------------------------------------------------
(* A file and the requests for it                                          *)

F == INSTANCE StaticFiles WITH
       file <- v1, hash <- v2, copies <- v3, gets <- v4, r <- v5

(* Its variables. *)
file == v1
hash == v2
copies == v3
gets == v4
rF == v5

USE DEF file, hash, copies, gets, rF

LEMMA SameCardinalityF == \A S : F!Cardinality(S) = Cardinality(S)
  BY DEF F!Cardinality, Cardinality

ChunkBounds == MaxSize \in Nat /\ Chunk \in Nat \ {0} /\ MaxVersion \in Nat \ {0} /\ MaxGets \in Nat

Files == [version : 1..MaxVersion, size : 0..MaxSize, time : Nat]
Copies == [etag : Int, modified : Int, version : Int]
Contents == Seq(Int \X Int)
Codes == {200, 206, 304, 416, 500}
Requests ==
  [phase : {"body", "complete", "closed"}, a : F!Offsets, b : F!Offsets, copy : Copies,
   status : Codes, length : Int, pos : Int, left : Int, etag : Int,
   modified : Int, asked : Files, headed : BOOLEAN, body : Contents, rewritten : BOOLEAN,
   gone : BOOLEAN]

(* A request with another value in one field. *)
LEMMA Changed ==
  ASSUME NEW s \in Requests
  PROVE  /\ \A x \in {"body", "complete", "closed"} : [s EXCEPT !.phase = x] \in Requests
         /\ \A x \in Codes : [s EXCEPT !.status = x] \in Requests
         /\ \A x \in Int : [s EXCEPT !.length = x] \in Requests
         /\ \A x \in Int : [s EXCEPT !.pos = x] \in Requests
         /\ \A x \in Int : [s EXCEPT !.left = x] \in Requests
         /\ \A x \in BOOLEAN : [s EXCEPT !.headed = x] \in Requests
         /\ \A x \in Contents : [s EXCEPT !.body = x] \in Requests
         /\ \A x \in BOOLEAN : [s EXCEPT !.rewritten = x] \in Requests
         /\ \A x \in BOOLEAN : [s EXCEPT !.gone = x] \in Requests
 <1>1. \A x \in {"body", "complete", "closed"} : [s EXCEPT !.phase = x] \in Requests
   BY DEF Requests
 <1>2. \A x \in Codes : [s EXCEPT !.status = x] \in Requests
   BY DEF Requests
 <1>3. \A x \in Int : [s EXCEPT !.length = x] \in Requests
   BY DEF Requests
 <1>4. \A x \in Int : [s EXCEPT !.pos = x] \in Requests
   BY DEF Requests
 <1>5. \A x \in Int : [s EXCEPT !.left = x] \in Requests
   BY DEF Requests
 <1>6. \A x \in BOOLEAN : [s EXCEPT !.headed = x] \in Requests
   BY DEF Requests
 <1>7. \A x \in Contents : [s EXCEPT !.body = x] \in Requests
   BY DEF Requests
 <1>8. \A x \in BOOLEAN : [s EXCEPT !.rewritten = x] \in Requests
   BY DEF Requests
 <1>9. \A x \in BOOLEAN : [s EXCEPT !.gone = x] \in Requests
   BY DEF Requests
 <1>10. QED
   BY <1>1, <1>2, <1>3, <1>4, <1>5, <1>6, <1>7, <1>8, <1>9

(* What the actions make of a request. *)
WithEnd(s, p) == [s EXCEPT !.phase = p, !.headed = TRUE]
WithChunk(s, w, p, l) == [s EXCEPT !.body = w, !.pos = p, !.headed = TRUE, !.left = l]
WithAnswer(s, p, c, n) == [s EXCEPT !.phase = p, !.status = c, !.length = n]

LEMMA Ended ==
  ASSUME NEW s \in Requests, NEW p \in {"body", "complete", "closed"}, NEW t,
         t = WithEnd(s, p)
  PROVE  /\ t \in Requests /\ t.phase = p /\ t.headed
         /\ t.body = s.body /\ t.length = s.length /\ t.status = s.status /\ t.pos = s.pos
         /\ t.left = s.left /\ t.a = s.a /\ t.b = s.b /\ t.asked = s.asked /\ t.copy = s.copy
         /\ t.etag = s.etag /\ t.modified = s.modified /\ t.rewritten = s.rewritten
         /\ t.gone = s.gone
 <1> DEFINE s1 == [s EXCEPT !.phase = p]
            s2 == [s1 EXCEPT !.headed = TRUE]
 <1>1. t = s2
   BY DEF WithEnd
 <1>2. s1 \in Requests
   BY DEF Requests
 <1> HIDE DEF s1
 <1>3. s2 \in Requests
   BY <1>2, Changed
 <1>4. t \in Requests
   BY <1>1, <1>3
 <1>5. QED
   BY <1>4 DEF Requests, WithEnd

LEMMA Sent ==
  ASSUME NEW s \in Requests, NEW w \in Contents, NEW p \in Int, NEW l \in Int, NEW t,
         t = WithChunk(s, w, p, l)
  PROVE  /\ t \in Requests /\ t.phase = s.phase /\ t.headed
         /\ t.body = w /\ t.length = s.length /\ t.status = s.status /\ t.pos = p
         /\ t.left = l /\ t.a = s.a /\ t.b = s.b /\ t.asked = s.asked /\ t.copy = s.copy
         /\ t.etag = s.etag /\ t.modified = s.modified /\ t.rewritten = s.rewritten
         /\ t.gone = s.gone
 <1> DEFINE s1 == [s EXCEPT !.body = w]
            s2 == [s1 EXCEPT !.pos = p]
            s3 == [s2 EXCEPT !.headed = TRUE]
            s4 == [s3 EXCEPT !.left = l]
 <1>1. t = s4
   BY DEF WithChunk
 <1>2. s1 \in Requests
   BY Changed
 <1> HIDE DEF s1
 <1>3. s2 \in Requests
   BY <1>2, Changed
 <1> HIDE DEF s2
 <1>4. s3 \in Requests
   BY <1>3, Changed
 <1> HIDE DEF s3
 <1>5. s4 \in Requests
   BY <1>4, Changed
 <1>6. t \in Requests
   BY <1>1, <1>5
 <1>7. QED
   BY <1>6 DEF Requests, WithChunk

LEMMA Cut ==
  ASSUME NEW s \in Requests, NEW t, t = [s EXCEPT !.phase = "closed", !.gone = TRUE]
  PROVE  /\ t \in Requests /\ t.phase = "closed" /\ t.gone
         /\ t.body = s.body /\ t.length = s.length /\ t.status = s.status /\ t.pos = s.pos
         /\ t.left = s.left /\ t.a = s.a /\ t.b = s.b /\ t.asked = s.asked /\ t.copy = s.copy
         /\ t.etag = s.etag /\ t.modified = s.modified /\ t.rewritten = s.rewritten
         /\ t.headed = s.headed
 <1> DEFINE s1 == [s EXCEPT !.phase = "closed"]
            s2 == [s1 EXCEPT !.gone = TRUE]
 <1>1. t = s2
   OBVIOUS
 <1>2. s1 \in Requests
   BY DEF Requests
 <1> HIDE DEF s1
 <1>3. s2 \in Requests
   BY <1>2, Changed
 <1>4. t \in Requests
   BY <1>1, <1>3
 <1>5. QED
   BY <1>4 DEF Requests

LEMMA AnsweredBy ==
  ASSUME NEW s \in Requests, NEW p \in {"body", "complete", "closed"},
         NEW c \in Codes, NEW n \in Int,
         NEW t, t = WithAnswer(s, p, c, n)
  PROVE  /\ t \in Requests /\ t.phase = p /\ t.status = c /\ t.length = n
         /\ t.body = s.body /\ t.pos = s.pos
         /\ t.left = s.left /\ t.a = s.a /\ t.b = s.b /\ t.asked = s.asked /\ t.copy = s.copy
         /\ t.etag = s.etag /\ t.modified = s.modified /\ t.rewritten = s.rewritten
         /\ t.headed = s.headed /\ t.gone = s.gone
 <1> DEFINE s1 == [s EXCEPT !.phase = p]
            s2 == [s1 EXCEPT !.status = c]
            s3 == [s2 EXCEPT !.length = n]
 <1>1. t = s3
   BY DEF WithAnswer
 <1>2. s1 \in Requests
   BY DEF Requests
 <1> HIDE DEF s1
 <1>3. s2 \in Requests
   BY <1>2 DEF Requests
 <1> HIDE DEF s2
 <1>4. s3 \in Requests
   BY <1>3, Changed
 <1>5. t \in Requests
   BY <1>1, <1>4
 <1>6. QED
   BY <1>5 DEF Requests, WithAnswer

-----------------------------------------------------------------------------
(* Ranges *)

(* Where the content of a range begins, where it ends, and whether there   *)
(* is any.                                                                 *)
First(a, b, n) == IF a # F!None THEN a ELSE IF b # F!None THEN n - b ELSE 0
Stop(a, b, n) == IF a # F!None /\ b # F!None /\ b + 1 < n THEN b + 1 ELSE n
NonEmpty(a, b, n) == (a # F!None => a < n) /\ (a = F!None /\ b # F!None => b > 0)
Good(a, b) == F!ValidRange(a, b) \/ b = F!None
Status(a, b, n) == IF n # Stop(a, b, n) - First(a, b, n) THEN 206 ELSE 200

Answer(a, b, n) ==
  IF a = F!None /\ b = F!None THEN F!Unranged(n) ELSE F!Ranged(F!ParseRequestRange(a, b), n)

LEMMA AnswerTyped ==
  ASSUME ChunkBounds, NEW a \in F!Offsets, NEW b \in F!Offsets, NEW n \in 0..MaxSize
  PROVE  /\ Answer(a, b, n).status \in {200, 206, 416} /\ Answer(a, b, n).start \in Int
         /\ Answer(a, b, n).end \in Int /\ Answer(a, b, n).length \in Int
         /\ Answer(a, b, n).status = 416 => Answer(a, b, n).length = 0
 <1>1. n \in Int /\ MaxSize \in Nat /\ a \in Int /\ b \in Int /\ F!None \in Int
   BY DEF ChunkBounds, F!Offsets, F!None
 <1>2. CASE a = F!None /\ b = F!None
   BY <1>1, <1>2 DEF Answer, F!Unranged
 <1>3. CASE ~(a = F!None /\ b = F!None)
  <2> DEFINE g == F!ParseRequestRange(a, b)
  <2>1. g.start \in Int /\ g.end \in Int
    BY <1>1 DEF F!ParseRequestRange
  <2> HIDE DEF g
  <2>2. /\ F!Ranged(g, n).status \in {200, 206, 416} /\ F!Ranged(g, n).start \in Int
        /\ F!Ranged(g, n).end \in Int /\ F!Ranged(g, n).length \in Int
        /\ F!Ranged(g, n).status = 416 => F!Ranged(g, n).length = 0
    BY <1>1, <2>1 DEF F!Ranged
  <2>3. QED
    BY <1>3, <2>2 DEF Answer, g
 <1>4. QED
   BY <1>2, <1>3

(* What get() makes of a range is what it says. *)
LEMMA AnswerIs ==
  ASSUME ChunkBounds, NEW a \in F!Offsets, NEW b \in F!Offsets, NEW n \in 0..MaxSize, Good(a, b)
  PROVE  LET answer == Answer(a, b, n)
         IN /\ answer.status = 416 <=> ~NonEmpty(a, b, n)
            /\ NonEmpty(a, b, n) =>
                 /\ answer.length = Stop(a, b, n) - First(a, b, n)
                 /\ answer.status = Status(a, b, n)
                 /\ First(a, b, n) = IF answer.start = F!None THEN 0 ELSE answer.start
                 /\ IF a # F!None /\ b # F!None THEN answer.end = Stop(a, b, n) /\ answer.end # F!None
                                              ELSE answer.end = F!None
 <1>1. /\ n \in Int /\ n >= 0 /\ n <= MaxSize /\ MaxSize \in Int /\ MaxSize >= 0
       /\ F!None \in Int /\ F!None = 0 - (MaxSize + 2)
       /\ a = F!None \/ (a \in Int /\ a >= 0 /\ a <= MaxSize + 1)
       /\ b = F!None \/ (b \in Int /\ b >= 0 /\ b <= MaxSize + 1)
   BY DEF ChunkBounds, F!Offsets, F!None
 <1> DEFINE g == F!ParseRequestRange(a, b)
            answer == F!Ranged(g, n)
 <1>2. CASE a = F!None /\ b = F!None
   BY <1>1, <1>2 DEF Answer, F!Unranged, First, Stop, NonEmpty, Status
 <1>3. CASE a # F!None /\ b = F!None
  <2>1. g.start = a /\ g.end = F!None
    BY <1>3 DEF F!ParseRequestRange
  <2> HIDE DEF g
  <2>2. CASE a >= n
   <3>1. answer.status = 416
     BY <1>1, <1>3, <2>1, <2>2 DEF F!Ranged
   <3>2. QED
     BY <1>1, <1>3, <2>2, <3>1 DEF Answer, NonEmpty, g
  <2>3. CASE a < n
   <3>1. /\ answer.start = a /\ answer.end = F!None /\ answer.length = n - a
         /\ answer.status = IF n # n - a THEN 206 ELSE 200
     BY <1>1, <1>3, <2>1, <2>3 DEF F!Ranged, F!Or
   <3>2. QED
     BY <1>1, <1>3, <2>3, <3>1 DEF Answer, NonEmpty, First, Stop, Status, g
  <2>4. QED
    BY <1>1, <1>3, <2>2, <2>3
 <1>4. CASE a = F!None /\ b # F!None
  <2>1. CASE b = 0
   <3>1. g.start = F!None /\ g.end = 0
     BY <1>4, <2>1 DEF F!ParseRequestRange
   <3> HIDE DEF g
   <3>2. answer.status = 416
     BY <1>1, <3>1 DEF F!Ranged
   <3>3. QED
     BY <1>1, <1>4, <2>1, <3>2 DEF Answer, NonEmpty, g
  <2>2. CASE b > 0
   <3>1. g.start = 0 - b /\ g.end = F!None
     BY <1>1, <1>4, <2>2 DEF F!ParseRequestRange
   <3> HIDE DEF g
   <3>2. /\ answer.start = n - b /\ answer.end = F!None /\ answer.length = b
         /\ answer.status = IF n # b THEN 206 ELSE 200
     BY <1>1, <1>4, <2>2, <3>1 DEF F!Ranged, F!Or
   <3>3. QED
     BY <1>1, <1>4, <2>2, <3>2 DEF Answer, NonEmpty, First, Stop, Status, g
  <2>3. QED
    BY <1>1, <1>4, <2>1, <2>2
 <1>5. CASE a # F!None /\ b # F!None
  <2>1. b >= a /\ g.start = a /\ g.end = b + 1
    BY <1>1, <1>5 DEF F!ParseRequestRange, Good, F!ValidRange
  <2> HIDE DEF g
  <2>2. CASE a >= n
   <3>1. answer.status = 416
     BY <1>1, <1>5, <2>1, <2>2 DEF F!Ranged
   <3>2. QED
     BY <1>1, <1>5, <2>2, <3>1 DEF Answer, NonEmpty, g
  <2>3. CASE a < n
   <3> DEFINE e == IF b + 1 > n THEN n ELSE b + 1
   <3>1. /\ answer.start = a /\ answer.end = e /\ answer.length = e - a
         /\ answer.status = IF n # e - a THEN 206 ELSE 200
     BY <1>1, <1>5, <2>1, <2>3 DEF F!Ranged, F!Or
   <3>2. e = Stop(a, b, n) /\ e # F!None
     BY <1>1, <1>5 DEF Stop
   <3> HIDE DEF e
   <3>3. QED
     BY <1>1, <1>5, <2>3, <3>1, <3>2 DEF Answer, NonEmpty, First, Status, g
  <2>4. QED
    BY <1>1, <1>5, <2>2, <2>3
 <1>6. QED
   BY <1>2, <1>3, <1>4, <1>5

(* A range with content is what is wanted. *)
LEMMA WantedIs ==
  ASSUME ChunkBounds, NEW a \in F!Offsets, NEW b \in F!Offsets, NEW n \in 0..MaxSize, Good(a, b)
  PROVE  /\ ~NonEmpty(a, b, n) => F!Wanted(a, b, n) = {}
         /\ NonEmpty(a, b, n) /\ First(a, b, n) >= 0 =>
              /\ F!Wanted(a, b, n) = First(a, b, n)..(Stop(a, b, n) - 1)
              /\ First(a, b, n) \in Int /\ Stop(a, b, n) \in Int
              /\ First(a, b, n) <= Stop(a, b, n)
              /\ ~(a = F!None /\ b = F!None) => First(a, b, n) < Stop(a, b, n)
         /\ First(a, b, n) < 0 <=> a = F!None /\ b # F!None /\ b > n
         /\ ~NonEmpty(a, b, n) => ~(a = F!None /\ b = F!None) /\ First(a, b, n) >= 0
         /\ First(a, b, n) \in Int /\ Stop(a, b, n) \in Int /\ Stop(a, b, n) <= n
 <1>1. /\ n \in Int /\ n >= 0 /\ n <= MaxSize /\ MaxSize \in Int /\ MaxSize >= 0
       /\ F!None \in Int /\ F!None = 0 - (MaxSize + 2)
       /\ a = F!None \/ (a \in Int /\ a >= 0 /\ a <= MaxSize + 1)
       /\ b = F!None \/ (b \in Int /\ b >= 0 /\ b <= MaxSize + 1)
   BY DEF ChunkBounds, F!Offsets, F!None
 <1>2. CASE a = F!None /\ b = F!None
   BY <1>1, <1>2 DEF First, Stop, NonEmpty, F!Wanted
 <1>3. CASE a # F!None /\ b = F!None
   BY <1>1, <1>3 DEF First, Stop, NonEmpty, F!Wanted
 <1>4. CASE a = F!None /\ b # F!None
   BY <1>1, <1>4 DEF First, Stop, NonEmpty, F!Wanted
 <1>5. CASE a # F!None /\ b # F!None
   BY <1>1, <1>5 DEF First, Stop, NonEmpty, F!Wanted, Good, F!ValidRange
 <1>6. QED
   BY <1>2, <1>3, <1>4, <1>5

-----------------------------------------------------------------------------
(* The invariant *)

FirstOf(s) == First(s.a, s.b, s.asked.size)
StopOf(s) == Stop(s.a, s.b, s.asked.size)

(* What was sent is what is asked for, from its beginning. *)
Piece(s) ==
  /\ NonEmpty(s.a, s.b, s.asked.size)
  /\ s.status = Status(s.a, s.b, s.asked.size)
  /\ s.length = StopOf(s) - FirstOf(s)
  /\ \A i \in 1..Len(s.body) : s.body[i] = <<s.asked.version, FirstOf(s) + i - 1>>

(* A good range of a file that is not rewritten.  One that begins before   *)
(* the file is not sent: its seek will fail.                               *)
OnItsWay(s) ==
  /\ Piece(s) /\ s.pos = FirstOf(s) + Len(s.body)
  /\ IF s.a # F!None /\ s.b # F!None THEN s.left = StopOf(s) - s.pos ELSE s.left = F!None
  /\ FirstOf(s) >= 0 => s.pos <= StopOf(s)
  /\ FirstOf(s) < 0 => ~s.headed

AtItsEnd(s) ==
  \/ s.status = 416 /\ ~NonEmpty(s.a, s.b, s.asked.size)
  \/ s.status = 500 /\ NonEmpty(s.a, s.b, s.asked.size) /\ FirstOf(s) < 0
  \/ Piece(s) /\ FirstOf(s) >= 0

(* A request under way, whatever happens to its file. *)
UnderWay(s) ==
  /\ s.etag = hash /\ hash <= s.asked.version /\ s.asked.version <= file.version
  /\ s.modified = s.asked.time /\ s.asked.time <= file.time
  /\ s.asked.version = file.version => s.asked.time = file.time
  /\ ~s.rewritten => s.asked = file
  /\ ~s.headed => s.body = <<>>
  /\ s.phase = "complete" => Len(s.body) = s.length
  /\ s.status = 304 => \/ s.copy.version = s.asked.version
                       \/ s.copy.modified = s.asked.time
                       \/ s.copy.etag = hash /\ hash < s.asked.version

Exact(s) ==
  Good(s.a, s.b) /\ ~s.rewritten =>
    /\ s.phase = "body" => OnItsWay(s)
    /\ s.phase = "complete" /\ s.status # 304 => AtItsEnd(s)
    /\ s.phase = "closed" => s.gone

(* What clients have was the file, under the hash that was taken once. *)
CopiesKept ==
  \A c \in copies :
    /\ c \in Copies /\ c.etag = hash /\ hash <= c.version /\ c.version <= file.version
    /\ c.modified <= file.time /\ (c.version = file.version => c.modified = file.time)

StaticInv ==
  /\ file \in Files /\ hash \in {F!None} \cup 1..file.version /\ gets \in 0..MaxGets
  /\ rF = F!NoRequest \/ (rF \in Requests /\ UnderWay(rF) /\ Exact(rF))
  /\ hash = F!None => copies = {} /\ rF = F!NoRequest
  /\ CopiesKept

LEMMA InitStatic == ChunkBounds /\ F!Init => StaticInv
  BY DEF ChunkBounds, F!Init, StaticInv, Files, CopiesKept

(* What is sent of a good range is what is wanted of the file. *)
LEMMA PieceIsWanted ==
  ASSUME ChunkBounds, NEW s \in Requests, Good(s.a, s.b), Piece(s), FirstOf(s) >= 0,
         Len(s.body) = s.length
  PROVE  LET wanted == F!Wanted(s.a, s.b, s.asked.size)
         IN /\ wanted # {} \/ (s.a = F!None /\ s.b = F!None)
            /\ {s.body[i][2] : i \in DOMAIN s.body} = wanted
            /\ \A i \in DOMAIN s.body : s.body[i][2] = s.body[1][2] + i - 1
            /\ s.status = IF F!Cardinality(wanted) = s.asked.size THEN 200 ELSE 206
 <1> DEFINE w == F!Wanted(s.a, s.b, s.asked.size)
            p == FirstOf(s)
            q == StopOf(s)
            m == Len(s.body)
 <1>1. s.a \in F!Offsets /\ s.b \in F!Offsets /\ s.asked.size \in 0..MaxSize /\ s.body \in Contents
   BY DEF Requests, Files
 <1>2. /\ w = p..(q - 1) /\ p \in Int /\ q \in Int /\ p <= q
       /\ ~(s.a = F!None /\ s.b = F!None) => p < q
   BY <1>1, WantedIs DEF Piece, FirstOf, StopOf
 <1>3. m = q - p /\ \A i \in 1..m : s.body[i] = <<s.asked.version, p + i - 1>>
   BY DEF Piece
 <1>4. m \in Nat /\ DOMAIN s.body = 1..m
   BY <1>1 DEF Contents
 <1>5. \A i \in 1..m : s.body[i][2] = p + i - 1
   BY <1>3
 <1>6. s.status = IF s.asked.size # q - p THEN 206 ELSE 200
   BY DEF Piece, Status, FirstOf, StopOf
 <1>7. F!Cardinality(w) = q - p
  <2> HIDE DEF w, p, q
  <2>1. p <= q - 1 \/ p = q
    BY <1>2
  <2>2. CASE p <= q - 1
   <3>1. F!Cardinality(p..(q - 1)) = (q - 1) - p + 1
     BY <1>2, <2>2, FS_Interval, SameCardinalityF
   <3>2. QED
     BY <1>2, <3>1
  <2>3. CASE p = q
   <3>1. p..(q - 1) = {}
     BY <1>2, <2>3
   <3>2. QED
     BY <1>2, <2>3, <3>1, FS_EmptySet, SameCardinalityF
  <2>4. QED
    BY <2>1, <2>2, <2>3
 <1> HIDE DEF w, p, q, m
 <1>8. {s.body[i][2] : i \in DOMAIN s.body} = w
  <2>1. ASSUME NEW k \in w PROVE \E i \in 1..m : s.body[i][2] = k
   <3>1. k - p + 1 \in 1..m /\ p + (k - p + 1) - 1 = k
     BY <1>2, <1>3, <2>1
   <3>2. QED
     BY <1>5, <3>1
  <2>2. ASSUME NEW i \in 1..m PROVE s.body[i][2] \in w
    BY <1>2, <1>3, <1>5, <2>2
  <2>3. QED
    BY <1>4, <2>1, <2>2
 <1>9. \A i \in DOMAIN s.body : s.body[i][2] = s.body[1][2] + i - 1
  <2>1. ASSUME NEW i \in 1..m PROVE s.body[i][2] = s.body[1][2] + i - 1
   <3>1. 1 \in 1..m
     BY <1>4
   <3>2. s.body[1][2] = p + 1 - 1
     BY <1>5, <3>1
   <3>3. s.body[i][2] = p + i - 1
     BY <1>5, <2>1
   <3>4. QED
     BY <1>2, <3>2, <3>3
  <2>2. QED
    BY <1>4, <2>1
 <1>10. w # {} \/ (s.a = F!None /\ s.b = F!None)
  <2>1. p < q => p \in w
    BY <1>2
  <2>2. QED
    BY <1>2, <2>1
 <1>11. QED
   BY <1>6, <1>7, <1>8, <1>9, <1>10 DEF w

LEMMA StaticInvImplies == ChunkBounds /\ StaticInv => F!TypeOK /\ F!StaticSound
 <1> SUFFICES ASSUME ChunkBounds, StaticInv PROVE F!TypeOK /\ F!StaticSound
   OBVIOUS
 <1>1. F!TypeOK
   BY DEF StaticInv, F!TypeOK, Files, Requests, F!NoRequest, Codes
 <1>2. CASE rF = F!NoRequest
   BY <1>1, <1>2 DEF F!NoRequest, F!StaticSound, F!RangeExact, F!AsPromised, F!NotModifiedIsTrue
 <1>3. CASE rF # F!NoRequest
  <2>1. rF \in Requests /\ UnderWay(rF) /\ Exact(rF)
    BY <1>3 DEF StaticInv
  <2>2. /\ rF.a \in F!Offsets /\ rF.b \in F!Offsets /\ rF.asked.size \in 0..MaxSize
        /\ rF.phase \in {"body", "complete", "closed"}
    BY <2>1 DEF Requests, Files
  <2>3. F!NotModifiedIsTrue
    BY <2>1 DEF UnderWay, F!NotModifiedIsTrue
  <2>4. F!AsPromised
   <3>1. rF.phase = "closed" => rF.gone \/ rF.rewritten \/ ~Good(rF.a, rF.b)
     BY <2>1 DEF Exact
   <3>2. QED
     BY <2>1, <3>1 DEF UnderWay, Good, F!AsPromised
  <2>5. F!RangeExact
   <3>1. SUFFICES ASSUME rF.phase = "complete", ~rF.rewritten, rF.status # 304, Good(rF.a, rF.b)
                  PROVE  LET wanted == F!Wanted(rF.a, rF.b, rF.asked.size)
                         IN IF rF.a = F!None /\ rF.b # F!None /\ rF.b > rF.asked.size
                            THEN rF.status = 500
                            ELSE IF wanted = {} /\ ~(rF.a = F!None /\ rF.b = F!None)
                            THEN rF.status = 416
                            ELSE /\ {rF.body[i][2] : i \in DOMAIN rF.body} = wanted
                                 /\ \A i \in DOMAIN rF.body :
                                      rF.body[i][2] = rF.body[1][2] + i - 1
                                 /\ rF.status = IF F!Cardinality(wanted) = rF.asked.size
                                               THEN 200 ELSE 206
     BY DEF F!RangeExact, Good
   <3>2. AtItsEnd(rF) /\ Len(rF.body) = rF.length
     BY <2>1, <3>1 DEF Exact, UnderWay
   <3>3. FirstOf(rF) < 0 <=> rF.a = F!None /\ rF.b # F!None /\ rF.b > rF.asked.size
     BY <2>2, <3>1, WantedIs DEF FirstOf
   <3>4. FirstOf(rF) \in Int
     BY <2>2, <3>1, WantedIs DEF FirstOf
   <3>5. CASE rF.status = 416 /\ ~NonEmpty(rF.a, rF.b, rF.asked.size)
    <4>1. /\ F!Wanted(rF.a, rF.b, rF.asked.size) = {} /\ ~(rF.a = F!None /\ rF.b = F!None)
          /\ FirstOf(rF) >= 0
      BY <2>2, <3>1, <3>5, WantedIs DEF FirstOf
    <4>2. QED
      BY <3>3, <3>4, <3>5, <4>1
   <3>6. CASE rF.status = 500 /\ FirstOf(rF) < 0
     BY <3>3, <3>6
   <3>7. CASE Piece(rF) /\ FirstOf(rF) >= 0
    <4>1. ~(rF.a = F!None /\ rF.b # F!None /\ rF.b > rF.asked.size)
      BY <3>3, <3>4, <3>7
    <4>2. QED
      BY <2>1, <3>1, <3>2, <3>7, <4>1, PieceIsWanted
   <3>8. QED
     BY <3>2, <3>5, <3>6, <3>7 DEF AtItsEnd
  <2>6. QED
    BY <1>1, <2>3, <2>4, <2>5 DEF F!StaticSound
 <1>4. QED
   BY <1>2, <1>3

-----------------------------------------------------------------------------
(* The steps *)

LEMMA RewriteKeeps == ChunkBounds /\ StaticInv /\ F!Rewrite => StaticInv'
 <1> SUFFICES ASSUME ChunkBounds, StaticInv, F!Rewrite PROVE StaticInv'
   OBVIOUS
 <1>1. PICK n \in 0..MaxSize, t \in {file.time, file.time + 1} :
         file' = [version |-> file.version + 1, size |-> n, time |-> t]
   BY DEF F!Rewrite
 <1>2. /\ file \in Files /\ file.version \in Int /\ file.time \in Nat
       /\ file.version < MaxVersion /\ MaxVersion \in Nat
   BY DEF F!Rewrite, StaticInv, Files, ChunkBounds
 <1>3. /\ file' \in Files /\ file'.version = file.version + 1
       /\ file.time <= file'.time
   BY <1>1, <1>2 DEF Files
 <1>4. /\ hash' = hash /\ copies' = copies /\ gets' = gets
       /\ hash \in {F!None} \cup 1..file.version /\ gets \in 0..MaxGets
   BY DEF F!Rewrite, StaticInv
 <1>5. hash' \in {F!None} \cup 1..file'.version
   BY <1>2, <1>3, <1>4
 <1>6. CopiesKept'
  <2>1. ASSUME NEW c \in copies
        PROVE  /\ c \in Copies /\ c.etag = hash' /\ hash' <= c.version
               /\ c.version <= file'.version /\ c.modified <= file'.time
               /\ c.version = file'.version => c.modified = file'.time
   <3>1. /\ c \in Copies /\ c.etag = hash /\ hash <= c.version /\ c.version <= file.version
         /\ c.modified <= file.time /\ c.version \in Int /\ c.modified \in Int
     BY DEF StaticInv, CopiesKept, Copies
   <3>2. file'.time \in Int
     BY <1>3 DEF Files
   <3>3. QED
     BY <1>2, <1>3, <1>4, <3>1, <3>2
  <2>2. QED
    BY <1>4, <2>1 DEF CopiesKept
 <1>7. CASE rF = F!NoRequest
  <2>1. rF' = F!NoRequest
    BY <1>7 DEF F!Rewrite, F!NoRequest
  <2>2. QED
    BY <1>3, <1>4, <1>5, <1>6, <1>7, <2>1 DEF StaticInv
 <1>8. CASE rF # F!NoRequest
  <2>1. rF \in Requests /\ UnderWay(rF) /\ rF.phase # "none"
    BY <1>8 DEF StaticInv, Requests
  <2>2. rF' = [rF EXCEPT !.rewritten = TRUE]
    BY <2>1 DEF F!Rewrite
  <2>3. rF' \in Requests
    BY <2>1, <2>2, Changed
  <2>4. /\ rF'.rewritten /\ rF'.etag = rF.etag /\ rF'.asked = rF.asked /\ rF'.modified = rF.modified
        /\ rF'.headed = rF.headed /\ rF'.body = rF.body /\ rF'.phase = rF.phase
        /\ rF'.length = rF.length /\ rF'.status = rF.status /\ rF'.copy = rF.copy
    BY <2>1, <2>2 DEF Requests
  <2>5. rF.asked.version \in Int /\ rF.asked.time \in Int /\ file'.time \in Int
    BY <1>3, <2>1 DEF Requests, Files
  <2>6. UnderWay(rF)'
    BY <1>2, <1>3, <1>4, <2>1, <2>4, <2>5 DEF UnderWay
  <2>7. Exact(rF)'
    BY <2>4 DEF Exact
  <2>8. hash' # F!None
    BY <1>4, <1>8 DEF StaticInv
  <2>9. QED
    BY <1>3, <1>4, <1>5, <1>6, <2>3, <2>6, <2>7, <2>8 DEF StaticInv
 <1>9. QED
   BY <1>7, <1>8

(* A request that only the request itself has changed. *)
LEMMA RequestKeeps ==
  ASSUME StaticInv, rF # F!NoRequest, UNCHANGED <<file, hash, copies, gets>>,
         rF' \in Requests, UnderWay(rF)', Exact(rF)'
  PROVE  StaticInv'
  BY DEF StaticInv, CopiesKept

LEMMA ReceivedKeeps == ChunkBounds /\ StaticInv /\ F!Received => StaticInv'
 <1> SUFFICES ASSUME ChunkBounds, StaticInv, F!Received PROVE StaticInv'
   OBVIOUS
 <1>1. rF \in Requests /\ UnderWay(rF) /\ hash # F!None
   BY DEF F!Received, StaticInv, F!NoRequest
 <1>2. rF' = F!NoRequest /\ UNCHANGED <<file, hash, gets>>
   BY DEF F!Received
 <1> DEFINE c == [etag |-> rF.etag, modified |-> rF.modified, version |-> rF.asked.version]
 <1>3. /\ c \in Copies /\ c.etag = hash /\ hash <= c.version /\ c.version <= file.version
       /\ c.modified <= file.time /\ (c.version = file.version => c.modified = file.time)
   BY <1>1 DEF UnderWay, Requests, Copies, Files
 <1>4. copies' = copies \/ copies' = copies \cup {c}
   BY DEF F!Received
 <1> HIDE DEF c
 <1>5. CopiesKept'
   BY <1>2, <1>3, <1>4 DEF StaticInv, CopiesKept
 <1>6. QED
   BY <1>1, <1>2, <1>5 DEF StaticInv

LEMMA GoneKeeps == ChunkBounds /\ StaticInv /\ F!ClientGone => StaticInv'
 <1> SUFFICES ASSUME ChunkBounds, StaticInv, F!ClientGone PROVE StaticInv'
   OBVIOUS
 <1>1. rF \in Requests /\ UnderWay(rF) /\ rF # F!NoRequest
   BY DEF F!ClientGone, StaticInv, F!NoRequest
 <1>2. rF' = [rF EXCEPT !.phase = "closed", !.gone = TRUE] /\ UNCHANGED <<file, hash, copies, gets>>
   BY DEF F!ClientGone
 <1>3. /\ rF' \in Requests /\ rF'.phase = "closed" /\ rF'.gone
       /\ rF'.body = rF.body /\ rF'.length = rF.length /\ rF'.status = rF.status
       /\ rF'.asked = rF.asked /\ rF'.copy = rF.copy /\ rF'.etag = rF.etag
       /\ rF'.modified = rF.modified /\ rF'.rewritten = rF.rewritten /\ rF'.headed = rF.headed
   BY <1>1, <1>2, Cut, ZenonT(30)
 <1>4. UnderWay(rF)'
   BY <1>1, <1>2, <1>3 DEF UnderWay
 <1>5. Exact(rF)'
   BY <1>3 DEF Exact
 <1>6. QED
   BY <1>1, <1>2, <1>3, <1>4, <1>5, RequestKeeps

-----------------------------------------------------------------------------
(* get() *)

LEMMA StartedIs ==
  ASSUME ChunkBounds, file \in Files, hash \in {F!None} \cup 1..file.version,
         NEW a \in F!Offsets, NEW b \in F!Offsets, NEW c \in Copies,
         NEW s, s = F!Started(a, b, c, Answer(a, b, file.size))
  PROVE  /\ s \in Requests /\ s.phase = "body" /\ s.a = a /\ s.b = b /\ s.copy = c
         /\ s.status = Answer(a, b, file.size).status
         /\ s.length = Answer(a, b, file.size).length
         /\ s.pos = IF Answer(a, b, file.size).start = F!None THEN 0 ELSE Answer(a, b, file.size).start
         /\ s.left = IF Answer(a, b, file.size).end = F!None THEN F!None
                     ELSE Answer(a, b, file.size).end - s.pos
         /\ s.etag = F!CachedVersion /\ s.modified = file.time /\ s.asked = file
         /\ ~s.headed /\ s.body = <<>> /\ ~s.rewritten /\ ~s.gone
 <1> DEFINE answer == Answer(a, b, file.size)
 <1>1. file.size \in 0..MaxSize /\ file.time \in Nat /\ file.version \in Int
   BY DEF Files
 <1>2. /\ answer.status \in {200, 206, 416} /\ answer.start \in Int
       /\ answer.end \in Int /\ answer.length \in Int
   BY <1>1, AnswerTyped
 <1>3. F!CachedVersion \in Int /\ F!None \in Int
   BY <1>1 DEF F!CachedVersion, F!None, ChunkBounds
 <1> HIDE DEF answer
 <1> DEFINE p == IF answer.start = F!None THEN 0 ELSE answer.start
            l == IF answer.end = F!None THEN F!None ELSE answer.end - p
 <1>4. p \in Int /\ l \in Int
   BY <1>2, <1>3
 <1>5. s = [ phase |-> "body", a |-> a, b |-> b, copy |-> c,
             status |-> answer.status, length |-> answer.length,
             pos |-> p, left |-> l,
             etag |-> F!CachedVersion, modified |-> file.time,
             asked |-> file, headed |-> FALSE, body |-> <<>>,
             rewritten |-> FALSE, gone |-> FALSE ]
   BY DEF F!Started, answer
 <1> HIDE DEF p, l
 <1>6. <<>> \in Contents
   BY DEF Contents
 <1>7. s \in Requests
   BY <1>1, <1>2, <1>3, <1>4, <1>5, <1>6 DEF Requests, Codes
 <1>8. /\ s.phase = "body" /\ s.a = a /\ s.b = b /\ s.copy = c
       /\ s.status = answer.status /\ s.length = answer.length /\ s.pos = p /\ s.left = l
       /\ s.etag = F!CachedVersion /\ s.modified = file.time /\ s.asked = file
       /\ ~s.headed /\ s.body = <<>> /\ ~s.rewritten /\ ~s.gone
   BY <1>5
 <1>9. QED
   BY <1>7, <1>8 DEF answer, p, l

LEMMA GetKeeps ==
  ASSUME ChunkBounds, StaticInv, NEW a \in F!Offsets, NEW b \in F!Offsets, NEW c \in Copies,
         c = F!NoCopy \/ c \in copies, F!Get(a, b, c)
  PROVE  StaticInv'
 <1> DEFINE answer == Answer(a, b, file.size)
            s == F!Started(a, b, c, answer)
 <1>1. /\ file \in Files /\ hash \in {F!None} \cup 1..file.version /\ gets \in 0..MaxGets
       /\ file.version \in Int /\ file.version >= 1 /\ file.size \in 0..MaxSize /\ file.time \in Nat
       /\ gets < MaxGets /\ MaxGets \in Nat /\ F!None \in Int /\ F!None < 0 /\ CopiesKept
   BY DEF StaticInv, Files, ChunkBounds, F!Get, F!None
 <1>2. /\ gets' = gets + 1 /\ hash' = F!CachedVersion /\ UNCHANGED <<file, copies>>
       /\ rF' = CASE F!NotModified(c) ->
                     [s EXCEPT !.phase = "complete", !.status = 304, !.length = 0]
                  [] ~F!NotModified(c) /\ answer.status = 416 -> [s EXCEPT !.phase = "complete"]
                  [] ~F!NotModified(c) /\ answer.status # 416 -> s
   BY DEF F!Get, Answer
 <1>3. /\ s \in Requests /\ s.phase = "body" /\ s.a = a /\ s.b = b /\ s.copy = c
       /\ s.status = answer.status
       /\ s.length = answer.length
       /\ s.pos = IF answer.start = F!None THEN 0 ELSE answer.start
       /\ s.left = IF answer.end = F!None THEN F!None ELSE answer.end - s.pos
       /\ s.etag = F!CachedVersion /\ s.modified = file.time /\ s.asked = file
       /\ ~s.headed /\ s.body = <<>> /\ ~s.rewritten /\ ~s.gone
   BY <1>1, StartedIs
 <1>4. answer.status \in {200, 206, 416} /\ (answer.status = 416 => answer.length = 0)
   BY <1>1, AnswerTyped
 <1>5. Good(a, b) =>
         /\ answer.status = 416 <=> ~NonEmpty(a, b, file.size)
         /\ NonEmpty(a, b, file.size) =>
              /\ answer.length = Stop(a, b, file.size) - First(a, b, file.size)
              /\ answer.status = Status(a, b, file.size)
              /\ First(a, b, file.size) = IF answer.start = F!None THEN 0 ELSE answer.start
              /\ IF a # F!None /\ b # F!None
                 THEN answer.end = Stop(a, b, file.size) /\ answer.end # F!None
                 ELSE answer.end = F!None
   BY <1>1, AnswerIs
 <1> HIDE DEF answer, s
 <1>6. /\ hash' \in 1..file.version /\ hash' # F!None /\ gets' \in 0..MaxGets
       /\ hash # F!None => hash' = hash
   BY <1>1, <1>2 DEF F!CachedVersion
 <1>7. CopiesKept'
  <2>1. CASE hash = F!None
    BY <1>2, <2>1 DEF StaticInv, CopiesKept
  <2>2. CASE hash # F!None
    BY <1>1, <1>2, <1>6, <2>2 DEF CopiesKept
  <2>3. QED
    BY <2>1, <2>2
 <1>8. ASSUME rF' \in Requests, UnderWay(rF)', Exact(rF)'
       PROVE  StaticInv'
   BY <1>1, <1>2, <1>6, <1>7, <1>8 DEF StaticInv
 <1>9. CASE F!NotModified(c)
  <2>1. rF' = [s EXCEPT !.phase = "complete", !.status = 304, !.length = 0]
    BY <1>2, <1>9
  <2>2. /\ rF' \in Requests /\ rF'.phase = "complete" /\ rF'.status = 304 /\ rF'.length = 0
        /\ rF'.body = <<>> /\ rF'.asked = file /\ rF'.copy = c /\ rF'.etag = F!CachedVersion
        /\ rF'.modified = file.time /\ ~rF'.headed /\ ~rF'.rewritten
   <3>1. /\ rF' \in Requests /\ rF'.phase = "complete" /\ rF'.status = 304 /\ rF'.length = 0
         /\ rF'.body = s.body /\ rF'.asked = s.asked /\ rF'.copy = s.copy /\ rF'.etag = s.etag
         /\ rF'.modified = s.modified /\ rF'.headed = s.headed /\ rF'.rewritten = s.rewritten
    <4>1. rF' = WithAnswer(s, "complete", 304, 0)
      BY <2>1 DEF WithAnswer
    <4>2. 304 \in Codes
      BY DEF Codes
    <4>3. s \in Requests
      BY <1>3
    <4>4. QED
      BY <4>1, <4>2, <4>3, AnsweredBy, SMTT(60)
   <3>2. QED
     BY <1>3, <3>1
  <2>3. \/ c.version = file.version \/ c.modified = file.time
        \/ c.etag = hash' /\ hash' < file.version
   <3>1. c.etag = F!CachedVersion \/ c.modified >= file.time
     BY <1>9 DEF F!NotModified
   <3>2. c # F!NoCopy
    <4>1. F!CachedVersion >= 1
      BY <1>1 DEF F!CachedVersion
    <4>2. F!NoCopy.etag = F!None /\ F!NoCopy.modified = -1
      BY DEF F!NoCopy
    <4>3. F!CachedVersion \in Int
      BY <1>2, <1>6
    <4>4. QED
      BY <1>1, <3>1, <4>1, <4>2, <4>3
   <3>3. /\ c.etag = hash /\ hash <= c.version /\ c.version <= file.version
         /\ c.modified <= file.time /\ c.version \in Int /\ c.modified \in Int /\ hash # F!None
     BY <1>1, <3>2 DEF CopiesKept, Copies, StaticInv
   <3>4. CASE c.modified >= file.time
     BY <1>1, <3>3, <3>4
   <3>5. CASE c.etag = F!CachedVersion
    <4>1. hash' = hash /\ hash \in 1..file.version
      BY <1>6, <3>3
    <4>2. hash = file.version \/ hash < file.version
      BY <1>1, <4>1
    <4>3. QED
      BY <1>1, <3>3, <4>1, <4>2
   <3>6. QED
     BY <3>1, <3>4, <3>5
  <2>4. UnderWay(rF)'
    BY <1>1, <1>2, <1>6, <2>2, <2>3 DEF UnderWay
  <2>5. Exact(rF)'
    BY <2>2 DEF Exact
  <2>6. QED
    BY <1>8, <2>2, <2>4, <2>5
 <1>10. CASE ~F!NotModified(c) /\ answer.status = 416
  <2>1. rF' = [s EXCEPT !.phase = "complete"]
    BY <1>2, <1>10
  <2>2. rF' \in Requests
    BY <1>3, <2>1, Changed
  <2>3. /\ rF'.phase = "complete" /\ rF'.status = 416 /\ rF'.length = 0
        /\ rF'.body = <<>> /\ rF'.asked = file /\ rF'.copy = c /\ rF'.etag = F!CachedVersion
        /\ rF'.modified = file.time /\ ~rF'.headed /\ ~rF'.rewritten /\ rF'.a = a /\ rF'.b = b
    BY <1>3, <1>4, <1>10, <2>1 DEF Requests
  <2>4. UnderWay(rF)'
    BY <1>1, <1>2, <1>6, <2>3 DEF UnderWay
  <2>5. Exact(rF)'
    BY <1>2, <1>5, <1>10, <2>3 DEF Exact, AtItsEnd
  <2>6. QED
    BY <1>8, <2>2, <2>4, <2>5
 <1>11. CASE ~F!NotModified(c) /\ answer.status # 416
  <2>1. rF' = s
    BY <1>2, <1>11
  <2>2. UnderWay(rF)'
   <3>1. /\ rF'.phase = "body" /\ rF'.status # 304 /\ rF'.body = <<>> /\ rF'.asked = file
         /\ rF'.etag = F!CachedVersion /\ rF'.modified = file.time /\ ~rF'.rewritten
     BY <1>3, <1>4, <2>1
   <3>2. QED
     BY <1>1, <1>2, <1>6, <3>1 DEF UnderWay
  <2>3. ASSUME Good(a, b) PROVE OnItsWay(s)
   <3>1. NonEmpty(a, b, file.size)
     BY <1>5, <1>11, <2>3
   <3>2. Piece(s)
     BY <1>3, <1>5, <2>3, <3>1 DEF Piece, FirstOf, StopOf
   <3>3. FirstOf(s) = s.pos /\ s.pos = FirstOf(s) + Len(s.body)
     BY <1>3, <1>5, <2>3, <3>1 DEF FirstOf, Requests
   <3>4. IF s.a # F!None /\ s.b # F!None THEN s.left = StopOf(s) - s.pos ELSE s.left = F!None
     BY <1>3, <1>5, <2>3, <3>1 DEF StopOf
   <3>5. FirstOf(s) >= 0 => FirstOf(s) <= StopOf(s)
     BY <1>1, <1>3, <2>3, <3>1, WantedIs DEF FirstOf, StopOf
   <3>6. QED
     BY <1>3, <3>2, <3>3, <3>4, <3>5 DEF OnItsWay
  <2>4. Exact(s)
    BY <1>3, <2>3 DEF Exact
  <2>5. Exact(rF)'
    BY <2>1, <2>4 DEF Exact, OnItsWay, AtItsEnd, Piece, FirstOf, StopOf
  <2>6. QED
    BY <1>3, <1>8, <2>1, <2>2, <2>5
 <1>12. QED
   BY <1>9, <1>10, <1>11

-----------------------------------------------------------------------------
(* Chunks *)

(* What is read next of a file. *)
LEMMA BytesAre ==
  ASSUME ChunkBounds, file \in Files, rF \in Requests
  PROVE  /\ F!Bytes \in Contents /\ Len(F!Bytes) \in Nat
         /\ F!Size(F!ChunkSize) \in Int /\ file.size \in Int /\ rF.pos \in Int
         /\ F!Bytes # <<>> =>
              /\ rF.pos + Len(F!Bytes) <= rF.pos + F!Size(F!ChunkSize) /\ rF.pos + Len(F!Bytes) <= file.size
              /\ \A i \in 1..Len(F!Bytes) : F!Bytes[i] = <<file.version, rF.pos + i - 1>>
         /\ F!Bytes = <<>> => rF.pos + F!Size(F!ChunkSize) <= rF.pos \/ file.size <= rF.pos
 <1> DEFINE n == F!Size(F!ChunkSize)
            last == IF rF.pos + n <= file.size THEN rF.pos + n ELSE file.size
            s == [i \in 1..(last - rF.pos) |-> <<file.version, rF.pos + i - 1>>]
 <1>1. /\ n \in Int /\ file.size \in Int /\ rF.pos \in Int /\ file.version \in Int
   BY DEF F!Size, F!ChunkSize, ChunkBounds, Requests, Files
 <1> HIDE DEF n
 <1>2. last \in Int /\ last <= rF.pos + n /\ last <= file.size /\ (last = rF.pos + n \/ last = file.size)
   BY <1>1
 <1>3. F!Bytes = IF last <= rF.pos THEN <<>> ELSE s
   BY DEF F!Bytes, n
 <1> HIDE DEF last
 <1>4. CASE last <= rF.pos
  <2>1. F!Bytes = <<>>
    BY <1>3, <1>4
  <2>2. F!Bytes \in Contents /\ Len(F!Bytes) = 0
    BY <2>1 DEF Contents
  <2>3. QED
    BY <1>1, <1>2, <1>4, <2>1, <2>2 DEF n
 <1>5. CASE ~(last <= rF.pos)
  <2>1. last - rF.pos \in Nat /\ last - rF.pos > 0
    BY <1>1, <1>2, <1>5
  <2>2. \A i \in 1..(last - rF.pos) : <<file.version, rF.pos + i - 1>> \in Int \X Int
    BY <1>1, <2>1
  <2>3. s \in Seq(Int \X Int) /\ Len(s) = last - rF.pos
    BY <2>1, <2>2
  <2>4. \A i \in 1..Len(s) : s[i] = <<file.version, rF.pos + i - 1>>
    BY <2>3
  <2> HIDE DEF s
  <2>5. F!Bytes = s /\ s # <<>>
    BY <1>3, <1>5, <2>1, <2>3
  <2>6. rF.pos + Len(s) = last
    BY <1>1, <1>2, <2>3
  <2>7. QED
    BY <1>1, <1>2, <2>1, <2>3, <2>4, <2>5, <2>6 DEF Contents, n
 <1>6. QED
   BY <1>4, <1>5

(* A good range goes on up to its end: there the chunks end, and not before.*)
LEMMA GoesOn ==
  ASSUME ChunkBounds, file \in Files, rF \in Requests, Good(rF.a, rF.b), rF.asked = file,
         OnItsWay(rF), rF.pos >= 0, ~rF.headed => rF.body = <<>>
  PROVE  /\ FirstOf(rF) >= 0 /\ FirstOf(rF) \in Int /\ StopOf(rF) \in Int
         /\ rF.pos <= StopOf(rF) /\ rF.length = StopOf(rF) - FirstOf(rF)
         /\ F!Bytes # <<>> => rF.pos + Len(F!Bytes) <= StopOf(rF)
         /\ F!Bytes = <<>> => rF.pos = StopOf(rF) /\ rF.left \in {F!None, 0}
 <1>1. /\ rF.a \in F!Offsets /\ rF.b \in F!Offsets /\ file.size \in 0..MaxSize /\ rF.body \in Contents
       /\ rF.pos \in Int /\ rF.left \in Int
   BY DEF Requests, Files
 <1>2. /\ rF.length = StopOf(rF) - FirstOf(rF) /\ rF.pos = FirstOf(rF) + Len(rF.body)
       /\ IF rF.a # F!None /\ rF.b # F!None THEN rF.left = StopOf(rF) - rF.pos ELSE rF.left = F!None
       /\ FirstOf(rF) >= 0 => rF.pos <= StopOf(rF)
   BY DEF OnItsWay, Piece
 <1>3. FirstOf(rF) \in Int /\ StopOf(rF) \in Int /\ StopOf(rF) <= file.size
   BY <1>1, WantedIs DEF FirstOf, StopOf
 <1>4. FirstOf(rF) >= 0
  <2>1. FirstOf(rF) < 0 => rF.body = <<>>
    BY DEF OnItsWay
  <2>2. rF.body = <<>> => Len(rF.body) = 0
    OBVIOUS
  <2>3. QED
    BY <1>2, <1>3, <2>1, <2>2
 <1>5. /\ Len(F!Bytes) \in Nat /\ F!Size(F!ChunkSize) \in Int
       /\ F!Bytes # <<>> =>
            rF.pos + Len(F!Bytes) <= rF.pos + F!Size(F!ChunkSize) /\ rF.pos + Len(F!Bytes) <= file.size
       /\ F!Bytes = <<>> => rF.pos + F!Size(F!ChunkSize) <= rF.pos \/ file.size <= rF.pos
   BY BytesAre
 <1>6. MaxSize \in Nat /\ Chunk \in Int /\ Chunk > 0 /\ F!None < 0 /\ F!None \in Int
   BY DEF ChunkBounds, F!None
 <1>7. CASE rF.a # F!None /\ rF.b # F!None
  <2>1. rF.left = StopOf(rF) - rF.pos /\ rF.left >= 0 /\ rF.left # F!None
    BY <1>1, <1>2, <1>3, <1>4, <1>6, <1>7
  <2>2. /\ F!Size(F!ChunkSize) <= rF.left /\ (rF.left > 0 => F!Size(F!ChunkSize) > 0)
    BY <1>1, <1>6, <2>1 DEF F!Size, F!ChunkSize
  <2>3. QED
    BY <1>1, <1>2, <1>3, <1>4, <1>5, <2>1, <2>2, SMTT(30)
 <1>8. CASE ~(rF.a # F!None /\ rF.b # F!None)
  <2>1. rF.left = F!None /\ StopOf(rF) = file.size
    BY <1>2, <1>8 DEF StopOf, Stop
  <2>2. F!Size(F!ChunkSize) > 0
    BY <1>6, <2>1 DEF F!Size, F!ChunkSize
  <2>3. QED
    BY <1>1, <1>2, <1>3, <1>4, <1>5, <2>1, <2>2
 <1>9. QED
   BY <1>7, <1>8

LEMMA BodyGrows ==
  ASSUME NEW s \in Contents, NEW t \in Contents
  PROVE  /\ s \o t \in Contents /\ Len(s \o t) = Len(s) + Len(t)
         /\ \A i \in 1..Len(s) : (s \o t)[i] = s[i]
         /\ \A i \in 1..Len(t) : (s \o t)[Len(s) + i] = t[i]
  BY DEF Contents

LEMMA FailsIs ==
  ASSUME rF \in Requests, NEW t, t = F!Fails(rF)
  PROVE  /\ t \in Requests
         /\ t.phase = IF ~rF.headed \/ Len(rF.body) = rF.length THEN "complete" ELSE "closed"
         /\ t.status = IF rF.headed THEN rF.status ELSE 500
         /\ t.length = IF rF.headed THEN rF.length ELSE 0
         /\ t.body = rF.body /\ t.pos = rF.pos
         /\ t.left = rF.left /\ t.a = rF.a /\ t.b = rF.b /\ t.asked = rF.asked /\ t.copy = rF.copy
         /\ t.etag = rF.etag /\ t.modified = rF.modified /\ t.rewritten = rF.rewritten
         /\ t.headed = rF.headed /\ t.gone = rF.gone
 <1> DEFINE p == IF ~rF.headed \/ Len(rF.body) = rF.length THEN "complete" ELSE "closed"
            u == IF rF.headed THEN rF.status ELSE 500
            n == IF rF.headed THEN rF.length ELSE 0
 <1>1. /\ p \in {"body", "complete", "closed"}
       /\ u \in Codes /\ n \in Int
   BY DEF Requests, Codes
 <1>2. t = WithAnswer(rF, p, u, n)
   BY DEF F!Fails, WithAnswer
 <1> HIDE DEF p, u, n
 <1>3. /\ t \in Requests /\ t.phase = p /\ t.status = u /\ t.length = n
       /\ t.body = rF.body /\ t.pos = rF.pos
       /\ t.left = rF.left /\ t.a = rF.a /\ t.b = rF.b /\ t.asked = rF.asked /\ t.copy = rF.copy
       /\ t.etag = rF.etag /\ t.modified = rF.modified /\ t.rewritten = rF.rewritten
       /\ t.headed = rF.headed /\ t.gone = rF.gone
   BY <1>1, <1>2, AnsweredBy
 <1>4. QED
   BY <1>3 DEF p, u, n

LEMMA ChunkKeeps == ChunkBounds /\ StaticInv /\ F!NextChunk => StaticInv'
 <1> SUFFICES ASSUME ChunkBounds, StaticInv, F!NextChunk PROVE StaticInv'
   OBVIOUS
 <1>1. /\ file \in Files /\ rF \in Requests /\ UnderWay(rF) /\ Exact(rF) /\ rF # F!NoRequest
       /\ rF.phase = "body"
   BY DEF StaticInv, F!NextChunk, F!NoRequest
 <1>2. UNCHANGED <<file, hash, copies, gets>>
   BY DEF F!NextChunk
 <1>3. Good(rF.a, rF.b) /\ ~rF.rewritten => OnItsWay(rF) /\ rF.asked = file
   BY <1>1 DEF Exact, UnderWay
 <1>4. ASSUME rF' \in Requests, rF'.etag = rF.etag, rF'.asked = rF.asked, rF'.modified = rF.modified,
              rF'.rewritten = rF.rewritten, rF'.copy = rF.copy,
              ~rF'.headed => rF'.body = <<>>, rF'.phase = "complete" => Len(rF'.body) = rF'.length,
              rF'.status \in {rF.status, 500}, Exact(rF)'
       PROVE  StaticInv'
  <2>1. rF'.status = 304 => rF.status = 304
    BY <1>4
  <2>2. UnderWay(rF)'
    BY <1>1, <1>2, <1>4, <2>1 DEF UnderWay
  <2>3. QED
    BY <1>1, <1>2, <1>4, <2>2, RequestKeeps
 <1>5. rF.body \in Contents /\ Len(rF.body) \in Nat /\ rF.pos \in Int /\ rF.length \in Int
       /\ (~rF.headed => rF.body = <<>>)
   BY <1>1 DEF Requests, Contents, UnderWay
 <1>6. ASSUME rF' = F!Fails(rF), rF.pos < 0 \/ (F!Bytes = <<>> /\ rF.left \notin {F!None, 0})
       PROVE  StaticInv'
  <2>1. /\ rF' \in Requests
        /\ rF'.phase = IF ~rF.headed \/ Len(rF.body) = rF.length THEN "complete" ELSE "closed"
        /\ rF'.status = IF rF.headed THEN rF.status ELSE 500
        /\ rF'.length = IF rF.headed THEN rF.length ELSE 0
        /\ rF'.body = rF.body
        /\ rF'.a = rF.a /\ rF'.b = rF.b /\ rF'.asked = rF.asked /\ rF'.copy = rF.copy
        /\ rF'.etag = rF.etag /\ rF'.modified = rF.modified /\ rF'.rewritten = rF.rewritten
        /\ rF'.headed = rF.headed
    BY <1>1, <1>6, FailsIs
  <2>2. rF'.phase = "complete" => Len(rF'.body) = rF'.length
    BY <1>5, <2>1
  <2>3. ASSUME Good(rF.a, rF.b), ~rF.rewritten
        PROVE  rF'.phase = "complete" /\ AtItsEnd(rF)'
   <3>1. rF.pos < 0
     BY <1>1, <1>3, <1>5, <1>6, <2>3, GoesOn
   <3>2. FirstOf(rF) < 0 /\ ~rF.headed /\ NonEmpty(rF.a, rF.b, rF.asked.size)
    <4>1. FirstOf(rF) \in Int
      BY <1>1, <2>3, WantedIs DEF FirstOf, Requests, Files
    <4>2. QED
      BY <1>3, <1>5, <2>3, <3>1, <4>1 DEF OnItsWay, Piece
   <3>3. FirstOf(rF)' = FirstOf(rF)
     BY <2>1 DEF FirstOf
   <3>4. QED
     BY <2>1, <3>2, <3>3 DEF AtItsEnd
  <2>4. Exact(rF)'
    BY <2>1, <2>3 DEF Exact
  <2>5. rF'.status \in {rF.status, 500}
    BY <2>1
  <2>6. QED
    BY <1>4, <1>5, <2>1, <2>2, <2>4, <2>5
 <1>7. ASSUME NEW p \in {"complete", "closed"}, rF' = [rF EXCEPT !.phase = p, !.headed = TRUE],
              p = "complete" => Len(rF.body) = rF.length,
              Good(rF.a, rF.b) /\ ~rF.rewritten => p = "complete" /\ Piece(rF) /\ FirstOf(rF) >= 0
       PROVE  StaticInv'
  <2>1. /\ rF' \in Requests /\ rF'.phase = p /\ rF'.headed
        /\ rF'.body = rF.body /\ rF'.length = rF.length /\ rF'.status = rF.status
        /\ rF'.a = rF.a /\ rF'.b = rF.b /\ rF'.asked = rF.asked /\ rF'.copy = rF.copy
        /\ rF'.etag = rF.etag /\ rF'.modified = rF.modified /\ rF'.rewritten = rF.rewritten
   <3>1. rF' = WithEnd(rF, p)
     BY <1>7 DEF WithEnd
   <3>2. QED
     BY <1>1, <3>1, Ended
  <2>2. Piece(rF) /\ FirstOf(rF) >= 0 => AtItsEnd(rF)'
    BY <2>1 DEF AtItsEnd, Piece, FirstOf, StopOf
  <2>3. Exact(rF)'
    BY <1>7, <2>1, <2>2 DEF Exact
  <2>4. QED
    BY <1>4, <1>7, <2>1, <2>3
 <1>8. ASSUME rF.pos >= 0, F!Bytes # <<>>, ~(Len(rF.body) + Len(F!Bytes) > rF.length),
              rF' = [rF EXCEPT !.body = @ \o F!Bytes, !.pos = @ + Len(F!Bytes), !.headed = TRUE,
                             !.left = IF @ = F!None THEN F!None ELSE @ - Len(F!Bytes)]
       PROVE  StaticInv'
  <2> DEFINE w == rF.body \o F!Bytes
             p == rF.pos + Len(F!Bytes)
             l == IF rF.left = F!None THEN F!None ELSE rF.left - Len(F!Bytes)
             k == Len(F!Bytes)
  <2>1. /\ F!Bytes \in Contents /\ k \in Nat
        /\ \A i \in 1..k : F!Bytes[i] = <<file.version, rF.pos + i - 1>>
    BY <1>1, <1>8, BytesAre
  <2>2. /\ w \in Contents /\ Len(w) = Len(rF.body) + k
        /\ \A i \in 1..Len(rF.body) : w[i] = rF.body[i]
        /\ \A i \in 1..k : w[Len(rF.body) + i] = F!Bytes[i]
    BY <1>5, <2>1, BodyGrows
  <2>3. p \in Int /\ l \in Int
    BY <1>1, <1>5, <2>1 DEF Requests, F!None, ChunkBounds
  <2>4. rF' = WithChunk(rF, w, p, l)
    BY <1>8 DEF WithChunk
  <2> HIDE DEF w, p, l
  <2>5. /\ rF' \in Requests /\ rF'.phase = rF.phase /\ rF'.headed
        /\ rF'.body = w /\ rF'.length = rF.length /\ rF'.status = rF.status /\ rF'.pos = p
        /\ rF'.left = l /\ rF'.a = rF.a /\ rF'.b = rF.b /\ rF'.asked = rF.asked /\ rF'.copy = rF.copy
        /\ rF'.etag = rF.etag /\ rF'.modified = rF.modified /\ rF'.rewritten = rF.rewritten
    BY <1>1, <2>2, <2>3, <2>4, Sent
  <2>6. ASSUME Good(rF.a, rF.b), ~rF.rewritten
        PROVE  OnItsWay(rF)'
   <3>1. /\ FirstOf(rF) >= 0 /\ FirstOf(rF) \in Int /\ StopOf(rF) \in Int
         /\ rF.pos + k <= StopOf(rF) /\ OnItsWay(rF) /\ rF.asked = file
     BY <1>1, <1>3, <1>5, <1>8, <2>6, GoesOn
   <3>2. /\ Piece(rF) /\ rF.pos = FirstOf(rF) + Len(rF.body)
         /\ IF rF.a # F!None /\ rF.b # F!None THEN rF.left = StopOf(rF) - rF.pos ELSE rF.left = F!None
         /\ rF.pos <= StopOf(rF)
     BY <3>1 DEF OnItsWay
   <3>3. FirstOf(rF)' = FirstOf(rF) /\ StopOf(rF)' = StopOf(rF)
     BY <2>5 DEF FirstOf, StopOf
   <3>4. p = FirstOf(rF) + Len(w) /\ p <= StopOf(rF)
     BY <1>5, <2>1, <2>2, <3>1, <3>2 DEF p
   <3>5. IF rF.a # F!None /\ rF.b # F!None THEN l = StopOf(rF) - p ELSE l = F!None
    <4>1. CASE rF.a # F!None /\ rF.b # F!None
     <5>1. rF.left # F!None
       BY <1>5, <3>1, <3>2, <4>1, SMTT(30) DEF F!None, ChunkBounds
     <5>2. QED
       BY <1>5, <2>1, <3>1, <3>2, <4>1, <5>1 DEF l, p
    <4>2. CASE ~(rF.a # F!None /\ rF.b # F!None)
      BY <3>2, <4>2 DEF l
    <4>3. QED
      BY <4>1, <4>2
   <3>6. ASSUME NEW i \in 1..Len(w) PROVE w[i] = <<rF.asked.version, FirstOf(rF) + i - 1>>
    <4>1. CASE i \in 1..Len(rF.body)
      BY <2>2, <3>2, <4>1 DEF Piece
    <4>2. CASE i \notin 1..Len(rF.body)
     <5>1. i - Len(rF.body) \in 1..k /\ Len(rF.body) + (i - Len(rF.body)) = i
       BY <1>5, <2>1, <2>2, <4>2
     <5>2. w[i] = <<file.version, rF.pos + (i - Len(rF.body)) - 1>>
       BY <2>1, <2>2, <5>1
     <5>3. rF.pos + (i - Len(rF.body)) - 1 = FirstOf(rF) + i - 1
       BY <1>5, <2>2, <3>1, <3>2
     <5>4. QED
       BY <3>1, <5>2, <5>3
    <4>3. QED
      BY <4>1, <4>2
   <3>7. Piece(rF)'
     BY <2>5, <3>2, <3>3, <3>6 DEF Piece
   <3>8. QED
     BY <2>5, <3>1, <3>3, <3>4, <3>5, <3>7 DEF OnItsWay
  <2>7. Exact(rF)'
    BY <1>1, <2>5, <2>6 DEF Exact
  <2>8. QED
    BY <1>1, <1>4, <2>5, <2>7
 <1>9. CASE rF.pos < 0
   BY <1>6, <1>9 DEF F!NextChunk
 <1>10. CASE rF.pos >= 0 /\ F!Bytes # <<>>
  <2>1. Good(rF.a, rF.b) /\ ~rF.rewritten => ~(Len(rF.body) + Len(F!Bytes) > rF.length)
   <3>1. SUFFICES ASSUME Good(rF.a, rF.b), ~rF.rewritten
                  PROVE  Len(rF.body) + Len(F!Bytes) <= rF.length
     BY <1>1, <1>5, BytesAre
   <3>2. /\ FirstOf(rF) \in Int /\ StopOf(rF) \in Int /\ rF.length = StopOf(rF) - FirstOf(rF)
         /\ rF.pos + Len(F!Bytes) <= StopOf(rF) /\ OnItsWay(rF) /\ Len(F!Bytes) \in Nat
     BY <1>1, <1>3, <1>5, <1>10, <3>1, GoesOn, BytesAre
   <3>3. QED
     BY <1>5, <3>2 DEF OnItsWay
  <2>2. ~(rF.pos < 0)
    BY <1>5, <1>10
  <2>3. CASE Len(rF.body) + Len(F!Bytes) > rF.length
   <3>1. rF' = [rF EXCEPT !.phase = "closed", !.headed = TRUE]
     BY <1>10, <2>2, <2>3 DEF F!NextChunk
   <3>2. QED
     BY <1>7, <2>1, <2>3, <3>1
  <2>4. CASE ~(Len(rF.body) + Len(F!Bytes) > rF.length)
    BY <1>8, <1>10, <2>2, <2>4 DEF F!NextChunk
  <2>5. QED
    BY <2>3, <2>4
 <1>11. CASE rF.pos >= 0 /\ F!Bytes = <<>> /\ rF.left \notin {F!None, 0}
  <2>1. ~(rF.pos < 0)
    BY <1>5, <1>11
  <2>2. QED
    BY <1>6, <1>11, <2>1 DEF F!NextChunk
 <1>12. CASE rF.pos >= 0 /\ F!Bytes = <<>> /\ rF.left \in {F!None, 0}
  <2> DEFINE p == IF Len(rF.body) = rF.length THEN "complete" ELSE "closed"
  <2>1. ~(rF.pos < 0)
    BY <1>5, <1>12
  <2>2. rF' = [rF EXCEPT !.phase = p, !.headed = TRUE]
    BY <1>12, <2>1 DEF F!NextChunk
  <2>3. ASSUME Good(rF.a, rF.b), ~rF.rewritten
        PROVE  p = "complete" /\ Piece(rF) /\ FirstOf(rF) >= 0
   <3>1. /\ FirstOf(rF) >= 0 /\ FirstOf(rF) \in Int /\ StopOf(rF) \in Int
         /\ rF.length = StopOf(rF) - FirstOf(rF)
         /\ rF.pos = StopOf(rF) /\ OnItsWay(rF)
     BY <1>1, <1>3, <1>5, <1>12, <2>3, GoesOn
   <3>2. Piece(rF) /\ rF.pos = FirstOf(rF) + Len(rF.body)
     BY <3>1 DEF OnItsWay
   <3>3. QED
     BY <1>5, <3>1, <3>2
  <2>4. p \in {"complete", "closed"} /\ (p = "complete" => Len(rF.body) = rF.length)
    OBVIOUS
  <2> HIDE DEF p
  <2>5. QED
    BY <1>7, <2>2, <2>3, <2>4
 <1>13. rF.pos < 0 \/ rF.pos >= 0
   BY <1>5
 <1>14. QED
   BY <1>9, <1>10, <1>11, <1>12, <1>13

LEMMA StepStatic == ChunkBounds /\ StaticInv /\ [F!Next]_(F!vars) => StaticInv'
 <1> SUFFICES ASSUME ChunkBounds, StaticInv, [F!Next]_(F!vars) PROVE StaticInv'
   OBVIOUS
 <1>1. CASE UNCHANGED F!vars
  <2>1. file' = file /\ hash' = hash /\ copies' = copies /\ gets' = gets /\ rF' = rF
    BY <1>1 DEF F!vars
  <2>2. CopiesKept'
    BY <2>1 DEF StaticInv, CopiesKept
  <2>3. UnderWay(rF) => UnderWay(rF)'
    BY <2>1 DEF UnderWay
  <2>4. Exact(rF) => Exact(rF)'
    BY <2>1 DEF Exact, OnItsWay, AtItsEnd, Piece, FirstOf, StopOf
  <2>5. QED
    BY <2>1, <2>2, <2>3, <2>4 DEF StaticInv
 <1>2. F!None \in F!Offsets /\ F!NoCopy \in Copies
   BY DEF F!Offsets, F!NoCopy, Copies, F!None, ChunkBounds
 <1>3. \A c \in copies : c \in Copies
   BY DEF StaticInv, CopiesKept
 <1>4. CASE F!Next
   BY <1>2, <1>3, <1>4, RewriteKeeps, ChunkKeeps, GoneKeeps, ReceivedKeeps, GetKeeps DEF F!Next
 <1>5. QED
   BY <1>1, <1>4

(* A response that is complete is what was asked for, as long as the file  *)
(* is not rewritten, and as long as was promised in any case; and "not     *)
(* modified" is true of the copy (StaticFileHandler, web.py 2340-2690).    *)
THEOREM FilesAreServed == ChunkBounds => (F!Spec => [](F!TypeOK /\ F!StaticSound))
 <1> SUFFICES ASSUME ChunkBounds PROVE F!Spec => [](F!TypeOK /\ F!StaticSound)
   OBVIOUS
 <1>1. F!Init => StaticInv
   BY InitStatic
 <1>2. StaticInv /\ [F!Next]_(F!vars) => StaticInv'
   BY StepStatic
 <1>3. StaticInv => F!TypeOK /\ F!StaticSound
   BY StaticInvImplies
 <1>4. QED
   BY <1>1, <1>2, <1>3, PTL DEF F!Spec

HIDE DEF file, hash, copies, gets, rF

-----------------------------------------------------------------------------
(* Cookies of forms and logins                                             *)

Co == INSTANCE Cookies WITH
       MaxTime <- MaxTimeCo, now <- v1, settings <- v2, signed <- v3, hasty <- v4,
       session <- v5, xsrf <- v6, tokens <- v7, page <- v8

(* Its variables. *)
now == v1
settings == v2
signed == v3
hasty == v4
session == v5
xsrf == v6
tokens == v7
page == v8

USE DEF now, settings, signed, hasty, session, xsrf, tokens, page

(* A cookie stays in the browser no longer than what it holds is good for. *)
CookieDays ==
  /\ Expires \in Nat /\ MaxAge \in Nat /\ Expires <= MaxAge
  /\ MaxTimeCo \in Nat /\ MaxToken \in Nat

TokenCookies == [token : Nat, expires : Nat]
Users == [version : {0, 1, 2}, secret : {0, 1}, at : Nat]
PagePlaces == {"blank", "asked", "answered", "form", "ok", "refused", "error"}
Pages == [at : PagePlaces, sent : TokenCookies, user : Users, set : TokenCookies, form : Nat,
          settled : BOOLEAN]
Settings == [dict : BOOLEAN, keys : {{0}, {1}, {0, 1}}, key : {0, 1}, version : {1, 2}]

CookiesTyped ==
  /\ now \in 0..MaxTimeCo /\ hasty \in BOOLEAN /\ settings \in Settings
  /\ signed \in [{Co!V1, 0, 1} -> Int]
  /\ session \in Users /\ session.at <= now
  /\ tokens \in 0..MaxToken /\ xsrf \in TokenCookies /\ xsrf.token <= tokens
  /\ page \in [Page -> Pages]

(* No page has a token that was not made. *)
TokensMade ==
  \A p \in Page : /\ page[p].form <= tokens
                  /\ page[p].sent.token <= tokens /\ page[p].set.token <= tokens

(* The key that signs is one of those that check. *)
KeysKnown ==
  IF settings.dict THEN settings.key = 1 /\ 1 \in settings.keys ELSE settings.keys = {0}

(* Who is logged in has a value that was signed no later than the last one *)
(* of its secret and its version; the secret is still known, if no key     *)
(* went too soon.                                                          *)
SessionSigned ==
  session # Co!NoUser =>
    /\ session.at <= signed[session.secret]
    /\ session.version = 1 => session.at <= signed[Co!V1]
    /\ ~hasty /\ session.at + Expires > now =>
         /\ session.secret \in settings.keys
         /\ ~(session.version = 1 /\ settings.dict)

(* A page that is settled has the token of the browser, which no answer    *)
(* that is on its way will change.                                         *)
SettledKept ==
  /\ \A p \in Page : page[p].settled =>
       /\ xsrf.expires > now
       /\ page[p].at \in {"asked", "answered", "form"}
       /\ page[p].at = "asked" => page[p].sent = xsrf
       /\ page[p].at \in {"answered", "form"} => page[p].form = xsrf.token
       /\ \A q \in Page : page[q].at \in {"asked", "answered"} => page[q].sent # Co!None
  /\ \A q \in Page : page[q].at = "answered" /\ page[q].sent # Co!None => page[q].set = Co!None

CookiesInv == CookiesTyped /\ TokensMade /\ KeysKnown /\ SessionSigned /\ SettledKept

LEMMA CookiesInvImplies == CookieDays /\ CookiesInv => Co!TypeOK /\ Co!CookiesSound
 <1> SUFFICES ASSUME CookieDays, CookiesInv PROVE Co!TypeOK /\ Co!CookiesSound
   OBVIOUS
 <1> USE DEF CookieDays, CookiesInv, CookiesTyped, TokenCookies, Users, Pages, PagePlaces, Settings
 <1>1. Co!TypeOK
   BY DEF Co!TypeOK, TokensMade
 <1>2. Co!SettledAccepted
   BY DEF SettledKept, Co!SettledAccepted
 <1>3. Co!StaysLoggedIn
  <2> SUFFICES ASSUME ~hasty, Co!LiveSession # Co!NoUser PROVE Co!Decode(Co!LiveSession) = "user"
    BY DEF Co!StaysLoggedIn
  <2>1. Co!LiveSession = session /\ session.at + Expires > now
    BY DEF Co!LiveSession
  <2>2. /\ session.secret \in settings.keys /\ ~(session.version = 1 /\ settings.dict)
        /\ session # Co!NoUser
    BY <2>1 DEF SessionSigned
  <2>3. ~(session.at < now - MaxAge)
    BY <2>1
  <2>4. QED
    BY <2>1, <2>2, <2>3 DEF Co!Decode
 <1>4. QED
   BY <1>1, <1>2, <1>3 DEF Co!CookiesSound

LEMMA InitCookies == CookieDays /\ Co!Init => CookiesInv
 <1> SUFFICES ASSUME CookieDays, Co!Init PROVE CookiesInv
   OBVIOUS
 <1>1. Co!NoUser \in Users /\ Co!None \in TokenCookies
   BY DEF Co!NoUser, Co!None, Users, TokenCookies
 <1>2. Co!Blank \in Pages
   BY <1>1 DEF Co!Blank, Pages, PagePlaces
 <1>3. CookiesTyped
  <2>1. /\ now \in 0..MaxTimeCo /\ tokens \in 0..MaxToken
        /\ hasty \in BOOLEAN
   <3>1. now = 0 /\ tokens = 0 /\ MaxTimeCo \in Nat /\ MaxToken \in Nat
     BY DEF Co!Init, CookieDays
   <3>2. hasty \in BOOLEAN
     BY DEF Co!Init
   <3>3. QED
     BY <3>1, <3>2
  <2>2. settings \in Settings
    BY DEF Co!Init, Settings
  <2>3. signed \in [{Co!V1, 0, 1} -> Int]
    BY DEF Co!Init, CookieDays
  <2>4. session \in Users /\ session.at <= now /\ xsrf \in TokenCookies /\ xsrf.token <= tokens
    BY <1>1 DEF Co!Init, Co!NoUser, Co!None
  <2>5. page \in [Page -> Pages]
    BY <1>2 DEF Co!Init
  <2>6. QED
    BY <2>1, <2>2, <2>3, <2>4, <2>5 DEF CookiesTyped
 <1>4. QED
   BY <1>3 DEF Co!Init, CookiesInv, CookiesTyped, TokensMade, KeysKnown, SessionSigned,
      SettledKept,
      Co!Blank, Co!None, Co!NoUser

(* What the pages do to the pages. *)
LEMMA AskKeeps == ASSUME CookieDays, CookiesInv, NEW p \in Page, Co!Ask(p) PROVE CookiesInv'
 <1> DEFINE r == [Co!Blank EXCEPT !.at = "asked", !.sent = Co!Alive(xsrf), !.user = Co!LiveSession,
                    !.settled = /\ Co!Alive(xsrf) # Co!None
                                /\ \A q \in Page : page[q].at \in {"asked", "answered"} =>
                                                     page[q].sent # Co!None]
 <1>1. Co!NoUser \in Users /\ Co!None \in TokenCookies
   BY DEF Co!NoUser, Co!None, Users, TokenCookies
 <1>2. Co!Alive(xsrf) \in {xsrf, Co!None} /\ Co!LiveSession \in Users
   BY <1>1 DEF Co!Alive, Co!LiveSession, CookiesInv, CookiesTyped
 <1>3. /\ r \in Pages /\ r.at = "asked" /\ r.sent = Co!Alive(xsrf) /\ r.form = 0 /\ r.set = Co!None
       /\ r.settled <=> /\ Co!Alive(xsrf) # Co!None
                        /\ \A q \in Page : page[q].at \in {"asked", "answered"} =>
                                             page[q].sent # Co!None
   BY <1>1, <1>2 DEF Co!Blank, Pages, PagePlaces, CookiesInv, CookiesTyped
 <1> HIDE DEF r
 <1>4. page' = [page EXCEPT ![p] = r]
   BY DEF Co!Ask, r
 <1>5. /\ page' \in [Page -> Pages] /\ page'[p] = r /\ \A q \in Page \ {p} : page'[q] = page[q]
       /\ UNCHANGED <<now, settings, signed, hasty, session, xsrf, tokens>>
   BY <1>3, <1>4 DEF Co!Ask, CookiesInv, CookiesTyped
 <1>6. CookiesTyped' /\ KeysKnown' /\ SessionSigned'
   BY <1>5 DEF CookiesInv, CookiesTyped, KeysKnown, SessionSigned
 <1>7. TokensMade'
   BY <1>2, <1>3, <1>5 DEF CookiesInv, CookiesTyped, TokensMade, Co!None
 <1>8. /\ r.settled => Co!Alive(xsrf) = xsrf /\ Co!Alive(xsrf) # Co!None /\ xsrf.expires > now
       /\ xsrf.expires > now => Co!Alive(xsrf) = xsrf /\ xsrf # Co!None
  <2>1. now \in Nat
    BY DEF CookieDays, CookiesInv, CookiesTyped
  <2>2. Co!None.expires = 0
    BY DEF Co!None
  <2>3. xsrf.expires > now => xsrf # Co!None
    BY <2>1, <2>2
  <2>4. ~(xsrf.expires > now) => Co!Alive(xsrf) = Co!None
    BY DEF Co!Alive
  <2>5. xsrf.expires > now => Co!Alive(xsrf) = xsrf
    BY DEF Co!Alive
  <2>6. QED
    BY <1>3, <2>3, <2>4, <2>5
 <1>9. SettledKept'
   BY <1>3, <1>5, <1>8 DEF CookiesInv, SettledKept
 <1>10. QED
   BY <1>6, <1>7, <1>9 DEF CookiesInv

LEMMA RenderKeeps == ASSUME CookieDays, CookiesInv, NEW p \in Page, Co!Render(p) PROVE CookiesInv'
 <1>1. Co!NoUser \in Users /\ Co!None \in TokenCookies /\ Co!Blank \in Pages
   BY DEF Co!NoUser, Co!None, Users, TokenCookies, Co!Blank, Pages, PagePlaces
 <1>2. CASE Co!Decode(page[p].user) = "error"
  <2>1. page' = [page EXCEPT ![p] = [Co!Blank EXCEPT !.at = "error"]] /\ UNCHANGED tokens
    BY <1>2 DEF Co!Render
  <2> DEFINE r == [Co!Blank EXCEPT !.at = "error"]
  <2>2. r \in Pages /\ r.at = "error" /\ r.sent = Co!None /\ r.form = 0 /\ r.set = Co!None /\ ~r.settled
    BY <1>1 DEF Co!Blank, Pages, PagePlaces
  <2> HIDE DEF r
  <2>3. /\ page' \in [Page -> Pages] /\ page'[p] = r /\ \A q \in Page \ {p} : page'[q] = page[q]
        /\ UNCHANGED <<now, settings, signed, hasty, session, xsrf, tokens>>
    BY <2>1, <2>2 DEF Co!Render, CookiesInv, CookiesTyped, r
  <2>4. QED
    BY <2>2, <2>3 DEF CookiesInv, CookiesTyped, TokensMade, KeysKnown, SessionSigned,
       SettledKept, Co!None
 <1>3. CASE Co!Decode(page[p].user) # "error"
  <2> DEFINE t == Co!RawToken(p)
             s == page[p]
             r == [s EXCEPT !.at = "answered", !.user = Co!NoUser, !.form = t.token,
                            !.set = IF t = s.sent THEN Co!None ELSE t]
  <2>1. s \in Pages /\ s.at = "asked"
    BY DEF CookiesInv, CookiesTyped, Co!Render
  <2>2. t \in TokenCookies /\ (s.sent # Co!None => t = s.sent)
    BY <2>1 DEF Co!RawToken, TokenCookies, Pages, Co!Never, CookieDays, CookiesInv, CookiesTyped
  <2>3. /\ t.token <= MaxToken /\ tokens' = IF t.token > tokens THEN t.token ELSE tokens
        /\ page' = [page EXCEPT ![p] = r]
        /\ UNCHANGED <<now, settings, signed, hasty, session, xsrf>>
    BY <1>3 DEF Co!Render
  <2> HIDE DEF t
  <2>4. /\ r \in Pages /\ r.at = "answered" /\ r.form = t.token /\ r.sent = s.sent
        /\ r.settled = s.settled /\ r.set = IF t = s.sent THEN Co!None ELSE t
   <3>1. t.token \in Nat
     BY <2>2 DEF TokenCookies
   <3>2. QED
     BY <1>1, <2>1, <2>2, <3>1 DEF Pages, PagePlaces
  <2> HIDE DEF r
  <2>5. page' \in [Page -> Pages] /\ page'[p] = r /\ \A q \in Page \ {p} : page'[q] = page[q]
    BY <2>3, <2>4 DEF CookiesInv, CookiesTyped
  <2>6. tokens' \in 0..MaxToken /\ tokens <= tokens' /\ t.token <= tokens'
    BY <2>2, <2>3 DEF TokenCookies, CookiesInv, CookiesTyped, CookieDays
  <2>7. CookiesTyped' /\ KeysKnown' /\ SessionSigned'
    BY <2>3, <2>5, <2>6 DEF CookiesInv, CookiesTyped, KeysKnown, SessionSigned, TokenCookies,
       CookieDays
  <2>8. TokensMade'
   <3>1. r.form <= tokens' /\ r.sent.token <= tokens' /\ r.set.token <= tokens'
     BY <2>1, <2>2, <2>4, <2>6 DEF CookiesInv, CookiesTyped, TokensMade, Co!None, Pages,
        TokenCookies,
        CookieDays
   <3>2. ASSUME NEW q \in Page, q # p
         PROVE  /\ page'[q].form <= tokens'
                /\ page'[q].sent.token <= tokens' /\ page'[q].set.token <= tokens'
    <4>1. page'[q] = page[q] /\ page[q] \in Pages
      BY <2>5, <3>2 DEF CookiesInv, CookiesTyped
    <4>2. QED
      BY <2>6, <4>1 DEF CookiesInv, CookiesTyped, TokensMade, Pages, TokenCookies, CookieDays
   <3>3. QED
     BY <2>5, <3>1, <3>2 DEF TokensMade
  <2>9. SettledKept'
   <3>1. xsrf.expires > now => xsrf # Co!None
     BY DEF Co!None, CookiesInv, CookiesTyped
   <3>2. r.settled => r.sent = xsrf /\ r.sent # Co!None /\ t = xsrf
     BY <2>1, <2>2, <2>4, <3>1 DEF CookiesInv, SettledKept
   <3>3. QED
     BY <2>1, <2>2, <2>3, <2>4, <2>5, <3>2 DEF CookiesInv, SettledKept
  <2>10. QED
    BY <2>7, <2>8, <2>9 DEF CookiesInv
 <1>4. QED
   BY <1>2, <1>3

LEMMA ReceiveKeeps == ASSUME CookieDays, CookiesInv, NEW p \in Page, Co!Receive(p) PROVE CookiesInv'
 <1> DEFINE s == page[p]
            r == [s EXCEPT !.at = "form"]
 <1>1. s \in Pages /\ s.at = "answered"
   BY DEF Co!Receive, CookiesInv, CookiesTyped
 <1>2. /\ r \in Pages /\ r.at = "form" /\ r.sent = s.sent /\ r.set = s.set /\ r.form = s.form
       /\ r.settled = s.settled
   BY <1>1 DEF Pages, PagePlaces
 <1>3. /\ page' = [page EXCEPT ![p] = r] /\ xsrf' = IF s.set = Co!None THEN xsrf ELSE s.set
       /\ UNCHANGED <<now, settings, signed, hasty, session, tokens>>
   BY DEF Co!Receive
 <1> HIDE DEF r
 <1>4. page' \in [Page -> Pages] /\ page'[p] = r /\ \A q \in Page \ {p} : page'[q] = page[q]
   BY <1>2, <1>3 DEF CookiesInv, CookiesTyped
 <1>5. xsrf' \in TokenCookies /\ xsrf'.token <= tokens
   BY <1>1, <1>3 DEF CookiesInv, CookiesTyped, TokensMade, Pages
 <1>6. CookiesTyped' /\ KeysKnown' /\ SessionSigned'
   BY <1>3, <1>4, <1>5 DEF CookiesInv, CookiesTyped, KeysKnown, SessionSigned
 <1>7. TokensMade'
   BY <1>2, <1>3, <1>4 DEF CookiesInv, TokensMade
 <1>8. ASSUME NEW q \in Page, page[q].settled PROVE xsrf' = xsrf
   BY <1>1, <1>3, <1>8 DEF CookiesInv, SettledKept
 <1>9. SettledKept'
   BY <1>1, <1>2, <1>3, <1>4, <1>8 DEF CookiesInv, SettledKept
 <1>10. QED
   BY <1>6, <1>7, <1>9 DEF CookiesInv

(* A page that has posted its form: nothing is asked of it any more but    *)
(* that it is not settled.                                                 *)
LEMMA PostedKeeps ==
  ASSUME CookieDays, CookiesInv, NEW p \in Page, NEW r \in Pages,
         r.at \in {"refused", "ok", "error"}, ~r.settled,
         r.form <= tokens, r.sent.token <= tokens, r.set.token <= tokens,
         page' = [page EXCEPT ![p] = r], UNCHANGED <<now, settings, hasty, xsrf, tokens>>,
         signed' \in [{Co!V1, 0, 1} -> Int], session' \in Users, session'.at <= now, SessionSigned'
  PROVE  CookiesInv'
 <1>1. page' \in [Page -> Pages] /\ page'[p] = r /\ \A q \in Page \ {p} : page'[q] = page[q]
   BY DEF CookiesInv, CookiesTyped
 <1>2. CookiesTyped' /\ KeysKnown'
   BY <1>1 DEF CookiesInv, CookiesTyped, KeysKnown
 <1>3. TokensMade' /\ SettledKept'
   BY <1>1 DEF CookiesInv, TokensMade, SettledKept
 <1>4. QED
   BY <1>2, <1>3 DEF CookiesInv

LEMMA PostKeeps == ASSUME CookieDays, CookiesInv, NEW p \in Page, Co!Post(p) PROVE CookiesInv'
 <1> DEFINE s == page[p]
            good == Co!Alive(xsrf).token = s.form
            fails == settings.dict /\ settings.version = 1
            key == IF settings.dict THEN settings.key ELSE 0
            done == [Co!Blank EXCEPT !.at = "ok"]
            failed == [Co!Blank EXCEPT !.at = "error"]
            refused == [s EXCEPT !.at = "refused"]
 <1>1. s \in Pages /\ s.at = "form"
   BY DEF Co!Post, CookiesInv, CookiesTyped
 <1>2. Co!NoUser \in Users /\ Co!None \in TokenCookies /\ tokens \in Nat
   BY DEF Co!NoUser, Co!None, Users, TokenCookies, CookiesInv, CookiesTyped, CookieDays
 <1>3. /\ done \in Pages /\ done.at = "ok" /\ done.sent = Co!None /\ done.form = 0 /\ done.set = Co!None
       /\ ~done.settled
       /\ failed \in Pages /\ failed.at = "error" /\ failed.sent = Co!None /\ failed.form = 0
       /\ failed.set = Co!None /\ ~failed.settled
   BY <1>2 DEF Co!Blank, Pages, PagePlaces
 <1>4. /\ refused \in Pages /\ refused.at = "refused" /\ refused.sent = s.sent
       /\ refused.set = s.set /\ refused.form = s.form /\ refused.settled = s.settled
   BY <1>1 DEF Pages, PagePlaces
 <1>5. UNCHANGED <<now, settings, hasty, xsrf, tokens>>
   BY DEF Co!Post
 <1>6. Co!None.token <= tokens /\ 0 <= tokens
   BY <1>2 DEF Co!None
 <1>7. CASE ~good /\ page' = [page EXCEPT ![p] = refused] /\ UNCHANGED <<session, signed>>
  <2>1. ~s.settled
    BY <1>1, <1>7 DEF CookiesInv, SettledKept, Co!Alive
  <2> HIDE DEF refused
  <2>2. /\ refused.form <= tokens /\ refused.sent.token <= tokens /\ refused.set.token <= tokens
        /\ signed' \in [{Co!V1, 0, 1} -> Int] /\ session' \in Users /\ session'.at <= now
    BY <1>4, <1>7 DEF CookiesInv, CookiesTyped, TokensMade
  <2>3. SessionSigned'
    BY <1>5, <1>7 DEF CookiesInv, SessionSigned
  <2>4. QED
    BY <1>4, <1>5, <1>7, <2>1, <2>2, <2>3, PostedKeeps
 <1>8. CASE good /\ fails /\ page' = [page EXCEPT ![p] = failed] /\ UNCHANGED <<session, signed>>
  <2> HIDE DEF failed
  <2>1. /\ failed.form <= tokens /\ failed.sent.token <= tokens /\ failed.set.token <= tokens
        /\ signed' \in [{Co!V1, 0, 1} -> Int] /\ session' \in Users /\ session'.at <= now
    BY <1>3, <1>6, <1>8 DEF CookiesInv, CookiesTyped
  <2>2. SessionSigned'
    BY <1>5, <1>8 DEF CookiesInv, SessionSigned
  <2>3. QED
    BY <1>3, <1>5, <1>8, <2>1, <2>2, PostedKeeps
 <1>9. CASE /\ good /\ ~fails
            /\ session' = [version |-> settings.version, secret |-> key, at |-> now]
            /\ signed' = IF settings.version = 1 THEN [signed EXCEPT ![Co!V1] = now, ![key] = now]
                         ELSE [signed EXCEPT ![key] = now]
            /\ page' = [page EXCEPT ![p] = done]
  <2>1. /\ key \in settings.keys /\ key \in {0, 1} /\ now \in Nat /\ settings.version \in {1, 2}
        /\ settings.version = 1 => ~settings.dict
    BY <1>9 DEF CookiesInv, CookiesTyped, KeysKnown, Settings, CookieDays
  <2> HIDE DEF key, done
  <2>2. /\ session' \in Users /\ session'.at = now /\ session'.secret = key
        /\ session'.version = settings.version
    BY <1>9, <2>1 DEF Users
  <2>3. /\ signed' \in [{Co!V1, 0, 1} -> Int] /\ signed'[key] = now
        /\ settings.version = 1 => signed'[Co!V1] = now
    BY <1>9, <2>1 DEF CookiesInv, CookiesTyped, Co!V1
  <2>4. SessionSigned'
    BY <1>5, <2>1, <2>2, <2>3 DEF SessionSigned
  <2>5. done.form <= tokens /\ done.sent.token <= tokens /\ done.set.token <= tokens
    BY <1>3, <1>6
  <2>6. QED
   <3>1. page' = [page EXCEPT ![p] = done] /\ session'.at <= now
     BY <1>9, <2>1, <2>2
   <3>2. QED
     BY <1>3, <1>5, <2>2, <2>3, <2>4, <2>5, <3>1, PostedKeeps
 <1>10. CASE good /\ session' = Co!NoUser /\ page' = [page EXCEPT ![p] = done] /\ UNCHANGED signed
  <2> HIDE DEF done
  <2>1. /\ done.form <= tokens /\ done.sent.token <= tokens /\ done.set.token <= tokens
        /\ signed' \in [{Co!V1, 0, 1} -> Int] /\ session' \in Users /\ session'.at <= now
    BY <1>2, <1>3, <1>6, <1>10 DEF CookiesInv, CookiesTyped, Co!NoUser, CookieDays
  <2>2. SessionSigned'
    BY <1>10 DEF SessionSigned, Co!NoUser
  <2>3. QED
    BY <1>3, <1>5, <1>10, <2>1, <2>2, PostedKeeps
 <1>11. QED
   BY <1>7, <1>8, <1>9, <1>10 DEF Co!Post

LEMMA CloseKeeps == CookieDays /\ CookiesInv /\ Co!CloseBrowser => CookiesInv'
 <1> SUFFICES ASSUME CookieDays, CookiesInv, Co!CloseBrowser PROVE CookiesInv'
   OBVIOUS
 <1>1. Co!None \in TokenCookies /\ Co!NoUser \in Users /\ Co!None.token = 0 /\ tokens \in Nat
   BY DEF Co!None, Co!NoUser, Users, TokenCookies, CookiesInv, CookiesTyped, CookieDays
 <1>2. /\ Co!Blank \in Pages /\ Co!Blank.at = "blank" /\ Co!Blank.sent = Co!None /\ Co!Blank.form = 0
       /\ Co!Blank.set = Co!None /\ ~Co!Blank.settled
   BY <1>1 DEF Co!Blank, Pages, PagePlaces
 <1>3. /\ page' \in [Page -> Pages] /\ \A p \in Page : page'[p] = Co!Blank
       /\ xsrf' \in {xsrf, Co!None}
       /\ UNCHANGED <<now, settings, signed, hasty, session, tokens>>
   BY <1>2 DEF Co!CloseBrowser
 <1>4. CookiesTyped' /\ KeysKnown' /\ SessionSigned'
   BY <1>1, <1>3 DEF CookiesInv, CookiesTyped, KeysKnown, SessionSigned
 <1>5. TokensMade' /\ SettledKept'
   BY <1>1, <1>2, <1>3 DEF TokensMade, SettledKept
 <1>6. QED
   BY <1>4, <1>5 DEF CookiesInv

LEMMA DayKeeps == CookieDays /\ CookiesInv /\ Co!Day => CookiesInv'
 <1> SUFFICES ASSUME CookieDays, CookiesInv, Co!Day PROVE CookiesInv'
   OBVIOUS
 <1> DEFINE r(p) == [page[p] EXCEPT !.settled = @ /\ xsrf.expires > now']
 <1>1. /\ now \in Nat /\ now' = now + 1 /\ now' \in 0..MaxTimeCo
       /\ UNCHANGED <<settings, signed, hasty, session, xsrf, tokens>>
       /\ xsrf \in TokenCookies /\ session \in Users /\ Expires \in Nat
   BY DEF Co!Day, CookieDays, CookiesInv, CookiesTyped
 <1>2. ASSUME NEW p \in Page
       PROVE  /\ r(p) \in Pages /\ page'[p] = r(p) /\ r(p).at = page[p].at
              /\ r(p).sent = page[p].sent /\ r(p).set = page[p].set /\ r(p).form = page[p].form
              /\ r(p).settled <=> page[p].settled /\ xsrf.expires > now'
  <2>1. page[p] \in Pages
    BY DEF CookiesInv, CookiesTyped
  <2>2. QED
    BY <2>1 DEF Pages, Co!Day
 <1>3. page' \in [Page -> Pages]
   BY <1>2 DEF Co!Day
 <1> HIDE DEF r
 <1>4. CookiesTyped' /\ KeysKnown'
   BY <1>1, <1>3 DEF CookiesInv, CookiesTyped, KeysKnown, Users
 <1>5. session.at + Expires > now' => session.at + Expires > now
   BY <1>1 DEF Users
 <1>6. SessionSigned'
   BY <1>1, <1>5 DEF CookiesInv, SessionSigned
 <1>7. TokensMade' /\ SettledKept'
   BY <1>1, <1>2 DEF CookiesInv, TokensMade, SettledKept
 <1>8. QED
   BY <1>4, <1>6, <1>7 DEF CookiesInv

(* The keys change: whoever is logged in with a value that the change      *)
(* makes useless had it signed lately.                                     *)
LEMMA SettingsKeep ==
  ASSUME CookieDays, CookiesInv, Co!UseKeys \/ Co!DropKey \/ (\E version \in {1, 2} : Co!SignVersion(version))
  PROVE  CookiesInv'
 <1>1. /\ UNCHANGED <<now, signed, session, xsrf, tokens, page>>
       /\ hasty' \in BOOLEAN /\ settings' \in Settings
   BY DEF Co!UseKeys, Co!DropKey, Co!SignVersion, CookiesInv, CookiesTyped, Settings, Co!Recent
 <1>2. CookiesTyped' /\ TokensMade' /\ SettledKept'
   BY <1>1 DEF CookiesInv, CookiesTyped, TokensMade, SettledKept
 <1>3. KeysKnown'
   BY ZenonT(30) DEF Co!UseKeys, Co!DropKey, Co!SignVersion, CookiesInv, KeysKnown, CookiesTyped,
      Settings
 <1>4. SessionSigned'
  <2> SUFFICES ASSUME session # Co!NoUser, ~hasty', session.at + Expires > now
               PROVE  /\ session.secret \in settings'.keys
                      /\ ~(session.version = 1 /\ settings'.dict)
    BY <1>1 DEF CookiesInv, SessionSigned
  <2>1. /\ session \in Users /\ now \in Nat /\ Expires \in Nat /\ signed \in [{Co!V1, 0, 1} -> Int]
        /\ settings \in Settings
    BY DEF CookiesInv, CookiesTyped, CookieDays
  <2>2. Co!Recent(session.secret) /\ (session.version = 1 => Co!Recent(Co!V1))
    BY <2>1 DEF CookiesInv, SessionSigned, Co!Recent, Users
  <2>3. /\ ~hasty => /\ session.secret \in settings.keys
                     /\ ~(session.version = 1 /\ settings.dict)
        /\ session.secret \in {0, 1}
    BY <2>1 DEF CookiesInv, SessionSigned, Users
  <2>4. CASE Co!UseKeys
   <3>1. PICK keys \in {{0, 1}, {1}} :
           /\ settings' = [settings EXCEPT !.dict = TRUE, !.keys = keys, !.key = 1]
           /\ hasty' = (hasty \/ Co!Recent(Co!V1) \/ (0 \notin keys /\ Co!Recent(0)))
     BY <2>4 DEF Co!UseKeys
   <3>2. settings'.keys = keys
     BY <2>1, <3>1 DEF Settings
   <3>3. ~hasty /\ ~Co!Recent(Co!V1) /\ ~(0 \notin keys /\ Co!Recent(0))
     BY <3>1
   <3>4. session.secret \in keys
     BY <2>2, <2>3, <3>1, <3>3
   <3>5. QED
     BY <2>2, <3>2, <3>3, <3>4
  <2>5. CASE Co!DropKey
    BY <2>1, <2>2, <2>3, <2>5 DEF Co!DropKey, Settings
  <2>6. CASE \E version \in {1, 2} : Co!SignVersion(version)
    BY <2>1, <2>3, <2>6 DEF Co!SignVersion, Settings
  <2>7. QED
    BY <2>4, <2>5, <2>6
 <1>5. QED
   BY <1>2, <1>3, <1>4 DEF CookiesInv

LEMMA StepCookies == CookieDays /\ CookiesInv /\ [Co!Next]_(Co!vars) => CookiesInv'
 <1> SUFFICES ASSUME CookieDays, CookiesInv, [Co!Next]_(Co!vars) PROVE CookiesInv'
   OBVIOUS
 <1>1. CASE UNCHANGED Co!vars
   BY <1>1 DEF Co!vars, CookiesInv, CookiesTyped, TokensMade, KeysKnown, SessionSigned, SettledKept
 <1>2. CASE Co!Next
   BY <1>2, AskKeeps, RenderKeeps, ReceiveKeeps, PostKeeps, CloseKeeps, DayKeeps, SettingsKeep
   DEF Co!Next
 <1>3. QED
   BY <1>1, <1>2

(* Forms that are asked for once the browser has a token are accepted, and *)
(* whoever is logged in stays so, as long as a cookie is in the browser no *)
(* longer than what it holds is good for (xsrf_token, check_xsrf_cookie    *)
(* and decode_signed_value, web.py 1213-1350 and 3183-3283).               *)
THEOREM FormsAndLogins == CookieDays => (Co!Spec => [](Co!TypeOK /\ Co!CookiesSound))
 <1> SUFFICES ASSUME CookieDays PROVE Co!Spec => [](Co!TypeOK /\ Co!CookiesSound)
   OBVIOUS
 <1>1. Co!Init => CookiesInv
   BY InitCookies
 <1>2. CookiesInv /\ [Co!Next]_(Co!vars) => CookiesInv'
   BY StepCookies
 <1>3. CookiesInv => Co!TypeOK /\ Co!CookiesSound
   BY CookiesInvImplies
 <1>4. QED
   BY <1>1, <1>2, <1>3, PTL DEF Co!Spec

HIDE DEF now, settings, signed, hasty, session, xsrf, tokens, page

-----------------------------------------------------------------------------
(* A semaphore and its permits                                             *)

Sm == INSTANCE Semaphores WITH
       GCAfter <- GCAfterSm, initial <- v1, bounded <- v2, value <- v3,
       waiters <- v4, timeouts <- v5, call <- v6, armed <- v7, extra <- v8

(* Its variables. *)
initial == v1
bounded == v2
value == v3
waitersSm == v4
timeoutsSm == v5
callSm == v6
armedSm == v7
extra == v8

USE DEF initial, bounded, value, waitersSm, timeoutsSm, callSm, armedSm, extra

LEMMA SameCardinalitySm == \A S : Sm!Cardinality(S) = Cardinality(S)
  BY DEF Sm!Cardinality, Cardinality

Apart(ws) == \A i, j \in DOMAIN ws : ws[i] = ws[j] => i = j
TimedOut(ws, cs) == {i \in DOMAIN ws : cs[ws[i]] = "timeout"}

(* Every call that waits stands in the deque, and no call twice.           *)
SemaphoreInv ==
  /\ Sm!TypeOK /\ Sm!PermitsConserved /\ Sm!WaitersSwept
  /\ IsFiniteSet(Sm!Holders)
  /\ Apart(waitersSm) /\ \A i \in DOMAIN waitersSm : callSm[waitersSm[i]] # "none"

AcquireStates == {"none", "pending", "held", "released", "timeout", "cancelled"}

LEMMA SemaphoreParts ==
  ASSUME Sm!SemaphoresAssumption, SemaphoreInv
  PROVE  /\ initial \in 0..MaxInitial /\ bounded \in BOOLEAN /\ initial \in Nat
         /\ value \in Nat /\ timeoutsSm \in 0..GCAfterSm /\ extra \in 0..MaxExtra /\ extra \in Nat
         /\ waitersSm \in Seq(Acquire) /\ Len(waitersSm) \in Nat /\ DOMAIN waitersSm = 1..Len(waitersSm)
         /\ callSm \in [Acquire -> AcquireStates] /\ armedSm \subseteq Acquire
         /\ value + Sm!Cardinality(Sm!Holders) = initial + extra
         /\ (bounded => value <= initial)
         /\ \A a \in Acquire : callSm[a] = "pending" =>
              value = 0 /\ \E i \in DOMAIN waitersSm : waitersSm[i] = a
         /\ Sm!Cardinality(TimedOut(waitersSm, callSm)) <= timeoutsSm
         /\ IsFiniteSet(TimedOut(waitersSm, callSm)) /\ Sm!Cardinality(TimedOut(waitersSm, callSm)) \in Nat
         /\ IsFiniteSet(Sm!Holders) /\ Sm!Cardinality(Sm!Holders) \in Nat
         /\ Apart(waitersSm)
         /\ \A i \in DOMAIN waitersSm : waitersSm[i] \in Acquire /\ callSm[waitersSm[i]] # "none"
 <1>1. Sm!TypeOK /\ Sm!PermitsConserved /\ Sm!WaitersSwept
   BY DEF SemaphoreInv
 <1>2. /\ initial \in 0..MaxInitial /\ bounded \in BOOLEAN /\ initial \in Nat
       /\ value \in Nat /\ timeoutsSm \in 0..GCAfterSm /\ extra \in 0..MaxExtra /\ extra \in Nat
       /\ waitersSm \in Seq(Acquire) /\ Len(waitersSm) \in Nat /\ DOMAIN waitersSm = 1..Len(waitersSm)
       /\ callSm \in [Acquire -> AcquireStates] /\ armedSm \subseteq Acquire
       /\ \A i \in DOMAIN waitersSm : waitersSm[i] \in Acquire
   BY <1>1 DEF Sm!TypeOK, AcquireStates, Sm!SemaphoresAssumption
 <1>3. IsFiniteSet(TimedOut(waitersSm, callSm)) /\ Sm!Cardinality(TimedOut(waitersSm, callSm)) \in Nat
  <2>1. TimedOut(waitersSm, callSm) \in SUBSET (1..Len(waitersSm))
    BY <1>2 DEF TimedOut
  <2>2. IsFiniteSet(1..Len(waitersSm))
    BY <1>2, FS_Interval, SameCardinalitySm
  <2>3. QED
    BY <2>1, <2>2, FS_Subset, SameCardinalitySm, FS_CardinalityType
 <1>4. IsFiniteSet(Sm!Holders) /\ Sm!Cardinality(Sm!Holders) \in Nat
   BY FS_CardinalityType, SameCardinalitySm DEF SemaphoreInv
 <1>5. QED
   BY <1>1, <1>2, <1>3, <1>4 DEF SemaphoreInv, Sm!PermitsConserved, Sm!WaitersSwept, TimedOut,
      Sm!Pending

LEMMA KeptWaiters == \A ws, S : Sm!Kept(ws, S) = Selected(ws, S)
  BY DEF Sm!Kept, Selected, Sm!Cardinality, Cardinality

(* Nobody in ws times out as it loses its first n, or as others go on.     *)
LEMMA FewerTimedOut ==
  ASSUME NEW T, NEW ws \in Seq(T), NEW n \in 0..Len(ws), NEW us \in Seq(T),
         Len(us) = Len(ws) - n, \A i \in 1..Len(ws) - n : us[i] = ws[i + n],
         NEW cs, NEW ds, \A i \in 1..Len(ws) : ds[ws[i]] = "timeout" => cs[ws[i]] = "timeout"
  PROVE  Sm!Cardinality(TimedOut(us, ds)) <= Sm!Cardinality(TimedOut(ws, cs))
 <1> DEFINE A == TimedOut(us, ds)
            B == TimedOut(ws, cs)
            f == [i \in A |-> i + n]
 <1>1. /\ Len(ws) \in Nat /\ n \in Int /\ n >= 0 /\ n <= Len(ws)
       /\ DOMAIN ws = 1..Len(ws) /\ DOMAIN us = 1..Len(ws) - n
   OBVIOUS
 <1>2. \A i \in A : i \in Int /\ i + n \in B
  <2>1. SUFFICES ASSUME NEW i \in 1..Len(ws) - n, ds[us[i]] = "timeout" PROVE i + n \in B
    BY <1>1 DEF TimedOut
  <2>2. i + n \in 1..Len(ws) /\ us[i] = ws[i + n]
    BY <1>1
  <2>3. QED
    BY <1>1, <2>1, <2>2 DEF TimedOut
 <1> HIDE DEF A, B
 <1>3. f \in Injection(A, B)
  <2>1. \A i, j \in A : f[i] = f[j] => i = j
    BY <1>1, <1>2
  <2>2. f \in [A -> B]
    BY <1>2
  <2>3. QED
    BY <2>1, <2>2 DEF Injection, IsInjective
 <1>4. IsFiniteSet(B)
  <2>1. B \in SUBSET (1..Len(ws))
    BY <1>1 DEF B, TimedOut
  <2>2. IsFiniteSet(1..Len(ws))
    BY <1>1, FS_Interval, SameCardinalitySm
  <2>3. QED
    BY <2>1, <2>2, FS_Subset, SameCardinalitySm
 <1>5. Sm!Cardinality(A) <= Sm!Cardinality(B)
   BY <1>3, <1>4, FS_Injection, SameCardinalitySm
 <1>6. QED
   BY <1>5 DEF A, B

LEMMA FirstPendingIs ==
  ASSUME NEW T, NEW ws \in Seq(T)
  PROVE  /\ Sm!FirstPending(ws) \in 1..Len(ws) + 1
         /\ \A j \in 1..Sm!FirstPending(ws) - 1 : ~Sm!Pending(ws[j])
         /\ Sm!FirstPending(ws) <= Len(ws) => Sm!Pending(ws[Sm!FirstPending(ws)])
 <1> DEFINE P(i) == /\ \A j \in 1..i - 1 : ~Sm!Pending(ws[j])
                    /\ i <= Len(ws) => Sm!Pending(ws[i])
            Ends == {i \in 1..Len(ws) + 1 : i <= Len(ws) => Sm!Pending(ws[i])}
 <1>1. Len(ws) \in Nat
   OBVIOUS
 <1>2. Ends \in SUBSET Nat /\ Len(ws) + 1 \in Ends
   BY <1>1
 <1>3. PICK m \in Ends : \A k \in Ends : m <= k
   BY <1>2, LeastNatural
 <1>4. ASSUME NEW j \in 1..m - 1 PROVE ~Sm!Pending(ws[j])
  <2>1. j \in 1..Len(ws) + 1 /\ j <= Len(ws) /\ ~(m <= j)
    BY <1>1, <1>2, <1>3
  <2>2. j \notin Ends
    BY <1>3, <2>1
  <2>3. QED
    BY <2>1, <2>2
 <1>5. \E i \in 1..Len(ws) + 1 : P(i)
   BY <1>3, <1>4
 <1>6. Sm!FirstPending(ws) = CHOOSE i \in 1..Len(ws) + 1 : P(i)
   BY DEF Sm!FirstPending
 <1>7. Sm!FirstPending(ws) \in 1..Len(ws) + 1 /\ P(Sm!FirstPending(ws))
   BY <1>5, <1>6
 <1>8. QED
   BY <1>7

-----------------------------------------------------------------------------
(* Steps *)

(* A step that wakes nobody.                                               *)
LEMMA NobodyWakes ==
  ASSUME Sm!SemaphoresAssumption, SemaphoreInv, UNCHANGED <<initial, bounded, value, extra>>,
         callSm' \in [Acquire -> AcquireStates], armedSm' \subseteq Acquire,
         waitersSm' \in Seq(Acquire), Apart(waitersSm'),
         \A i \in DOMAIN waitersSm' : callSm'[waitersSm'[i]] # "none",
         timeoutsSm' \in 0..GCAfterSm, Sm!Cardinality(TimedOut(waitersSm', callSm')) <= timeoutsSm',
         \A a \in Acquire : callSm'[a] = "held" <=> callSm[a] = "held",
         \A a \in Acquire : callSm'[a] = "pending" =>
           value = 0 /\ \E i \in DOMAIN waitersSm' : waitersSm'[i] = a
  PROVE  SemaphoreInv'
 <1>1. Sm!Holders' = Sm!Holders
   BY DEF Sm!Holders
 <1>2. Sm!TypeOK /\ Sm!PermitsConserved /\ IsFiniteSet(Sm!Holders)
   BY DEF SemaphoreInv
 <1>3. Sm!TypeOK'
   BY <1>2 DEF Sm!TypeOK, AcquireStates
 <1>4. Sm!PermitsConserved'
   BY <1>1, <1>2 DEF Sm!PermitsConserved, Sm!Pending
 <1>5. Sm!WaitersSwept'
   BY DEF Sm!WaitersSwept, Sm!Pending, TimedOut
 <1>6. QED
   BY <1>1, <1>2, <1>3, <1>4, <1>5 DEF SemaphoreInv

LEMMA AcquireNowKeeps ==
  ASSUME Sm!SemaphoresAssumption, SemaphoreInv, NEW a \in Acquire, Sm!AcquireNow(a)
  PROVE  SemaphoreInv'
 <1>1. /\ callSm[a] = "none" /\ value > 0 /\ value' = value - 1
       /\ callSm' = [callSm EXCEPT ![a] = "held"]
       /\ UNCHANGED <<initial, bounded, waitersSm, timeoutsSm, armedSm, extra>>
   BY DEF Sm!AcquireNow
 <1>2. /\ initial \in Nat /\ value \in Nat /\ extra \in Nat /\ waitersSm \in Seq(Acquire)
       /\ callSm \in [Acquire -> AcquireStates]
       /\ value + Sm!Cardinality(Sm!Holders) = initial + extra /\ (bounded => value <= initial)
       /\ \A b \in Acquire : callSm[b] = "pending" => value = 0
       /\ IsFiniteSet(Sm!Holders) /\ Sm!Cardinality(Sm!Holders) \in Nat
       /\ \A i \in DOMAIN waitersSm : waitersSm[i] \in Acquire /\ callSm[waitersSm[i]] # "none"
       /\ Apart(waitersSm)
   BY SemaphoreParts
 <1>3. callSm' \in [Acquire -> AcquireStates] /\ \A b \in Acquire : b # a => callSm'[b] = callSm[b]
   BY <1>1, <1>2 DEF AcquireStates
 <1>4. Sm!Holders' = Sm!Holders \cup {a} /\ a \notin Sm!Holders
   BY <1>1, <1>2, <1>3 DEF Sm!Holders
 <1>5. IsFiniteSet(Sm!Holders') /\ Sm!Cardinality(Sm!Holders') = Sm!Cardinality(Sm!Holders) + 1
   BY <1>2, <1>4, FS_AddElement, SameCardinalitySm
 <1>6. Sm!TypeOK'
  <2>1. Sm!TypeOK /\ value' \in Nat
    BY <1>1, <1>2 DEF SemaphoreInv
  <2>2. QED
    BY <1>1, <1>3, <2>1 DEF Sm!TypeOK, AcquireStates
 <1>7. Sm!PermitsConserved'
  <2>1. value' + Sm!Cardinality(Sm!Holders') = initial' + extra'
    BY <1>1, <1>2, <1>5
  <2>2. bounded' => value' <= initial'
    BY <1>1, <1>2
  <2>3. \A b \in Acquire : callSm'[b] # "pending"
    BY <1>1, <1>2, <1>3
  <2>4. QED
    BY <2>1, <2>2, <2>3 DEF Sm!PermitsConserved, Sm!Pending
 <1>8. \A i \in DOMAIN waitersSm : waitersSm[i] # a
   BY <1>1, <1>2
 <1>9. Sm!WaitersSwept'
  <2>1. Sm!WaitersSwept /\ \A b \in Acquire : callSm'[b] # "pending"
    BY <1>1, <1>2, <1>3 DEF SemaphoreInv
  <2>2. TimedOut(waitersSm, callSm)' = TimedOut(waitersSm, callSm)
    BY <1>1, <1>2, <1>3, <1>8 DEF TimedOut
  <2>3. QED
    BY <1>1, <2>1, <2>2 DEF Sm!WaitersSwept, TimedOut, Sm!Pending
 <1>10. Apart(waitersSm)' /\ \A i \in DOMAIN waitersSm' : callSm'[waitersSm'[i]] # "none"
   BY <1>1, <1>2, <1>3, <1>8 DEF Apart
 <1>11. QED
   BY <1>5, <1>6, <1>7, <1>9, <1>10 DEF SemaphoreInv

LEMMA AcquireWaitsKeeps ==
  ASSUME Sm!SemaphoresAssumption, SemaphoreInv, NEW a \in Acquire, Sm!AcquireWaits(a)
  PROVE  SemaphoreInv'
 <1>1. /\ callSm[a] = "none" /\ value = 0 /\ waitersSm' = Append(waitersSm, a)
       /\ callSm' = [callSm EXCEPT ![a] = "pending"] /\ armedSm' \in {armedSm, armedSm \cup {a}}
       /\ UNCHANGED <<initial, bounded, value, timeoutsSm, extra>>
   BY DEF Sm!AcquireWaits
 <1>2. /\ waitersSm \in Seq(Acquire) /\ Len(waitersSm) \in Nat /\ DOMAIN waitersSm = 1..Len(waitersSm)
       /\ callSm \in [Acquire -> AcquireStates] /\ armedSm \subseteq Acquire /\ timeoutsSm \in 0..GCAfterSm
       /\ \A b \in Acquire : callSm[b] = "pending" => \E i \in DOMAIN waitersSm : waitersSm[i] = b
       /\ \A i \in DOMAIN waitersSm : waitersSm[i] \in Acquire /\ callSm[waitersSm[i]] # "none"
       /\ Apart(waitersSm) /\ Sm!Cardinality(TimedOut(waitersSm, callSm)) <= timeoutsSm
   BY SemaphoreParts
 <1>3. /\ callSm' \in [Acquire -> AcquireStates] /\ armedSm' \subseteq Acquire
       /\ \A b \in Acquire : b # a => callSm'[b] = callSm[b]
       /\ callSm'[a] = "pending"
   BY <1>1, <1>2 DEF AcquireStates
 <1>4. /\ waitersSm' \in Seq(Acquire) /\ DOMAIN waitersSm' = 1..Len(waitersSm) + 1
       /\ waitersSm'[Len(waitersSm) + 1] = a /\ \A i \in 1..Len(waitersSm) : waitersSm'[i] = waitersSm[i]
   BY <1>1, <1>2
 <1>5. /\ Len(waitersSm) + 1 \in DOMAIN waitersSm'
       /\ \A i \in DOMAIN waitersSm' : \/ i = Len(waitersSm) + 1 /\ waitersSm'[i] = a
                                       \/ i \in DOMAIN waitersSm /\ waitersSm'[i] = waitersSm[i]
       /\ \A i \in DOMAIN waitersSm : i \in DOMAIN waitersSm' /\ waitersSm'[i] = waitersSm[i] /\ waitersSm[i] # a
   BY <1>1, <1>2, <1>4
 <1>6. Apart(waitersSm')
   BY <1>2, <1>5 DEF Apart
 <1>7. \A i \in DOMAIN waitersSm' : callSm'[waitersSm'[i]] # "none"
   BY <1>2, <1>3, <1>5
 <1>8. TimedOut(waitersSm', callSm') = TimedOut(waitersSm, callSm)
   BY <1>2, <1>3, <1>5 DEF TimedOut
 <1>9. \A b \in Acquire : callSm'[b] = "pending" =>
          value = 0 /\ \E i \in DOMAIN waitersSm' : waitersSm'[i] = b
   BY <1>1, <1>2, <1>3, <1>4, <1>5
 <1>10. \A b \in Acquire : callSm'[b] = "held" <=> callSm[b] = "held"
   BY <1>1, <1>3
 <1>11. QED
   BY <1>1, <1>2, <1>3, <1>4, <1>6, <1>7, <1>8, <1>9, <1>10, NobodyWakes

LEMMA DisarmKeeps ==
  ASSUME Sm!SemaphoresAssumption, SemaphoreInv, NEW a \in Acquire, Sm!Disarm(a) \/ Sm!Cancel(a)
  PROVE  SemaphoreInv'
 <1>1. /\ callSm \in [Acquire -> AcquireStates] /\ armedSm \subseteq Acquire /\ timeoutsSm \in 0..GCAfterSm
       /\ waitersSm \in Seq(Acquire) /\ Len(waitersSm) \in Nat /\ DOMAIN waitersSm = 1..Len(waitersSm)
       /\ \A b \in Acquire : callSm[b] = "pending" =>
            value = 0 /\ \E i \in DOMAIN waitersSm : waitersSm[i] = b
       /\ \A i \in DOMAIN waitersSm : waitersSm[i] \in Acquire /\ callSm[waitersSm[i]] # "none"
       /\ Apart(waitersSm) /\ Sm!Cardinality(TimedOut(waitersSm, callSm)) <= timeoutsSm
   BY SemaphoreParts
 <1>2. /\ UNCHANGED <<initial, bounded, value, extra, waitersSm, timeoutsSm>>
       /\ armedSm' \subseteq Acquire /\ callSm' \in [Acquire -> AcquireStates]
       /\ \A b \in Acquire : callSm'[b] = callSm[b] \/ (callSm[b] = "pending" /\ callSm'[b] = "cancelled")
   BY <1>1 DEF Sm!Disarm, Sm!Cancel, Sm!Pending, AcquireStates
 <1>3. TimedOut(waitersSm', callSm') = TimedOut(waitersSm, callSm)
   BY <1>1, <1>2 DEF TimedOut
 <1>4. /\ \A i \in DOMAIN waitersSm' : callSm'[waitersSm'[i]] # "none"
       /\ \A b \in Acquire : callSm'[b] = "held" <=> callSm[b] = "held"
       /\ \A b \in Acquire : callSm'[b] = "pending" =>
            value = 0 /\ \E i \in DOMAIN waitersSm' : waitersSm'[i] = b
   BY <1>1, <1>2
 <1>5. waitersSm' = waitersSm /\ timeoutsSm' = timeoutsSm
   BY <1>2
 <1>6. QED
   BY <1>1, <1>2, <1>3, <1>4, <1>5, NobodyWakes

LEMMA AcquireTimeoutKeeps ==
  ASSUME Sm!SemaphoresAssumption, SemaphoreInv, NEW a \in Acquire, Sm!Timeout(a)
  PROVE  SemaphoreInv'
 <1>1. /\ callSm' = [callSm EXCEPT ![a] = IF callSm[a] = "pending" THEN "timeout" ELSE callSm[a]]
       /\ Sm!GarbageCollect(callSm') /\ armedSm' = armedSm \ {a}
       /\ UNCHANGED <<initial, bounded, value, extra>>
   BY DEF Sm!Timeout
 <1>2. /\ callSm \in [Acquire -> AcquireStates] /\ armedSm \subseteq Acquire /\ timeoutsSm \in 0..GCAfterSm
       /\ waitersSm \in Seq(Acquire) /\ Len(waitersSm) \in Nat /\ DOMAIN waitersSm = 1..Len(waitersSm)
       /\ \A b \in Acquire : callSm[b] = "pending" =>
            value = 0 /\ \E i \in DOMAIN waitersSm : waitersSm[i] = b
       /\ \A i \in DOMAIN waitersSm : waitersSm[i] \in Acquire /\ callSm[waitersSm[i]] # "none"
       /\ Apart(waitersSm) /\ Sm!Cardinality(TimedOut(waitersSm, callSm)) <= timeoutsSm
       /\ IsFiniteSet(TimedOut(waitersSm, callSm)) /\ Sm!Cardinality(TimedOut(waitersSm, callSm)) \in Nat
   BY SemaphoreParts
 <1>3. /\ armedSm' \subseteq Acquire /\ callSm' \in [Acquire -> AcquireStates]
       /\ \A b \in Acquire : \/ callSm'[b] = callSm[b]
                             \/ b = a /\ callSm[b] = "pending" /\ callSm'[b] = "timeout"
   BY <1>1, <1>2 DEF AcquireStates
 <1>4. /\ \A b \in Acquire : callSm'[b] = "held" <=> callSm[b] = "held"
       /\ \A b \in Acquire : callSm'[b] = "pending" => callSm[b] = "pending"
       /\ \A b \in Acquire : callSm[b] # "none" => callSm'[b] # "none"
   BY <1>3
 <1>5. CASE timeoutsSm + 1 > GCAfterSm
  <2> DEFINE S == {b \in Acquire : callSm'[b] = "pending"}
             us == Selected(waitersSm, S)
  <2>1. timeoutsSm' = 0 /\ waitersSm' = us
    BY <1>1, <1>5, KeptWaiters DEF Sm!GarbageCollect
  <2>2. us \in Seq(Acquire)
    BY <1>2, SelectedHas
  <2>3. Apart(us)
    BY <1>2, SelectedApart DEF Apart
  <2>4. /\ \A i \in DOMAIN waitersSm : waitersSm[i] \in S => \E k \in DOMAIN us : us[k] = waitersSm[i]
        /\ \A k \in DOMAIN us : \E i \in DOMAIN waitersSm : waitersSm[i] \in S /\ us[k] = waitersSm[i]
    BY <1>2, SelectedMembers
  <2> HIDE DEF us
  <2>5. \A k \in DOMAIN us : callSm'[us[k]] = "pending"
    BY <2>4
  <2>6. TimedOut(waitersSm', callSm') = {}
    BY <2>1, <2>5 DEF TimedOut
  <2>7. Sm!Cardinality(TimedOut(waitersSm', callSm')) <= timeoutsSm' /\ timeoutsSm' \in 0..GCAfterSm
    BY <2>1, <2>6, FS_EmptySet, SameCardinalitySm DEF Sm!SemaphoresAssumption
  <2>8. \A b \in Acquire : callSm'[b] = "pending" =>
          value = 0 /\ \E i \in DOMAIN waitersSm' : waitersSm'[i] = b
    BY <1>2, <1>4, <2>1, <2>4
  <2>9. waitersSm' \in Seq(Acquire) /\ Apart(waitersSm') /\ \A i \in DOMAIN waitersSm' : callSm'[waitersSm'[i]] # "none"
    BY <2>1, <2>2, <2>3, <2>5
  <2>10. QED
    BY <1>1, <1>3, <1>4, <2>7, <2>8, <2>9, NobodyWakes
 <1>6. CASE ~(timeoutsSm + 1 > GCAfterSm)
  <2>1. timeoutsSm' = timeoutsSm + 1 /\ waitersSm' = waitersSm
    BY <1>1, <1>6 DEF Sm!GarbageCollect
  <2> DEFINE A == TimedOut(waitersSm, callSm)
  <2>2. Sm!Cardinality(TimedOut(waitersSm, callSm')) <= Sm!Cardinality(A) + 1
   <3>1. CASE \E n \in DOMAIN waitersSm : waitersSm[n] = a
    <4>1. PICK n \in DOMAIN waitersSm : waitersSm[n] = a
      BY <3>1
    <4>2. TimedOut(waitersSm, callSm') \in SUBSET (A \cup {n})
     <5>1. SUFFICES ASSUME NEW i \in DOMAIN waitersSm, callSm'[waitersSm[i]] = "timeout", i # n
                    PROVE  callSm[waitersSm[i]] = "timeout"
       BY DEF TimedOut
     <5>2. waitersSm[i] # a /\ waitersSm[i] \in Acquire
       BY <1>2, <4>1, <5>1 DEF Apart
     <5>3. QED
       BY <1>3, <5>1, <5>2
    <4> HIDE DEF A
    <4>3. IsFiniteSet(A \cup {n}) /\ Sm!Cardinality(A \cup {n}) <= Sm!Cardinality(A) + 1
          /\ Sm!Cardinality(A \cup {n}) \in Nat
     <5>1. IsFiniteSet(A) /\ Sm!Cardinality(A) \in Nat
       BY <1>2 DEF A
     <5>2. /\ IsFiniteSet(A \cup {n})
           /\ Sm!Cardinality(A \cup {n}) = IF n \in A THEN Sm!Cardinality(A) ELSE Sm!Cardinality(A) + 1
       BY <5>1, FS_AddElement, SameCardinalitySm
     <5>3. QED
       BY <5>1, <5>2
    <4>4. /\ Sm!Cardinality(TimedOut(waitersSm, callSm')) <= Sm!Cardinality(A \cup {n})
          /\ Sm!Cardinality(TimedOut(waitersSm, callSm')) \in Nat
      BY <4>2, <4>3, FS_Subset, SameCardinalitySm, FS_CardinalityType
    <4>5. Sm!Cardinality(A) \in Nat
      BY <1>2 DEF A
    <4>6. QED
      BY <4>3, <4>4, <4>5
   <3>2. CASE ~\E n \in DOMAIN waitersSm : waitersSm[n] = a
    <4>1. TimedOut(waitersSm, callSm') = A
      BY <1>2, <1>3, <3>2 DEF TimedOut
    <4>2. QED
      BY <1>2, <4>1
   <3>3. QED
     BY <3>1, <3>2
  <2>3. Sm!Cardinality(TimedOut(waitersSm', callSm')) <= timeoutsSm' /\ timeoutsSm' \in 0..GCAfterSm
   <3>1. IsFiniteSet(TimedOut(waitersSm, callSm')) /\ Sm!Cardinality(TimedOut(waitersSm, callSm')) \in Nat
    <4>1. TimedOut(waitersSm, callSm') \in SUBSET (1..Len(waitersSm)) /\ IsFiniteSet(1..Len(waitersSm))
      BY <1>2, FS_Interval, SameCardinalitySm DEF TimedOut
    <4>2. QED
      BY <4>1, FS_Subset, SameCardinalitySm, FS_CardinalityType
   <3>2. Sm!Cardinality(A) \in Nat /\ Sm!Cardinality(A) <= timeoutsSm
     BY <1>2
   <3> HIDE DEF A
   <3>3. QED
     BY <1>2, <1>6, <2>1, <2>2, <3>1, <3>2 DEF Sm!SemaphoresAssumption
  <2>4. /\ waitersSm' \in Seq(Acquire) /\ Apart(waitersSm')
        /\ \A i \in DOMAIN waitersSm' : callSm'[waitersSm'[i]] # "none"
        /\ \A b \in Acquire : callSm'[b] = "pending" =>
             value = 0 /\ \E i \in DOMAIN waitersSm' : waitersSm'[i] = b
    BY <1>2, <1>4, <2>1
  <2>5. QED
    BY <1>1, <1>3, <1>4, <2>3, <2>4, NobodyWakes
 <1>7. QED
   BY <1>5, <1>6

(* A permit comes back: the first of those who wait gets it, or it is free.*)
LEMMA WakeKeeps ==
  ASSUME Sm!SemaphoresAssumption, SemaphoreInv, Sm!MayRelease, NEW over, Sm!WakeOne(over),
         \/ extra' = extra /\ \E a \in Acquire : callSm[a] = "held" /\ over = {a}
         \/ extra' = extra + 1 /\ extra < MaxExtra /\ over = {}
  PROVE  SemaphoreInv' /\ Sm!LongestWaitingFirst
 <1> DEFINE i == Sm!FirstPending(waitersSm)
            w == waitersSm[i]
 <1>1. /\ waitersSm' = SubSeq(waitersSm, i + 1, Len(waitersSm))
       /\ IF i <= Len(waitersSm)
          THEN /\ value' = value
               /\ callSm' = [a \in Acquire |-> IF a = w /\ Sm!Pending(a) THEN "held"
                                             ELSE IF a \in over THEN "released" ELSE callSm[a]]
          ELSE /\ value' = value + 1
               /\ callSm' = [a \in Acquire |-> IF a \in over THEN "released" ELSE callSm[a]]
       /\ UNCHANGED <<initial, bounded, timeoutsSm, armedSm>>
   BY DEF Sm!WakeOne
 <1>2. /\ initial \in 0..MaxInitial /\ bounded \in BOOLEAN /\ initial \in Nat
       /\ value \in Nat /\ timeoutsSm \in 0..GCAfterSm /\ extra \in 0..MaxExtra /\ extra \in Nat
       /\ waitersSm \in Seq(Acquire) /\ Len(waitersSm) \in Nat /\ DOMAIN waitersSm = 1..Len(waitersSm)
       /\ callSm \in [Acquire -> AcquireStates] /\ armedSm \subseteq Acquire
       /\ value + Sm!Cardinality(Sm!Holders) = initial + extra
       /\ (bounded => value <= initial)
       /\ \A a \in Acquire : callSm[a] = "pending" =>
            value = 0 /\ \E j \in DOMAIN waitersSm : waitersSm[j] = a
       /\ Sm!Cardinality(TimedOut(waitersSm, callSm)) <= timeoutsSm
       /\ Sm!Cardinality(TimedOut(waitersSm, callSm)) \in Nat
       /\ IsFiniteSet(Sm!Holders) /\ Sm!Cardinality(Sm!Holders) \in Nat
       /\ Apart(waitersSm)
       /\ \A j \in DOMAIN waitersSm : waitersSm[j] \in Acquire /\ callSm[waitersSm[j]] # "none"
   BY SemaphoreParts
 <1>3. /\ i \in 1..Len(waitersSm) + 1 /\ \A j \in 1..i - 1 : callSm[waitersSm[j]] # "pending"
       /\ i <= Len(waitersSm) => callSm[w] = "pending"
   BY <1>2, FirstPendingIs DEF Sm!Pending
 <1>4. i <= Len(waitersSm) => i \in DOMAIN waitersSm /\ w \in Acquire
   BY <1>2, <1>3
 <1> HIDE DEF i
 <1>5. /\ over \subseteq Acquire /\ \A a \in over : callSm[a] = "held"
   OBVIOUS
 <1>6. /\ callSm' \in [Acquire -> AcquireStates]
       /\ \A a \in Acquire :
            /\ i <= Len(waitersSm) /\ a = w => callSm'[a] = "held"
            /\ a \in over => callSm'[a] = "released"
            /\ a \notin over /\ ~(i <= Len(waitersSm) /\ a = w) => callSm'[a] = callSm[a]
  <2>1. CASE i <= Len(waitersSm)
    BY <1>1, <1>2, <1>3, <1>5, <2>1 DEF AcquireStates, Sm!Pending
  <2>2. CASE ~(i <= Len(waitersSm))
    BY <1>1, <1>2, <1>5, <2>2 DEF AcquireStates
  <2>3. QED
    BY <2>1, <2>2
 <1> HIDE DEF w
 <1>7. extra' \in 0..MaxExtra /\ extra' \in Nat
   BY <1>2 DEF Sm!SemaphoresAssumption
 <1> DEFINE B == Sm!Holders \ over
 <1>8. IsFiniteSet(B) /\ Sm!Cardinality(B) \in Nat /\ Sm!Cardinality(B) + 1 + extra = Sm!Cardinality(Sm!Holders) + extra'
  <2>1. CASE extra' = extra /\ \E a \in Acquire : callSm[a] = "held" /\ over = {a}
   <3>1. PICK a \in Acquire : callSm[a] = "held" /\ over = {a}
     BY <2>1
   <3>2. a \in Sm!Holders /\ B = Sm!Holders \ {a}
     BY <3>1 DEF Sm!Holders
   <3>3. IsFiniteSet(Sm!Holders \ {a}) /\ Sm!Cardinality(Sm!Holders \ {a}) = Sm!Cardinality(Sm!Holders) - 1
     BY <1>2, <3>2, FS_RemoveElement, SameCardinalitySm
   <3>4. Sm!Cardinality(Sm!Holders \ {a}) \in Nat
     BY <3>3, FS_CardinalityType, SameCardinalitySm
   <3> HIDE DEF B
   <3>5. QED
     BY <1>2, <2>1, <3>2, <3>3, <3>4
  <2>2. CASE extra' = extra + 1 /\ extra < MaxExtra /\ over = {}
   <3>1. B = Sm!Holders
     BY <2>2
   <3> HIDE DEF B
   <3>2. QED
     BY <1>2, <2>2, <3>1
  <2>3. QED
    BY <2>1, <2>2
 <1>9. Sm!Holders' = IF i <= Len(waitersSm) THEN B \cup {w} ELSE B
  <2>1. Sm!Holders' = {a \in Acquire : callSm'[a] = "held"}
    BY DEF Sm!Holders
  <2>2. B = {a \in Acquire : callSm[a] = "held" /\ a \notin over}
    BY DEF Sm!Holders
  <2> HIDE DEF B
  <2>3. CASE i <= Len(waitersSm)
   <3>1. \A a \in Acquire : callSm'[a] = "held" <=> (callSm[a] = "held" /\ a \notin over) \/ a = w
     BY <1>4, <1>6, <2>3
   <3>2. QED
     BY <1>4, <2>1, <2>2, <2>3, <3>1
  <2>4. CASE ~(i <= Len(waitersSm))
    BY <1>6, <2>1, <2>2, <2>4
  <2>5. QED
    BY <2>3, <2>4
 <1>10. i <= Len(waitersSm) => w \notin B
   BY <1>3, <1>4 DEF Sm!Holders
 <1> HIDE DEF B
 <1>11. /\ IsFiniteSet(Sm!Holders') /\ value' \in Nat
        /\ value' + Sm!Cardinality(Sm!Holders') = initial + extra'
        /\ (bounded => value' <= initial)
  <2>1. CASE i <= Len(waitersSm)
   <3>1. IsFiniteSet(B \cup {w}) /\ Sm!Cardinality(B \cup {w}) = Sm!Cardinality(B) + 1
     BY <1>8, <1>10, <2>1, FS_AddElement, SameCardinalitySm
   <3>2. value' = value /\ Sm!Holders' = B \cup {w}
     BY <1>1, <1>9, <2>1
   <3>3. value + (Sm!Cardinality(B) + 1) = initial + extra'
    <4>1. /\ value \in Nat /\ initial \in Nat /\ extra \in Nat /\ extra' \in Nat
          /\ Sm!Cardinality(B) \in Nat /\ Sm!Cardinality(Sm!Holders) \in Nat
          /\ value + Sm!Cardinality(Sm!Holders) = initial + extra
          /\ Sm!Cardinality(B) + 1 + extra = Sm!Cardinality(Sm!Holders) + extra'
      BY <1>2, <1>7, <1>8
    <4>2. QED
      BY <4>1
   <3>4. value' + Sm!Cardinality(Sm!Holders') = initial + extra'
     BY <3>1, <3>2, <3>3
   <3>5. QED
     BY <1>2, <3>1, <3>2, <3>4
  <2>2. CASE ~(i <= Len(waitersSm))
   <3>1. value' = value + 1 /\ Sm!Holders' = B
     BY <1>1, <1>9, <2>2
   <3>2. bounded => value < initial
     BY DEF Sm!MayRelease
   <3>3. (value + 1) + Sm!Cardinality(B) = initial + extra'
    <4>1. /\ value \in Nat /\ initial \in Nat /\ extra \in Nat /\ extra' \in Nat
          /\ Sm!Cardinality(B) \in Nat /\ Sm!Cardinality(Sm!Holders) \in Nat
          /\ value + Sm!Cardinality(Sm!Holders) = initial + extra
          /\ Sm!Cardinality(B) + 1 + extra = Sm!Cardinality(Sm!Holders) + extra'
      BY <1>2, <1>7, <1>8
    <4>2. QED
      BY <4>1
   <3>4. value' + Sm!Cardinality(Sm!Holders') = initial + extra'
     BY <3>1, <3>3
   <3>5. IsFiniteSet(Sm!Holders') /\ value' \in Nat /\ (bounded => value' <= initial)
     BY <1>2, <1>8, <3>1, <3>2
   <3>6. QED
     BY <3>4, <3>5
  <2>3. QED
    BY <2>1, <2>2
 <1>12. \A a \in Acquire : /\ callSm'[a] = "pending" => callSm[a] = "pending"
                           /\ callSm'[a] = "timeout" => callSm[a] = "timeout"
                           /\ callSm[a] # "none" => callSm'[a] # "none"
   BY <1>3, <1>4, <1>6, <1>5
 <1>13. \E n \in 0..Len(waitersSm) :
          /\ waitersSm' \in Seq(Acquire) /\ Len(waitersSm') = Len(waitersSm) - n
          /\ DOMAIN waitersSm' = 1..Len(waitersSm) - n
          /\ \A j \in 1..Len(waitersSm) - n : waitersSm'[j] = waitersSm[j + n]
          /\ \A j \in 1..n : callSm'[waitersSm[j]] # "pending"
  <2>1. CASE i <= Len(waitersSm)
   <3>1. i \in 0..Len(waitersSm)
     BY <1>2, <1>3, <2>1
   <3>2. /\ waitersSm' \in Seq(Acquire) /\ Len(waitersSm') = Len(waitersSm) - i
         /\ DOMAIN waitersSm' = 1..Len(waitersSm) - i
         /\ \A j \in 1..Len(waitersSm) - i : waitersSm'[j] = waitersSm[j + i]
    <4>1. waitersSm' = SubSeq(waitersSm, i + 1, Len(waitersSm)) /\ waitersSm \in Seq(Acquire)
      BY <1>1, <1>2
    <4>2. QED
      BY <3>1, <4>1, FromPlace
   <3>3. ASSUME NEW j \in 1..i PROVE callSm'[waitersSm[j]] # "pending"
    <4>1. waitersSm[j] \in Acquire
     <5>1. j \in 1..Len(waitersSm)
       BY <1>2, <3>1
     <5>2. QED
       BY <1>2, <5>1
    <4>2. CASE j = i
      BY <1>4, <1>6, <2>1, <4>2 DEF w
    <4>3. CASE j # i
     <5>1. j \in 1..i - 1
       BY <4>3, <3>1
     <5>2. QED
       BY <1>3, <1>12, <4>1, <5>1
    <4>4. QED
      BY <4>2, <4>3
   <3>4. QED
     BY <3>1, <3>2, <3>3
  <2>2. CASE ~(i <= Len(waitersSm))
   <3>1. i = Len(waitersSm) + 1 /\ Len(waitersSm) < i + 1 /\ i + 1 \in Int
     BY <1>2, <1>3, <2>2
   <3>2. waitersSm' = <<>>
     BY <1>1, <1>2, <3>1, SubSeqEmpty
   <3>3. \A j \in 1..Len(waitersSm) : callSm'[waitersSm[j]] # "pending"
     BY <1>2, <1>3, <1>12, <3>1
   <3>4. /\ waitersSm' \in Seq(Acquire) /\ Len(waitersSm') = Len(waitersSm) - Len(waitersSm)
         /\ DOMAIN waitersSm' = 1..Len(waitersSm) - Len(waitersSm)
     BY <1>2, <3>2
   <3>5. Len(waitersSm) \in 0..Len(waitersSm) /\ 1..Len(waitersSm) - Len(waitersSm) = {}
     BY <1>2
   <3>6. QED
     BY <3>3, <3>4, <3>5
  <2>3. QED
    BY <2>1, <2>2
 <1>14. PICK n \in 0..Len(waitersSm) :
          /\ waitersSm' \in Seq(Acquire) /\ Len(waitersSm') = Len(waitersSm) - n
          /\ DOMAIN waitersSm' = 1..Len(waitersSm) - n
          /\ \A j \in 1..Len(waitersSm) - n : waitersSm'[j] = waitersSm[j + n]
          /\ \A j \in 1..n : callSm'[waitersSm[j]] # "pending"
   BY <1>13
 <1>15. Sm!TypeOK'
   BY <1>1, <1>2, <1>6, <1>7, <1>11, <1>14 DEF Sm!TypeOK, AcquireStates
 <1>16. Sm!PermitsConserved'
  <2>1. \A a \in Acquire : callSm'[a] = "pending" => value' = 0
   <3>1. SUFFICES ASSUME NEW a \in Acquire, callSm'[a] = "pending" PROVE value' = 0
     OBVIOUS
   <3>2. callSm[a] = "pending"
     BY <1>12, <3>1
   <3>3. PICK j \in DOMAIN waitersSm : waitersSm[j] = a
     BY <1>2, <3>2
   <3>4. i <= Len(waitersSm)
    <4>1. ~(j \in 1..i - 1)
      BY <1>3, <3>2, <3>3
    <4>2. QED
      BY <1>2, <1>3, <4>1
   <3>5. QED
     BY <1>1, <1>2, <3>2, <3>4
  <2>2. value' + Sm!Cardinality(Sm!Holders') = initial' + extra' /\ (bounded' => value' <= initial')
    BY <1>1, <1>11
  <2>3. QED
    BY <2>1, <2>2 DEF Sm!PermitsConserved, Sm!Pending
 <1>17. Sm!WaitersSwept'
  <2>1. ASSUME NEW a \in Acquire, callSm'[a] = "pending" PROVE \E j \in DOMAIN waitersSm' : waitersSm'[j] = a
   <3>1. PICK j \in DOMAIN waitersSm : waitersSm[j] = a
     BY <1>2, <1>12, <2>1
   <3>2. ~(j \in 1..n)
     BY <1>14, <2>1, <3>1
   <3>3. j - n \in 1..Len(waitersSm) - n /\ (j - n) + n = j
     BY <1>2, <3>2
   <3>4. QED
     BY <1>14, <3>1, <3>3
  <2>2. Sm!Cardinality(TimedOut(waitersSm', callSm')) <= Sm!Cardinality(TimedOut(waitersSm, callSm))
   <3>1. \A j \in 1..Len(waitersSm) : callSm'[waitersSm[j]] = "timeout" => callSm[waitersSm[j]] = "timeout"
     BY <1>2, <1>12
   <3>2. QED
     BY <1>2, <1>14, <3>1, FewerTimedOut
  <2>3. Sm!Cardinality(TimedOut(waitersSm', callSm')) <= timeoutsSm'
   <3>1. Sm!Cardinality(TimedOut(waitersSm', callSm')) \in Nat
    <4>1. TimedOut(waitersSm', callSm') \in SUBSET (1..Len(waitersSm) - n)
      BY <1>14 DEF TimedOut
    <4>2. IsFiniteSet(1..Len(waitersSm) - n)
      BY <1>2, FS_Interval, SameCardinalitySm
    <4>3. QED
      BY <4>1, <4>2, FS_Subset, SameCardinalitySm, FS_CardinalityType
   <3>2. timeoutsSm' = timeoutsSm
     BY <1>1
   <3>3. QED
     BY <1>2, <2>2, <3>1, <3>2
  <2>4. QED
    BY <2>1, <2>3 DEF Sm!WaitersSwept, Sm!Pending, TimedOut
 <1>18. Apart(waitersSm') /\ \A j \in DOMAIN waitersSm' : callSm'[waitersSm'[j]] # "none"
  <2>1. \A j \in DOMAIN waitersSm' : /\ j + n \in DOMAIN waitersSm /\ waitersSm'[j] = waitersSm[j + n]
                                     /\ j \in Int
    BY <1>2, <1>14, SMTT(30)
  <2>2. ASSUME NEW j \in DOMAIN waitersSm', NEW k \in DOMAIN waitersSm', waitersSm'[j] = waitersSm'[k]
        PROVE  j = k
   <3>1. j + n = k + n
     BY <1>2, <2>1, <2>2 DEF Apart
   <3>2. QED
     BY <2>1, <3>1
  <2>3. QED
    BY <1>2, <1>12, <2>1, <2>2 DEF Apart
 <1>19. SemaphoreInv'
   BY <1>11, <1>15, <1>16, <1>17, <1>18 DEF SemaphoreInv
 <1>20. Sm!LongestWaitingFirst
  <2>1. SUFFICES ASSUME NEW k \in DOMAIN waitersSm, NEW j \in DOMAIN waitersSm, k < j,
                        callSm[waitersSm[k]] = "pending", callSm[waitersSm[j]] = "pending",
                        callSm'[waitersSm[j]] = "held"
                 PROVE  FALSE
    BY DEF Sm!LongestWaitingFirst, Sm!Pending
  <2>2. waitersSm[j] \in Acquire /\ waitersSm[j] \notin over
    BY <1>2, <1>5, <2>1
  <2>3. i <= Len(waitersSm) /\ waitersSm[j] = w
    BY <1>6, <2>1, <2>2
  <2>4. j = i
    BY <1>2, <1>4, <2>3 DEF Apart, w
  <2>5. k \in 1..i - 1
    BY <1>2, <2>1, <2>4
  <2>6. QED
    BY <1>3, <2>1, <2>5
 <1>21. QED
   BY <1>19, <1>20

LEMMA SemaphoreStep ==
  Sm!SemaphoresAssumption /\ SemaphoreInv /\ [Sm!Next]_(Sm!vars) => SemaphoreInv' /\ [Sm!LongestWaitingFirst]_(Sm!vars)
 <1> SUFFICES ASSUME Sm!SemaphoresAssumption, SemaphoreInv, [Sm!Next]_(Sm!vars)
              PROVE  SemaphoreInv' /\ [Sm!LongestWaitingFirst]_(Sm!vars)
   OBVIOUS
 <1>1. waitersSm \in Seq(Acquire) /\ callSm \in [Acquire -> AcquireStates]
       /\ \A j \in DOMAIN waitersSm : waitersSm[j] \in Acquire
   BY SemaphoreParts
 <1>2. ASSUME \A a \in Acquire : callSm'[a] = "held" => callSm[a] \in {"none", "held"}
       PROVE  Sm!LongestWaitingFirst
   BY <1>1, <1>2 DEF Sm!LongestWaitingFirst, Sm!Pending
 <1>3. ASSUME NEW a \in Acquire, Sm!AcquireNow(a) PROVE SemaphoreInv' /\ Sm!LongestWaitingFirst
  <2>1. \A b \in Acquire : callSm'[b] = "held" => callSm[b] \in {"none", "held"}
    BY <1>1, <1>3 DEF Sm!AcquireNow
  <2>2. QED
    BY <1>2, <1>3, <2>1, AcquireNowKeeps
 <1>4. ASSUME NEW a \in Acquire, Sm!AcquireWaits(a) PROVE SemaphoreInv' /\ Sm!LongestWaitingFirst
  <2>1. \A b \in Acquire : callSm'[b] = "held" => callSm[b] \in {"none", "held"}
    BY <1>1, <1>4 DEF Sm!AcquireWaits
  <2>2. QED
    BY <1>2, <1>4, <2>1, AcquireWaitsKeeps
 <1>5. ASSUME NEW a \in Acquire, Sm!Release(a) PROVE SemaphoreInv' /\ Sm!LongestWaitingFirst
  <2>1. Sm!MayRelease /\ Sm!WakeOne({a}) /\ extra' = extra /\ callSm[a] = "held"
    BY <1>5 DEF Sm!Release
  <2>2. QED
    BY <2>1, WakeKeeps
 <1>6. ASSUME Sm!ReleaseExtra PROVE SemaphoreInv' /\ Sm!LongestWaitingFirst
  <2>1. Sm!MayRelease /\ Sm!WakeOne({}) /\ extra' = extra + 1 /\ extra < MaxExtra
    BY <1>6 DEF Sm!ReleaseExtra
  <2>2. QED
    BY <2>1, WakeKeeps
 <1>7. ASSUME NEW a \in Acquire, Sm!Timeout(a) PROVE SemaphoreInv' /\ Sm!LongestWaitingFirst
  <2>1. \A b \in Acquire : callSm'[b] = "held" => callSm[b] \in {"none", "held"}
    BY <1>1, <1>7 DEF Sm!Timeout
  <2>2. QED
    BY <1>2, <1>7, <2>1, AcquireTimeoutKeeps
 <1>8. ASSUME NEW a \in Acquire, Sm!Disarm(a) \/ Sm!Cancel(a) PROVE SemaphoreInv' /\ Sm!LongestWaitingFirst
  <2>1. \A b \in Acquire : callSm'[b] = "held" => callSm[b] \in {"none", "held"}
    BY <1>1, <1>8 DEF Sm!Disarm, Sm!Cancel
  <2>2. QED
    BY <1>2, <1>8, <2>1, DisarmKeeps
 <1>9. CASE UNCHANGED Sm!vars
   BY <1>9 DEF Sm!vars, SemaphoreInv, Sm!TypeOK, Sm!PermitsConserved, Sm!WaitersSwept,
      Sm!Holders, Sm!Pending, Apart
 <1>10. QED
   BY <1>3, <1>4, <1>5, <1>6, <1>7, <1>8, <1>9 DEF Sm!Next

LEMMA SemaphoreInit == Sm!SemaphoresAssumption /\ Sm!Init => SemaphoreInv
 <1> SUFFICES ASSUME Sm!SemaphoresAssumption, Sm!Init PROVE SemaphoreInv
   OBVIOUS
 <1>1. \A a \in Acquire : callSm[a] = "none"
   BY DEF Sm!Init
 <1>2. Sm!Holders = {} /\ Sm!Cardinality(Sm!Holders) = 0 /\ IsFiniteSet(Sm!Holders)
   BY <1>1, FS_EmptySet, SameCardinalitySm DEF Sm!Holders
 <1>3. DOMAIN waitersSm = {} /\ waitersSm \in Seq(Acquire)
   BY DEF Sm!Init
 <1>4. Sm!Cardinality({i \in DOMAIN waitersSm : callSm[waitersSm[i]] = "timeout"}) = 0
   BY <1>3, FS_EmptySet, SameCardinalitySm
 <1>5. Sm!TypeOK
   BY <1>3 DEF Sm!Init, Sm!TypeOK, Sm!SemaphoresAssumption
 <1>6. Sm!PermitsConserved /\ Sm!WaitersSwept
   BY <1>1, <1>2, <1>4 DEF Sm!Init, Sm!PermitsConserved, Sm!WaitersSwept, Sm!Pending,
      Sm!SemaphoresAssumption
 <1>7. QED
   BY <1>2, <1>3, <1>5, <1>6 DEF SemaphoreInv, Apart

(* No permit is lost or made, none is free while somebody waits, whoever   *)
(* waits is where a release finds it, and the sweeping of _garbage_collect *)
(* bounds the dead waiters; a permit goes to the one who waits longest.    *)
THEOREM PermitsAreKept ==
  Sm!SemaphoresAssumption => (Sm!Spec => [](Sm!PermitsConserved /\ Sm!WaitersSwept) /\ Sm!FirstComeFirstServed)
 <1> SUFFICES ASSUME Sm!SemaphoresAssumption
              PROVE  Sm!Spec => [](Sm!PermitsConserved /\ Sm!WaitersSwept) /\ Sm!FirstComeFirstServed
   OBVIOUS
 <1>1. Sm!Init => SemaphoreInv
   BY SemaphoreInit
 <1>2. SemaphoreInv /\ [Sm!Next]_(Sm!vars) => SemaphoreInv' /\ [Sm!LongestWaitingFirst]_(Sm!vars)
   BY SemaphoreStep
 <1>3. SemaphoreInv => Sm!PermitsConserved /\ Sm!WaitersSwept
   BY DEF SemaphoreInv
 <1>4. QED
   BY <1>1, <1>2, <1>3, PTL DEF Sm!Spec, Sm!FirstComeFirstServed

HIDE DEF initial, bounded, value, waitersSm, timeoutsSm, callSm, armedSm, extra

-----------------------------------------------------------------------------
(* A condition and who waits for it                                        *)

Cn == INSTANCE Conditions WITH
       GCAfter <- GCAfterCn, waiters <- v1, timeouts <- v2, call <- v3, armed <- v4,
       generation <- v5, set <- v6, ecall <- v7, watches <- v8, gone <- v9

(* Its variables. *)
waitersCn == v1
timeoutsCn == v2
callCn == v3
armedCn == v4
generation == v5
setCn == v6
ecall == v7
watches == v8
goneCn == v9

USE DEF waitersCn, timeoutsCn, callCn, armedCn, generation, setCn, ecall, watches, goneCn

LEMMA SameCardinalityCn == \A S : Cn!Cardinality(S) = Cardinality(S)
  BY DEF Cn!Cardinality, Cardinality

ConditionBounds == IsFiniteSet(Wait) /\ MaxClear \in Nat /\ GCAfterCn \in Nat

WaitStates == {"none", "pending", "notified", "timeout", "cancelled"}

(* Every wait that is not over stands in the deque, and no wait twice.     *)
ConditionInv ==
  /\ Cn!TypeOK /\ Cn!WaitersReachable
  /\ \A i, j \in DOMAIN waitersCn : waitersCn[i] = waitersCn[j] => i = j
  /\ \A i \in DOMAIN waitersCn : callCn[waitersCn[i]] # "none"

(* The part about the condition, and the one about the event.              *)
DequeInv ==
  /\ waitersCn \in Seq(Wait) /\ timeoutsCn \in 0..GCAfterCn
  /\ callCn \in [Wait -> WaitStates] /\ armedCn \subseteq Wait
  /\ \A w \in Wait : callCn[w] = "pending" => \E i \in DOMAIN waitersCn : waitersCn[i] = w
  /\ \A i, j \in DOMAIN waitersCn : waitersCn[i] = waitersCn[j] => i = j
  /\ \A i \in DOMAIN waitersCn : callCn[waitersCn[i]] # "none"

EventInv ==
  /\ generation \in 0..MaxClear /\ setCn \subseteq 0..MaxClear
  /\ goneCn \subseteq setCn
  /\ ecall \in [EventWait -> {"none", "shared", "timed", "resumed", "timeout", "cancelled", "lost"}]
  /\ watches \in [EventWait -> 0..MaxClear]
  /\ \A w \in EventWait :
       /\ ecall[w] \in {"shared", "timed"} => watches[w] \in setCn \cup {generation}
       /\ ecall[w] = "lost" => watches[w] \in goneCn

LEMMA ConditionParts == ConditionInv <=> DequeInv /\ EventInv
  BY DEF ConditionInv, DequeInv, EventInv, Cn!TypeOK, Cn!WaitersReachable, Cn!Pending, WaitStates

LEMMA KeptWaits == \A ws, S : Cn!Kept(ws, S) = Selected(ws, S)
  BY DEF Cn!Kept, Selected, Cn!Cardinality, Cardinality

LEMMA ConditionInit == ConditionBounds /\ Cn!Init => ConditionInv
 <1> SUFFICES ASSUME ConditionBounds, Cn!Init PROVE DequeInv /\ EventInv
   BY ConditionParts
 <1>1. DOMAIN waitersCn = {} /\ waitersCn \in Seq(Wait)
   BY DEF Cn!Init
 <1>2. DequeInv
   BY <1>1 DEF Cn!Init, DequeInv, WaitStates, ConditionBounds
 <1>3. EventInv
   BY DEF Cn!Init, EventInv, ConditionBounds
 <1>4. QED
   BY <1>2, <1>3

-----------------------------------------------------------------------------
(* The condition *)

LEMMA WaitKeeps == ASSUME ConditionBounds, DequeInv, NEW w \in Wait, Cn!CallWait(w) PROVE DequeInv'
 <1>1. /\ callCn[w] = "none" /\ callCn' = [callCn EXCEPT ![w] = "pending"]
       /\ waitersCn' = Append(waitersCn, w) /\ armedCn' \in {armedCn, armedCn \cup {w}}
       /\ timeoutsCn' = timeoutsCn
   BY DEF Cn!CallWait
 <1>2. /\ waitersCn \in Seq(Wait) /\ callCn \in [Wait -> WaitStates] /\ armedCn \subseteq Wait
       /\ Len(waitersCn) \in Nat /\ DOMAIN waitersCn = 1..Len(waitersCn) /\ timeoutsCn \in 0..GCAfterCn
       /\ \A i, j \in DOMAIN waitersCn : waitersCn[i] = waitersCn[j] => i = j
       /\ \A i \in DOMAIN waitersCn : callCn[waitersCn[i]] # "none" /\ waitersCn[i] \in Wait
       /\ \A v \in Wait : callCn[v] = "pending" => \E i \in DOMAIN waitersCn : waitersCn[i] = v
   BY DEF DequeInv
 <1>3. /\ waitersCn' \in Seq(Wait) /\ DOMAIN waitersCn' = 1..Len(waitersCn) + 1
       /\ waitersCn'[Len(waitersCn) + 1] = w /\ \A i \in 1..Len(waitersCn) : waitersCn'[i] = waitersCn[i]
   BY <1>1, <1>2
 <1>4. /\ Len(waitersCn) + 1 \in DOMAIN waitersCn'
       /\ \A i \in DOMAIN waitersCn' : \/ i = Len(waitersCn) + 1 /\ waitersCn'[i] = w
                                       \/ i \in DOMAIN waitersCn /\ waitersCn'[i] = waitersCn[i]
       /\ \A i \in DOMAIN waitersCn : i \in DOMAIN waitersCn' /\ waitersCn'[i] = waitersCn[i] /\ waitersCn[i] # w
   BY <1>1, <1>2, <1>3
 <1>5. /\ callCn' \in [Wait -> WaitStates] /\ armedCn' \subseteq Wait /\ callCn'[w] = "pending"
       /\ \A v \in Wait : v # w => callCn'[v] = callCn[v]
   BY <1>1, <1>2 DEF WaitStates
 <1>6. \A i, j \in DOMAIN waitersCn' : waitersCn'[i] = waitersCn'[j] => i = j
   BY <1>2, <1>4
 <1>7. \A i \in DOMAIN waitersCn' : callCn'[waitersCn'[i]] # "none"
   BY <1>2, <1>4, <1>5
 <1>8. \A v \in Wait : callCn'[v] = "pending" => \E i \in DOMAIN waitersCn' : waitersCn'[i] = v
   BY <1>2, <1>3, <1>4, <1>5
 <1>9. QED
   BY <1>1, <1>2, <1>3, <1>5, <1>6, <1>7, <1>8 DEF DequeInv

LEMMA WaitTimeoutKeeps == ASSUME ConditionBounds, DequeInv, NEW w \in Wait, Cn!Timeout(w) PROVE DequeInv'
 <1> DEFINE S == {v \in Wait : callCn'[v] = "pending"}
            us == Selected(waitersCn, S)
 <1>1. /\ callCn' = [callCn EXCEPT ![w] = IF callCn[w] = "pending" THEN "timeout" ELSE callCn[w]]
       /\ armedCn' = armedCn \ {w}
       /\ IF timeoutsCn + 1 > GCAfterCn
          THEN timeoutsCn' = 0 /\ waitersCn' = us
          ELSE timeoutsCn' = timeoutsCn + 1 /\ waitersCn' = waitersCn
   BY KeptWaits DEF Cn!Timeout
 <1>2. /\ waitersCn \in Seq(Wait) /\ callCn \in [Wait -> WaitStates] /\ armedCn \subseteq Wait
       /\ timeoutsCn \in 0..GCAfterCn
       /\ \A i, j \in DOMAIN waitersCn : waitersCn[i] = waitersCn[j] => i = j
       /\ \A i \in DOMAIN waitersCn : callCn[waitersCn[i]] # "none" /\ waitersCn[i] \in Wait
       /\ \A v \in Wait : callCn[v] = "pending" => \E i \in DOMAIN waitersCn : waitersCn[i] = v
   BY DEF DequeInv
 <1>3. /\ callCn' \in [Wait -> WaitStates] /\ armedCn' \subseteq Wait
       /\ \A v \in Wait : /\ callCn'[v] = "pending" => callCn[v] = "pending"
                          /\ callCn[v] # "none" => callCn'[v] # "none"
   BY <1>1, <1>2 DEF WaitStates
 <1>4. timeoutsCn' \in 0..GCAfterCn
   BY <1>1, <1>2 DEF ConditionBounds
 <1>5. us \in Seq(Wait) /\ \A i, j \in DOMAIN us : us[i] = us[j] => i = j
   BY <1>2, SelectedHas, SelectedApart
 <1>6. /\ \A i \in DOMAIN waitersCn : waitersCn[i] \in S => \E k \in DOMAIN us : us[k] = waitersCn[i]
       /\ \A k \in DOMAIN us : \E i \in DOMAIN waitersCn : waitersCn[i] \in S /\ us[k] = waitersCn[i]
   BY <1>2, SelectedMembers
 <1> HIDE DEF us
 <1>7. CASE timeoutsCn + 1 > GCAfterCn
  <2>1. waitersCn' = us
    BY <1>1, <1>7
  <2>2. \A v \in Wait : callCn'[v] = "pending" => \E i \in DOMAIN us : us[i] = v
    BY <1>2, <1>3, <1>6
  <2>3. \A k \in DOMAIN us : callCn'[us[k]] # "none"
    BY <1>6
  <2>4. QED
    BY <1>3, <1>4, <1>5, <2>1, <2>2, <2>3 DEF DequeInv
 <1>8. CASE ~(timeoutsCn + 1 > GCAfterCn)
   BY <1>1, <1>2, <1>3, <1>4, <1>8 DEF DequeInv
 <1>9. QED
   BY <1>7, <1>8

LEMMA CancelKeeps ==
  ASSUME ConditionBounds, DequeInv, NEW w \in Wait, Cn!Disarm(w) \/ Cn!Cancel(w) PROVE DequeInv'
  BY DEF DequeInv, Cn!Disarm, Cn!Cancel, Cn!Pending, WaitStates

(* The places up to one are live or not: one step further, one more.       *)
LEMMA LiveCount ==
  ASSUME waitersCn \in Seq(Wait)
  PROVE  /\ \A i \in 0..Len(waitersCn) :
              IsFiniteSet({j \in 1..i : Cn!Pending(waitersCn[j])}) /\ Cn!LiveUpTo(i) \in Nat
         /\ Cn!LiveUpTo(0) = 0
         /\ \A i \in 1..Len(waitersCn) : Cn!LiveUpTo(i) <= Cn!LiveUpTo(i - 1) + 1
 <1> DEFINE A(i) == {j \in 1..i : Cn!Pending(waitersCn[j])}
 <1>1. Len(waitersCn) \in Nat
   OBVIOUS
 <1>2. ASSUME NEW i \in 0..Len(waitersCn) PROVE IsFiniteSet(A(i)) /\ Cn!Cardinality(A(i)) \in Nat
  <2>1. A(i) \in SUBSET (1..i)
    OBVIOUS
  <2>2. IsFiniteSet(1..i)
    BY FS_Interval, SameCardinalityCn
  <2> HIDE DEF A
  <2>3. QED
    BY <2>1, <2>2, FS_Subset, SameCardinalityCn, FS_CardinalityType
 <1>3. Cn!Cardinality(A(0)) = 0
  <2>1. A(0) = {}
    OBVIOUS
  <2> HIDE DEF A
  <2>2. QED
    BY <2>1, FS_EmptySet, SameCardinalityCn
 <1>4. ASSUME NEW i \in 1..Len(waitersCn) PROVE Cn!Cardinality(A(i)) <= Cn!Cardinality(A(i - 1)) + 1
  <2>1. A(i) \in SUBSET (A(i - 1) \cup {i})
   <3>1. \A j \in A(i) : j = i \/ j \in A(i - 1)
     OBVIOUS
   <3>2. QED
     BY <3>1
  <2>2. i - 1 \in 0..Len(waitersCn) /\ i \in 0..Len(waitersCn)
    BY <1>1
  <2>3. IsFiniteSet(A(i - 1)) /\ Cn!Cardinality(A(i - 1)) \in Nat /\ Cn!Cardinality(A(i)) \in Nat
    BY <1>2, <2>2
  <2> HIDE DEF A
  <2>4. /\ IsFiniteSet(A(i - 1) \cup {i})
        /\ Cn!Cardinality(A(i - 1) \cup {i}) = IF i \in A(i - 1) THEN Cn!Cardinality(A(i - 1))
                                           ELSE Cn!Cardinality(A(i - 1)) + 1
    BY <2>3, FS_AddElement, SameCardinalityCn
  <2>5. Cn!Cardinality(A(i)) <= Cn!Cardinality(A(i - 1) \cup {i})
    BY <2>1, <2>4, FS_Subset, SameCardinalityCn
  <2>6. QED
    BY <2>3, <2>4, <2>5
 <1>5. \A i : Cn!LiveUpTo(i) = Cn!Cardinality(A(i))
   BY DEF Cn!LiveUpTo
 <1> HIDE DEF A
 <1>6. QED
   BY <1>2, <1>3, <1>4, <1>5 DEF A

LEMMA ReachIs ==
  ASSUME waitersCn \in Seq(Wait), NEW n \in Nat
  PROVE  /\ Cn!Reach(n) \in 0..Len(waitersCn) /\ Cn!LiveUpTo(Cn!Reach(n)) <= n
         /\ Cn!Reach(n) < Len(waitersCn) => Cn!LiveUpTo(Cn!Reach(n)) = n
 <1> DEFINE P(i) == /\ Cn!LiveUpTo(i) <= n
                    /\ i < Len(waitersCn) => Cn!LiveUpTo(i) = n
                    /\ i > 0 /\ Cn!LiveUpTo(i) = n => Cn!LiveUpTo(i - 1) < n
            Ends == {i \in 0..Len(waitersCn) : Cn!LiveUpTo(i) >= n \/ i = Len(waitersCn)}
 <1>1. Len(waitersCn) \in Nat
   OBVIOUS
 <1>2. Ends \in SUBSET Nat /\ Len(waitersCn) \in Ends
   BY <1>1
 <1>3. PICK m \in Ends : \A k \in Ends : m <= k
   BY <1>2, LeastNatural
 <1>4. m \in 0..Len(waitersCn) /\ Cn!LiveUpTo(m) \in Nat
   BY <1>2, <1>3, LiveCount
 <1>5. m > 0 => Cn!LiveUpTo(m - 1) < n /\ Cn!LiveUpTo(m - 1) \in Nat /\ Cn!LiveUpTo(m) <= Cn!LiveUpTo(m - 1) + 1
  <2>1. SUFFICES ASSUME m > 0
                 PROVE Cn!LiveUpTo(m - 1) < n /\ Cn!LiveUpTo(m - 1) \in Nat /\ Cn!LiveUpTo(m) <= Cn!LiveUpTo(m - 1) + 1
    OBVIOUS
  <2>2. m - 1 \in 0..Len(waitersCn) /\ m \in 1..Len(waitersCn) /\ ~(m <= m - 1) /\ m - 1 # Len(waitersCn)
    BY <1>1, <1>4, <2>1
  <2>3. m - 1 \notin Ends
    BY <1>3, <2>2
  <2>4. Cn!LiveUpTo(m - 1) \in Nat /\ Cn!LiveUpTo(m) <= Cn!LiveUpTo(m - 1) + 1
    BY <2>2, LiveCount
  <2>5. QED
    BY <2>2, <2>3, <2>4
 <1>6. Cn!LiveUpTo(m) <= n
   BY <1>4, <1>5, LiveCount
 <1>7. P(m)
   BY <1>3, <1>4, <1>5, <1>6
 <1>8. Cn!Reach(n) = CHOOSE i \in 0..Len(waitersCn) : P(i)
   BY DEF Cn!Reach
 <1>9. Cn!Reach(n) \in 0..Len(waitersCn) /\ P(Cn!Reach(n))
   BY <1>4, <1>7, <1>8
 <1>10. QED
   BY <1>9

(* Up to n waiters are woken, those that waited longest.                   *)
LEMMA NotifyKeeps ==
  ASSUME ConditionBounds, DequeInv, NEW n \in Nat, Cn!Notify(n)
  PROVE  /\ DequeInv'
         /\ LET woken == {w \in Wait : Cn!Pending(w) /\ callCn'[w] = "notified"}
                left == {w \in Wait : Cn!Pending(w) /\ callCn'[w] = "pending"}
            IN /\ Cn!Cardinality(woken) <= n
               /\ Cn!Cardinality(woken) = n \/ left = {}
               /\ \A i, j \in DOMAIN waitersCn :
                    waitersCn[i] \in left /\ waitersCn[j] \in woken => j < i
 <1> DEFINE r == Cn!Reach(n)
            woken == {w \in Wait : Cn!Pending(w) /\ callCn'[w] = "notified"}
            left == {w \in Wait : Cn!Pending(w) /\ callCn'[w] = "pending"}
            A == {j \in 1..r : Cn!Pending(waitersCn[j])}
 <1>1. /\ waitersCn' = SubSeq(waitersCn, r + 1, Len(waitersCn))
       /\ callCn' = [w \in Wait |-> IF Cn!Pending(w) /\ \E j \in 1..r : waitersCn[j] = w
                                  THEN "notified" ELSE callCn[w]]
       /\ timeoutsCn' = timeoutsCn /\ armedCn' = armedCn
   BY DEF Cn!Notify
 <1>2. /\ waitersCn \in Seq(Wait) /\ callCn \in [Wait -> WaitStates] /\ armedCn \subseteq Wait
       /\ Len(waitersCn) \in Nat /\ DOMAIN waitersCn = 1..Len(waitersCn) /\ timeoutsCn \in 0..GCAfterCn
       /\ \A i, j \in DOMAIN waitersCn : waitersCn[i] = waitersCn[j] => i = j
       /\ \A i \in DOMAIN waitersCn : callCn[waitersCn[i]] # "none" /\ waitersCn[i] \in Wait
       /\ \A v \in Wait : callCn[v] = "pending" => \E i \in DOMAIN waitersCn : waitersCn[i] = v
   BY DEF DequeInv
 <1>3. /\ r \in 0..Len(waitersCn) /\ Cn!LiveUpTo(r) <= n
       /\ r < Len(waitersCn) => Cn!LiveUpTo(r) = n
   BY <1>2, ReachIs
 <1>4. IsFiniteSet(A) /\ Cn!LiveUpTo(r) = Cn!Cardinality(A)
   BY <1>2, <1>3, LiveCount DEF Cn!LiveUpTo
 <1> HIDE DEF r
 <1>5. \A j \in 1..r : j \in DOMAIN waitersCn
   BY <1>2, <1>3
 <1>6. /\ callCn' \in [Wait -> WaitStates]
       /\ \A w \in Wait : /\ callCn'[w] = "pending" => callCn[w] = "pending"
                          /\ callCn[w] # "none" => callCn'[w] # "none"
                          /\ Cn!Pending(w) /\ callCn'[w] = "notified" => \E j \in 1..r : waitersCn[j] = w
                          /\ Cn!Pending(w) /\ (\E j \in 1..r : waitersCn[j] = w) => callCn'[w] = "notified"
   BY <1>1, <1>2 DEF WaitStates, Cn!Pending
 <1>7. /\ waitersCn' \in Seq(Wait) /\ DOMAIN waitersCn' = 1..Len(waitersCn) - r
       /\ \A j \in 1..Len(waitersCn) - r : waitersCn'[j] = waitersCn[j + r]
  <2>1. waitersCn' = SubSeq(waitersCn, r + 1, Len(waitersCn)) /\ waitersCn \in Seq(Wait)
    BY <1>1, <1>2
  <2>2. QED
    BY <1>3, <2>1, FromPlace
 <1>8. DequeInv'
  <2>1. \A j \in DOMAIN waitersCn' : j + r \in DOMAIN waitersCn /\ waitersCn'[j] = waitersCn[j + r] /\ j \in Int
    BY <1>2, <1>3, <1>7
  <2>2. ASSUME NEW j \in DOMAIN waitersCn', NEW k \in DOMAIN waitersCn', waitersCn'[j] = waitersCn'[k]
        PROVE  j = k
   <3>1. j + r = k + r
     BY <1>2, <2>1, <2>2
   <3>2. QED
     BY <1>3, <2>1, <3>1
  <2>3. \A j \in DOMAIN waitersCn' : callCn'[waitersCn'[j]] # "none"
    BY <1>2, <1>6, <2>1
  <2>4. ASSUME NEW w \in Wait, callCn'[w] = "pending" PROVE \E j \in DOMAIN waitersCn' : waitersCn'[j] = w
   <3>1. PICK j \in DOMAIN waitersCn : waitersCn[j] = w
     BY <1>2, <1>6, <2>4
   <3>2. ~(j \in 1..r)
     BY <1>6, <2>4, <3>1 DEF Cn!Pending
   <3>3. j - r \in 1..Len(waitersCn) - r /\ (j - r) + r = j
     BY <1>2, <1>3, <3>2
   <3>4. QED
     BY <1>7, <3>1, <3>3
  <2>5. QED
    BY <1>1, <1>2, <1>6, <1>7, <2>2, <2>3, <2>4 DEF DequeInv
 <1>9. Cn!Cardinality(woken) = Cn!LiveUpTo(r)
  <2> DEFINE f == [j \in A |-> waitersCn[j]]
  <2>1. \A j \in A : waitersCn[j] \in woken
    BY <1>2, <1>5, <1>6
  <2>2. \A w \in woken : \E j \in A : waitersCn[j] = w
    BY <1>6
  <2>3. \A i, j \in A : waitersCn[i] = waitersCn[j] => i = j
    BY <1>2, <1>5
  <2> HIDE DEF A, woken
  <2>4. f \in Injection(A, woken) /\ f \in Surjection(A, woken)
   <3>1. f \in [A -> woken]
     BY <2>1
   <3>2. \A w \in woken : \E j \in A : f[j] = w
     BY <2>2
   <3>3. f \in Injection(A, woken)
     BY <2>3, <3>1 DEF Injection, IsInjective
   <3>4. f \in Surjection(A, woken)
     BY <3>1, <3>2, Zenon DEF Surjection
   <3>5. QED
     BY <3>3, <3>4
  <2>5. ExistsBijection(A, woken)
    BY <2>4, Zenon DEF Bijection, ExistsBijection
  <2>6. Cn!Cardinality(woken) = Cn!Cardinality(A)
    BY <1>4, <2>5, FS_Bijection, SameCardinalityCn
  <2>7. QED
    BY <1>4, <2>6
 <1>10. Cn!Cardinality(woken) <= n /\ (Cn!Cardinality(woken) = n \/ left = {})
  <2>1. CASE r < Len(waitersCn)
    BY <1>3, <1>9, <2>1
  <2>2. CASE ~(r < Len(waitersCn))
   <3>1. r = Len(waitersCn)
    <4>1. r \in 0..Len(waitersCn) /\ Len(waitersCn) \in Nat
      BY <1>2, <1>3
    <4>2. QED
      BY <2>2, <4>1
   <3>2. left = {}
     BY <1>2, <1>6, <3>1 DEF Cn!Pending
   <3>3. QED
     BY <1>3, <1>9, <3>2
  <2>3. QED
    BY <2>1, <2>2
 <1>11. ASSUME NEW i \in DOMAIN waitersCn, NEW j \in DOMAIN waitersCn,
               waitersCn[i] \in left, waitersCn[j] \in woken
        PROVE  j < i
  <2>1. PICK k \in 1..r : waitersCn[k] = waitersCn[j]
    BY <1>6, <1>11
  <2>2. k = j
    BY <1>2, <1>5, <2>1
  <2>3. ~(i \in 1..r)
    BY <1>6, <1>11
  <2>4. QED
    BY <1>2, <1>3, <2>1, <2>2, <2>3
 <1>12. QED
   BY <1>8, <1>10, <1>11

-----------------------------------------------------------------------------
(* The event *)

LEMMA EventKeeps ==
  ASSUME ConditionBounds, EventInv,
         \/ Cn!Set \/ Cn!Clear
         \/ \E w \in EventWait : Cn!CallEventWait(w) \/ Cn!Resume(w) \/ Cn!EventTimeout(w) \/ Cn!EventCancel(w)
  PROVE  EventInv'
 <1>1. CASE Cn!Set
   BY <1>1 DEF EventInv, Cn!Set
 <1>2. CASE Cn!Clear
   BY <1>2 DEF EventInv, Cn!Clear, Cn!IsSet, ConditionBounds
 <1>3. CASE \E w \in EventWait : Cn!CallEventWait(w)
   BY <1>3 DEF EventInv, Cn!CallEventWait
 <1>4. CASE \E w \in EventWait : Cn!Resume(w) \/ Cn!EventTimeout(w)
   BY <1>4 DEF EventInv, Cn!Resume, Cn!EventTimeout
 <1>5. CASE \E w \in EventWait : Cn!EventCancel(w)
   BY <1>5 DEF EventInv, Cn!EventCancel
 <1>6. QED
   BY <1>1, <1>2, <1>3, <1>4, <1>5

LEMMA ConditionStep == ConditionBounds /\ ConditionInv /\ [Cn!Next]_(Cn!vars) => ConditionInv' /\ Cn!NotifyWakes
 <1> SUFFICES ASSUME ConditionBounds, DequeInv, EventInv, [Cn!Next]_(Cn!vars)
              PROVE  DequeInv' /\ EventInv' /\ Cn!NotifyWakes
  <2>1. DequeInv' /\ EventInv' => ConditionInv'
    BY DEF ConditionInv, DequeInv, EventInv, Cn!TypeOK, Cn!WaitersReachable, Cn!Pending,
       WaitStates
  <2>2. QED
    BY <2>1, ConditionParts
 <1>1. Cn!NotifyWakes
  <2>1. SUFFICES ASSUME NEW n \in 1..Cn!Cardinality(Wait), Cn!Notify(n) PROVE Cn!NotifyWakes!(n)
    BY DEF Cn!NotifyWakes
  <2>2. n \in Nat
    BY FS_CardinalityType, SameCardinalityCn DEF ConditionBounds
  <2>3. QED
    BY <2>1, <2>2, NotifyKeeps
 <1>2. ASSUME UNCHANGED Cn!condition PROVE DequeInv'
   BY <1>2 DEF Cn!condition, DequeInv
 <1>3. ASSUME UNCHANGED Cn!event PROVE EventInv'
   BY <1>3 DEF Cn!event, EventInv
 <1>4. ASSUME NEW w \in Wait, Cn!CallWait(w) \/ Cn!Timeout(w) \/ Cn!Disarm(w) \/ Cn!Cancel(w)
       PROVE  DequeInv' /\ EventInv'
  <2>1. UNCHANGED Cn!event
    BY <1>4 DEF Cn!CallWait, Cn!Timeout, Cn!Disarm, Cn!Cancel
  <2>2. QED
    BY <1>3, <1>4, <2>1, WaitKeeps, WaitTimeoutKeeps, CancelKeeps
 <1>5. ASSUME NEW n \in Nat, Cn!Notify(n) PROVE DequeInv' /\ EventInv'
  <2>1. UNCHANGED Cn!event
    BY <1>5 DEF Cn!Notify
  <2>2. QED
    BY <1>3, <1>5, <2>1, NotifyKeeps
 <1>6. ASSUME Cn!NotifyAll PROVE DequeInv' /\ EventInv'
  <2>1. Len(waitersCn) \in Nat
    BY DEF DequeInv
  <2>2. QED
    BY <1>5, <1>6, <2>1 DEF Cn!NotifyAll
 <1>7. ASSUME \/ Cn!Set \/ Cn!Clear
              \/ \E w \in EventWait : Cn!CallEventWait(w) \/ Cn!Resume(w) \/ Cn!EventTimeout(w) \/ Cn!EventCancel(w)
       PROVE  DequeInv' /\ EventInv'
  <2>1. UNCHANGED Cn!condition
    BY <1>7 DEF Cn!Set, Cn!Clear, Cn!CallEventWait, Cn!Resume, Cn!EventTimeout, Cn!EventCancel
  <2>2. QED
    BY <1>2, <1>7, <2>1, EventKeeps
 <1>8. ASSUME NEW n \in 1..Cn!Cardinality(Wait), Cn!Notify(n) PROVE DequeInv' /\ EventInv'
  <2>1. n \in Nat
    BY FS_CardinalityType, SameCardinalityCn DEF ConditionBounds
  <2>2. QED
    BY <1>5, <1>8, <2>1
 <1>9. ASSUME UNCHANGED Cn!vars PROVE DequeInv' /\ EventInv'
   BY <1>2, <1>3, <1>9 DEF Cn!vars, Cn!condition, Cn!event
 <1>10. ASSUME Cn!Next PROVE DequeInv' /\ EventInv'
   BY <1>4, <1>6, <1>7, <1>8, <1>10 DEF Cn!Next
 <1>11. QED
   BY <1>1, <1>9, <1>10

(* A wait that is not over can be reached by a notify or a set, and notify *)
(* wakes as many as it should, those that waited longest.                  *)
THEOREM WaitsAreReached == ConditionBounds => (Cn!Spec => []Cn!WaitersReachable /\ Cn!NotifyNotWasted)
 <1> SUFFICES ASSUME ConditionBounds PROVE Cn!Spec => []Cn!WaitersReachable /\ Cn!NotifyNotWasted
   OBVIOUS
 <1>1. Cn!Init => ConditionInv
   BY ConditionInit
 <1>2. ConditionInv /\ [Cn!Next]_(Cn!vars) => ConditionInv' /\ Cn!NotifyWakes
   BY ConditionStep
 <1>3. ConditionInv => Cn!WaitersReachable
   BY DEF ConditionInv
 <1>4. QED
   BY <1>1, <1>2, <1>3, PTL DEF Cn!Spec, Cn!NotifyNotWasted

HIDE DEF waitersCn, timeoutsCn, callCn, armedCn, generation, setCn, ecall, watches, goneCn

-----------------------------------------------------------------------------
(* Messages of a websocket                                                 *)

We == INSTANCE WebSockets WITH
       MaxFrames <- MaxFramesWe, pingers <- v1, foreign <- v2, w <- v3, connect <- v4,
       readqueue <- v5, reading <- v6, read <- v7

(* Its variables. *)
pingers == v1
foreign == v2
wWe == v3
connect == v4
readqueue == v5
reading == v6
read == v7

USE DEF pingers, foreign, wWe, connect, readqueue, reading, read

PingBounds ==
  \A P \in DOMAIN MaxFramesWe : MaxFramesWe[P] \in [We!Side -> Nat]

FrameTypes == {"message", "close", "ping", "pong", "first", "last", "big", "bad"}
Frames == [type : FrameTypes, n : Nat]

(* The messages among the first i frames.                                  *)
Messages(q, i) == {j \in 1..i : q[j].type = "message"}
Counted(q, i) == Cardinality(Messages(q, i))

(* Messages are numbered on from k, and a close has the number of the last *)
(* one before it.                                                          *)
Numbered(q, k) ==
  \A i \in 1..Len(q) : q[i].type \in {"message", "close"} => q[i].n = k + Counted(q, i)

LEMMA SameCardinalityWe == \A S : We!Cardinality(S) = Cardinality(S)
  BY DEF We!Cardinality, Cardinality

LEMMA CountedNat == ASSUME NEW q, NEW i \in Nat PROVE Counted(q, i) \in Nat /\ IsFiniteSet(Messages(q, i))
 <1>1. IsFiniteSet(1..i)
   BY FS_Interval
 <1>2. IsFiniteSet(Messages(q, i))
   BY <1>1, FS_Subset DEF Messages
 <1>3. QED
   BY <1>2, FS_CardinalityType DEF Counted

LEMMA CountedNone == ASSUME NEW q PROVE Counted(q, 0) = 0
 <1>1. Messages(q, 0) = {}
   BY DEF Messages
 <1>2. QED
   BY <1>1, FS_EmptySet DEF Counted

LEMMA CountedNext ==
  ASSUME NEW q, NEW i \in Nat
  PROVE  Counted(q, i + 1) = Counted(q, i) + (IF q[i + 1].type = "message" THEN 1 ELSE 0)
 <1>1. IsFiniteSet(Messages(q, i)) /\ Counted(q, i) \in Nat
   BY CountedNat
 <1>2. CASE q[i + 1].type = "message"
  <2>1. Messages(q, i + 1) = Messages(q, i) \cup {i + 1} /\ i + 1 \notin Messages(q, i)
    BY <1>2 DEF Messages
  <2>2. Cardinality(Messages(q, i) \cup {i + 1}) = Cardinality(Messages(q, i)) + 1
    BY <1>1, <2>1, FS_AddElement
  <2>3. QED
    BY <2>1, <2>2, <1>2 DEF Counted
 <1>3. CASE q[i + 1].type # "message"
  <2>1. Messages(q, i + 1) = Messages(q, i)
    BY <1>3 DEF Messages
  <2>2. QED
    BY <2>1, <1>1, <1>3 DEF Counted
 <1>4. QED
   BY <1>2, <1>3

LEMMA CountedSame ==
  ASSUME NEW q, NEW r, NEW i \in Nat, \A j \in 1..i : q[j].type = r[j].type
  PROVE  Counted(r, i) = Counted(q, i)
 <1>1. Messages(r, i) = Messages(q, i)
   BY DEF Messages
 <1>2. QED
   BY <1>1 DEF Counted

LEMMA CountedTail ==
  ASSUME NEW q, NEW r, NEW i \in Nat, \A j \in 1..i : r[j] = q[j + 1]
  PROVE  Counted(q, i + 1) = Counted(r, i) + (IF q[1].type = "message" THEN 1 ELSE 0)
 <1> DEFINE A == Messages(r, i)
            B == Messages(q, i + 1) \ {1}
            f == [j \in A |-> j + 1]
 <1>1. IsFiniteSet(A) /\ IsFiniteSet(Messages(q, i + 1)) /\ Counted(q, i + 1) \in Nat
   BY CountedNat
 <1>2. IsFiniteSet(B)
   BY <1>1, FS_Subset
 <1>3. \A j \in A : j + 1 \in B
   BY DEF Messages
 <1>4. \A k \in B : k - 1 \in A /\ (k - 1) + 1 = k
  <2> TAKE k \in B
  <2>1. k \in Int /\ k > 1 /\ k <= i + 1 /\ q[k].type = "message"
    BY DEF Messages
  <2>2. k - 1 \in 1..i /\ (k - 1) + 1 = k
    BY <2>1
  <2>3. r[k - 1] = q[k]
    BY <2>2
  <2>4. QED
    BY <2>1, <2>2, <2>3 DEF Messages
 <1>5. \A j1, j2 \in A : j1 + 1 = j2 + 1 => j1 = j2
   BY DEF Messages
 <1>6. f \in Bijection(A, B)
  <2>1. f \in [A -> B]
    BY <1>3
  <2>2. f \in Surjection(A, B)
    BY <2>1, <1>4 DEF Surjection
  <2>3. f \in Injection(A, B)
    BY <2>1, <1>5 DEF Injection, IsInjective
  <2>4. QED
    BY <2>2, <2>3 DEF Bijection
 <1>7. Cardinality(A) = Cardinality(B)
   BY <1>1, <1>2, <1>6, FS_Bijection DEF ExistsBijection
 <1>8. CASE q[1].type = "message"
  <2>1. 1 \in Messages(q, i + 1)
    BY <1>8 DEF Messages
  <2>2. Cardinality(B) = Cardinality(Messages(q, i + 1)) - 1
    BY <1>1, <2>1, FS_RemoveElement
  <2>3. QED
    BY <1>1, <1>7, <1>8, <2>2 DEF Counted
 <1>9. CASE q[1].type # "message"
  <2>1. B = Messages(q, i + 1)
    BY <1>9 DEF Messages
  <2>2. QED
    BY <1>1, <1>7, <1>9, <2>1 DEF Counted
 <1>10. QED
   BY <1>8, <1>9

(* A frame is read.                                                        *)
LEMMA NumberedTail ==
  ASSUME NEW q \in Seq(Frames), q # <<>>, NEW k \in Nat, Numbered(q, k)
  PROVE  LET m == IF Head(q).type = "message" THEN 1 ELSE 0 IN
         /\ Tail(q) \in Seq(Frames) /\ Head(q) \in Frames
         /\ Numbered(Tail(q), k + m)
         /\ k + Counted(q, Len(q)) = k + m + Counted(Tail(q), Len(Tail(q)))
         /\ Head(q).type \in {"message", "close"} => Head(q).n = k + m
         /\ \A i \in DOMAIN Tail(q) : i + 1 \in DOMAIN q /\ Tail(q)[i] = q[i + 1]
 <1> DEFINE r == Tail(q)
            m == IF Head(q).type = "message" THEN 1 ELSE 0
 <1>1. /\ Len(q) \in Nat /\ Len(q) > 0 /\ DOMAIN q = 1..Len(q) /\ q[1] = Head(q) /\ Head(q) \in Frames
       /\ r \in Seq(Frames) /\ Len(r) = Len(q) - 1 /\ DOMAIN r = 1..Len(r)
       /\ \A i \in 1..Len(r) : r[i] = q[i + 1]
   BY EmptySeq, LenProperties, HeadTailProperties, ElementOfSeq
 <1>2. m \in Nat /\ m = IF q[1].type = "message" THEN 1 ELSE 0
   BY <1>1
 <1> HIDE DEF r, m
 <1>3. ASSUME NEW i \in 0..Len(r)
       PROVE  Counted(q, i + 1) = Counted(r, i) + m /\ Counted(r, i) \in Nat
  <2>1. i \in Nat /\ \A j \in 1..i : r[j] = q[j + 1]
    BY <1>1
  <2>2. Counted(q, i + 1) = Counted(r, i) + (IF q[1].type = "message" THEN 1 ELSE 0)
    BY ONLY <2>1, CountedTail
  <2>3. Counted(r, i) \in Nat
    BY ONLY <2>1, CountedNat
  <2>4. QED
    BY ONLY <2>2, <2>3, <1>2
 <1>4. Numbered(r, k + m)
  <2> SUFFICES ASSUME NEW i \in 1..Len(r), r[i].type \in {"message", "close"}
               PROVE  r[i].n = k + m + Counted(r, i)
    BY DEF Numbered
  <2>1. i + 1 \in 1..Len(q) /\ r[i] = q[i + 1] /\ i \in 0..Len(r)
    BY <1>1
  <2>2. q[i + 1].n = k + Counted(q, i + 1)
    BY <2>1 DEF Numbered
  <2>3. Counted(q, i + 1) = Counted(r, i) + m /\ Counted(r, i) \in Nat
    BY <2>1, <1>3
  <2>4. QED
    BY <2>1, <2>2, <2>3, <1>2
 <1>5. k + Counted(q, Len(q)) = k + m + Counted(r, Len(r))
  <2>1. Len(r) \in 0..Len(r) /\ Len(r) + 1 = Len(q)
    BY <1>1
  <2>2. Counted(q, Len(r) + 1) = Counted(r, Len(r)) + m /\ Counted(r, Len(r)) \in Nat
    BY <2>1, <1>3
  <2>3. QED
    BY <2>1, <2>2, <1>2
 <1>6. q[1].type \in {"message", "close"} => q[1].n = k + m
  <2>1. 0 \in 0..Len(r) /\ 1 \in 1..Len(q)
    BY <1>1
  <2>2. Counted(q, 0 + 1) = Counted(r, 0) + m /\ Counted(r, 0) = 0
    BY <2>1, <1>3, CountedNone
  <2>3. Counted(q, 1) = m
    BY <2>2, <1>2
  <2>4. QED
    BY <2>1, <2>3 DEF Numbered
 <1>7. \A i \in DOMAIN r : i + 1 \in DOMAIN q /\ r[i] = q[i + 1]
   BY <1>1
 <1>8. QED
   BY <1>1, <1>4, <1>5, <1>6, <1>7 DEF r, m

(* A frame comes.                                                          *)
LEMMA NumberedAppend ==
  ASSUME NEW q \in Seq(Frames), NEW k \in Nat, Numbered(q, k), NEW f \in Frames,
         f.type \in {"message", "close"} =>
           f.n = k + Counted(q, Len(q)) + (IF f.type = "message" THEN 1 ELSE 0)
  PROVE  /\ Append(q, f) \in Seq(Frames) /\ Numbered(Append(q, f), k)
         /\ Counted(Append(q, f), Len(Append(q, f)))
            = Counted(q, Len(q)) + (IF f.type = "message" THEN 1 ELSE 0)
 <1> DEFINE r == Append(q, f)
 <1>1. /\ Len(q) \in Nat /\ r \in Seq(Frames) /\ Len(r) = Len(q) + 1
       /\ \A i \in 1..Len(q) : r[i] = q[i]
       /\ r[Len(q) + 1] = f
   BY LenProperties, AppendProperties
 <1> HIDE DEF r
 <1>2. \A i \in 0..Len(q) : Counted(r, i) = Counted(q, i)
  <2> TAKE i \in 0..Len(q)
  <2>1. i \in Nat /\ \A j \in 1..i : q[j].type = r[j].type
    BY <1>1
  <2>2. QED
    BY <2>1, CountedSame
 <1>3. Counted(r, Len(q) + 1) = Counted(q, Len(q)) + (IF f.type = "message" THEN 1 ELSE 0)
  <2>1. Counted(r, Len(q)) = Counted(q, Len(q))
    BY <1>1, <1>2
  <2>2. QED
    BY <1>1, <2>1, CountedNext
 <1>4. Numbered(r, k)
  <2> SUFFICES ASSUME NEW i \in 1..Len(r), r[i].type \in {"message", "close"}
               PROVE  r[i].n = k + Counted(r, i)
    BY DEF Numbered
  <2>1. CASE i \in 1..Len(q)
   <3>1. r[i] = q[i] /\ i \in 0..Len(q)
     BY <1>1, <2>1
   <3>2. q[i].n = k + Counted(q, i)
     BY <3>1, <2>1 DEF Numbered
   <3>3. QED
     BY <3>1, <3>2, <1>2
  <2>2. CASE i = Len(q) + 1
   <3>1. Counted(q, Len(q)) \in Nat
     BY <1>1, CountedNat
   <3>2. QED
     BY <3>1, <2>2, <1>1, <1>3
  <2>3. QED
    BY <1>1, <2>1, <2>2
 <1>5. QED
   BY <1>1, <1>3, <1>4 DEF r

(* Frames are dropped from the end.                                        *)
LEMMA NumberedPrefix ==
  ASSUME NEW q \in Seq(Frames), NEW k \in Nat, Numbered(q, k), NEW m \in 0..Len(q)
  PROVE  Numbered(SubSeq(q, 1, m), k)
 <1> DEFINE r == SubSeq(q, 1, m)
 <1>1. /\ Len(q) \in Nat /\ Len(r) = m /\ \A i \in 1..m : r[i] = q[i]
   BY LenProperties, SubSeqProperties
 <1> HIDE DEF r
 <1>2. ASSUME NEW i \in 1..m, r[i].type \in {"message", "close"}
       PROVE  r[i].n = k + Counted(r, i)
  <2>1. i \in 1..Len(q) /\ i \in Nat /\ r[i] = q[i] /\ \A j \in 1..i : q[j].type = r[j].type
    BY <1>1
  <2>2. q[i].n = k + Counted(q, i)
    BY <2>1, <1>2 DEF Numbered
  <2>3. Counted(r, i) = Counted(q, i)
    BY <2>1, CountedSame
  <2>4. QED
    BY <2>1, <2>2, <2>3
 <1>3. QED
   BY <1>1, <1>2 DEF Numbered, r

-----------------------------------------------------------------------------
(* What a step makes of an end                                             *)

Stops == {"get", "opening", "connecting", "read", "handle", "idle"}

Ends ==
  [ at : Stops, attached : BOOLEAN, clientTerm : BOOLEAN, serverTerm : BOOLEAN,
    waiting : BOOLEAN, fragmented : BOOLEAN, pinging : BOOLEAN, unanswered : Nat, pings : Nat,
    inbox : Seq(Frames), out : Seq(Frames), closed : BOOLEAN, callback : BOOLEAN, told : 0..1,
    sent : Nat, got : Seq(Nat), byApp : BOOLEAN ]

(* Closing: the same end, but for its stream and the handshake.            *)
Shuts(t, r) ==
  /\ r \in Ends
  /\ r.attached = t.attached /\ r.fragmented = t.fragmented /\ r.pinging = t.pinging
  /\ r.unanswered = t.unanswered /\ r.pings = t.pings /\ r.told = t.told /\ r.sent = t.sent
  /\ r.got = t.got /\ r.byApp = t.byApp
  /\ t.closed => r.closed /\ r.callback = t.callback
  /\ ~t.closed => r.callback = (IF r.closed THEN TRUE ELSE t.callback)
  /\ \E m \in 0..Len(t.inbox) : r.inbox = SubSeq(t.inbox, 1, m) /\ (~r.closed => m = Len(t.inbox))
  /\ r.at = t.at \/ (t.at = "read" /\ r.at = "idle" /\ r.closed)
  /\ t.clientTerm => r.clientTerm

LEMMA WholeInbox == ASSUME NEW q \in Seq(Frames)
                    PROVE  q = SubSeq(q, 1, Len(q)) /\ Len(q) \in 0..Len(q) /\ Len(q) \in Nat
  BY LenProperties, SubSeqProperties, SeqEqual

LEMMA StreamCloseIs ==
  ASSUME NEW t \in Ends, NEW keep \in Nat
  PROVE  LET r == We!StreamClose(t, keep) IN
         /\ Shuts(t, r) /\ r.closed /\ r.out = t.out /\ r.waiting = t.waiting
         /\ r.clientTerm = t.clientTerm /\ r.serverTerm = t.serverTerm
 <1> DEFINE r == We!StreamClose(t, keep)
            m == IF keep < Len(t.inbox) THEN keep ELSE Len(t.inbox)
            left == SubSeq(t.inbox, 1, m)
            stop == IF t.at = "read" /\ left = <<>> THEN "idle" ELSE t.at
 <1>1. /\ t.inbox \in Seq(Frames) /\ t.at \in Stops
       /\ Len(t.inbox) \in 0..Len(t.inbox) /\ t.inbox = SubSeq(t.inbox, 1, Len(t.inbox))
   BY WholeInbox DEF Ends
 <1>2. m \in 0..Len(t.inbox) /\ left \in Seq(Frames)
   BY <1>1, LenProperties, SubSeqProperties
 <1>3. stop \in Stops /\ (stop = t.at \/ (t.at = "read" /\ stop = "idle"))
   BY <1>1 DEF Stops
 <1>4. CASE t.closed
  <2>1. r = t
    BY <1>4 DEF We!StreamClose
  <2>2. QED
    BY <2>1, <1>1, <1>4 DEF Shuts, Ends
 <1>5. CASE ~t.closed
  <2>1. r = [t EXCEPT !.closed = TRUE, !.callback = TRUE, !.inbox = left, !.at = stop]
    BY <1>5 DEF We!StreamClose
  <2> HIDE DEF r, left, stop
  <2>2. r \in Ends
    BY <2>1, <1>2, <1>3 DEF Ends
  <2>3. /\ r.attached = t.attached /\ r.fragmented = t.fragmented /\ r.pinging = t.pinging
        /\ r.unanswered = t.unanswered /\ r.pings = t.pings /\ r.told = t.told /\ r.sent = t.sent
        /\ r.got = t.got /\ r.byApp = t.byApp /\ r.closed = TRUE /\ r.callback = TRUE
        /\ r.inbox = left /\ r.at = stop /\ r.clientTerm = t.clientTerm /\ r.out = t.out
        /\ r.waiting = t.waiting /\ r.serverTerm = t.serverTerm
    BY <2>1 DEF Ends
  <2>4. \E k \in 0..Len(t.inbox) : r.inbox = SubSeq(t.inbox, 1, k) /\ (~r.closed => k = Len(t.inbox))
    BY <2>3, <1>2 DEF left
  <2>5. Shuts(t, r)
    BY <2>2, <2>3, <2>4, <1>3, <1>5 DEF Shuts
  <2>6. QED
    BY <2>3, <2>5 DEF r
 <1>6. QED
   BY <1>4, <1>5

(* Nothing of an end is changed.                                           *)
LEMMA ShutsItself == ASSUME NEW t \in Ends PROVE Shuts(t, t)
 <1>1. t.inbox \in Seq(Frames)
   BY DEF Ends
 <1>2. QED
   BY <1>1, WholeInbox DEF Shuts

LEMMA ShutsWaiting ==
  ASSUME NEW t \in Ends, NEW r, Shuts(t, r), NEW b \in BOOLEAN
  PROVE  Shuts(t, [r EXCEPT !.waiting = b])
 <1> DEFINE s == [r EXCEPT !.waiting = b]
 <1>1. s \in Ends
   BY DEF Shuts, Ends
 <1>2. /\ s.attached = r.attached /\ s.fragmented = r.fragmented /\ s.pinging = r.pinging
       /\ s.unanswered = r.unanswered /\ s.pings = r.pings /\ s.told = r.told /\ s.sent = r.sent
       /\ s.got = r.got /\ s.byApp = r.byApp /\ s.closed = r.closed /\ s.callback = r.callback
       /\ s.inbox = r.inbox /\ s.at = r.at /\ s.clientTerm = r.clientTerm
   BY DEF Shuts, Ends
 <1> HIDE DEF s
 <1>3. Shuts(t, s)
   BY <1>1, <1>2 DEF Shuts
 <1>4. QED
   BY <1>3 DEF s

(* close() of the protocol.                                                *)
Says(t, r) ==
  \/ r.out = <<>>
  \/ ~t.closed /\ ~t.serverTerm /\ r.out = <<We!Frame("close", t.sent)>>

LEMMA CloseIs ==
  ASSUME NEW t \in Ends, t.out = <<>>, NEW keep \in Nat
  PROVE  LET r == We!Close(t, keep) IN
         /\ Shuts(t, r) /\ r.serverTerm /\ r.clientTerm = t.clientTerm
         /\ t.clientTerm => r.closed
         /\ r.closed \/ r.waiting
         /\ Says(t, r)
 <1> DEFINE f == We!Frame("close", t.sent)
            said == IF t.closed \/ t.serverTerm THEN <<>> ELSE <<f>>
            u == IF t.serverTerm THEN t ELSE [We!WriteFrame(t, f) EXCEPT !.serverTerm = TRUE]
            v == [u EXCEPT !.waiting = FALSE]
 <1>1. f \in Frames /\ said \in Seq(Frames)
  <2>1. f \in Frames
    BY DEF Frames, FrameTypes, We!Frame, Ends
  <2> HIDE DEF f
  <2>2. <<f>> \in Seq(Frames) /\ <<>> \in Seq(Frames)
    BY <2>1
  <2>3. QED
    BY <2>1, <2>2
 <1>2. u = [t EXCEPT !.out = said, !.serverTerm = TRUE]
  <2>1. CASE t.serverTerm
    BY <2>1 DEF Ends
  <2>2. CASE ~t.serverTerm /\ t.closed
    BY <2>2 DEF We!WriteFrame, Ends
  <2>3. CASE ~t.serverTerm /\ ~t.closed
   <3>1. Append(<<>>, f) = <<f>>
     OBVIOUS
   <3>2. QED
     BY <2>3, <3>1 DEF We!WriteFrame, Ends
  <2>4. QED
    BY <2>1, <2>2, <2>3
 <1>3. We!Close(t, keep) = IF u.clientTerm THEN We!StreamClose(v, keep) ELSE [u EXCEPT !.waiting = TRUE]
   BY DEF We!Close
 <1> HIDE DEF u, said, f
 <1>4. /\ u \in Ends
       /\ u.attached = t.attached /\ u.fragmented = t.fragmented /\ u.pinging = t.pinging
       /\ u.unanswered = t.unanswered /\ u.pings = t.pings /\ u.told = t.told /\ u.sent = t.sent
       /\ u.got = t.got /\ u.byApp = t.byApp /\ u.closed = t.closed /\ u.callback = t.callback
       /\ u.inbox = t.inbox /\ u.at = t.at /\ u.clientTerm = t.clientTerm /\ u.out = said
       /\ u.serverTerm = TRUE
   BY <1>1, <1>2 DEF Ends
 <1>5. ASSUME NEW r, Shuts(u, r) PROVE Shuts(t, r)
  <2>1. /\ r \in Ends
        /\ r.attached = u.attached /\ r.fragmented = u.fragmented /\ r.pinging = u.pinging
        /\ r.unanswered = u.unanswered /\ r.pings = u.pings /\ r.told = u.told /\ r.sent = u.sent
        /\ r.got = u.got /\ r.byApp = u.byApp
    BY <1>5 DEF Shuts
  <2>2. /\ u.closed => r.closed /\ r.callback = u.callback
        /\ r.at = u.at \/ (u.at = "read" /\ r.at = "idle" /\ r.closed)
        /\ u.clientTerm => r.clientTerm
    BY <1>5 DEF Shuts
  <2>3. ~u.closed => r.callback = (IF r.closed THEN TRUE ELSE u.callback)
    BY <1>5 DEF Shuts
  <2>4. \E m \in 0..Len(u.inbox) : r.inbox = SubSeq(u.inbox, 1, m) /\ (~r.closed => m = Len(u.inbox))
    BY <1>5 DEF Shuts
  <2>5. QED
    BY <2>1, <2>2, <2>3, <2>4, <1>4 DEF Shuts
 <1>6. said = <<>> \/ (~t.closed /\ ~t.serverTerm /\ said = <<We!Frame("close", t.sent)>>)
   BY DEF said, f
 <1>7. CASE t.clientTerm
  <2>1. /\ v \in Ends /\ Shuts(u, v) /\ v.clientTerm = u.clientTerm /\ v.serverTerm = TRUE /\ v.out = said
    BY <1>4, ShutsItself, ShutsWaiting DEF Ends
  <2> DEFINE r == We!StreamClose(v, keep)
  <2>2. /\ Shuts(v, r) /\ r.closed /\ r.out = v.out /\ r.clientTerm = v.clientTerm
        /\ r.serverTerm = v.serverTerm
    BY <2>1, StreamCloseIs
  <2>3. We!Close(t, keep) = r
    BY <1>3, <1>4, <1>7
  <2> HIDE DEF r
  <2>4. /\ v.attached = u.attached /\ v.fragmented = u.fragmented /\ v.pinging = u.pinging
        /\ v.unanswered = u.unanswered /\ v.pings = u.pings /\ v.told = u.told /\ v.sent = u.sent
        /\ v.got = u.got /\ v.byApp = u.byApp /\ v.closed = u.closed /\ v.callback = u.callback
        /\ v.inbox = u.inbox /\ v.at = u.at /\ v.clientTerm = u.clientTerm
    BY <1>4 DEF Ends
  <2> HIDE DEF v
  <2>5. Shuts(u, r)
    BY <2>2, <2>4 DEF Shuts
  <2>6. QED
    BY <2>1, <2>2, <2>3, <2>5, <1>4, <1>5, <1>6 DEF Says
 <1>8. CASE ~t.clientTerm
  <2> DEFINE r == [u EXCEPT !.waiting = TRUE]
  <2>1. Shuts(u, r)
    BY <1>4, ShutsItself, ShutsWaiting
  <2>2. We!Close(t, keep) = r
    BY <1>3, <1>4, <1>8
  <2>3. r.waiting = TRUE /\ r.serverTerm = TRUE /\ r.clientTerm = u.clientTerm /\ r.out = said
    BY <1>4 DEF Ends
  <2> HIDE DEF r
  <2>4. QED
    BY <2>1, <2>2, <2>3, <1>4, <1>5, <1>6, <1>8 DEF Says
 <1>9. t.clientTerm \in BOOLEAN
   BY DEF Ends
 <1>10. QED
   BY <1>7, <1>8, <1>9

LEMMA AbortIs ==
  ASSUME NEW t \in Ends, t.out = <<>>, NEW keep \in Nat
  PROVE  LET r == We!Abort(t, keep) IN
         Shuts(t, r) /\ r.closed /\ r.clientTerm /\ r.serverTerm /\ r.out = <<>>
 <1> DEFINE u == [t EXCEPT !.clientTerm = TRUE, !.serverTerm = TRUE]
            v == We!StreamClose(u, keep)
            r == We!Close(v, keep)
 <1>1. u \in Ends /\ u.out = <<>>
   BY DEF Ends
 <1>2. /\ u.attached = t.attached /\ u.fragmented = t.fragmented /\ u.pinging = t.pinging
       /\ u.unanswered = t.unanswered /\ u.pings = t.pings /\ u.told = t.told /\ u.sent = t.sent
       /\ u.got = t.got /\ u.byApp = t.byApp /\ u.closed = t.closed /\ u.callback = t.callback
       /\ u.inbox = t.inbox /\ u.at = t.at /\ u.clientTerm = TRUE /\ u.serverTerm = TRUE
   BY DEF Ends
 <1> HIDE DEF u
 <1>3. Shuts(u, v) /\ v.closed /\ v.out = <<>> /\ v.clientTerm /\ v.serverTerm /\ v \in Ends
   BY <1>1, <1>2, StreamCloseIs, ZenonT(30) DEF Shuts
 <1>4. Shuts(t, v)
   BY <1>2, <1>3 DEF Shuts
 <1> HIDE DEF v
 <1>5. r = [v EXCEPT !.waiting = FALSE]
   BY <1>3 DEF We!Close, We!StreamClose, Ends
 <1>6. Shuts(t, r)
   BY <1>4, <1>5, ShutsWaiting
 <1>7. r.closed /\ r.clientTerm /\ r.serverTerm /\ r.out = <<>>
   BY <1>3, <1>5 DEF Ends
 <1>8. We!Abort(t, keep) = r
   BY DEF We!Abort, u, v
 <1>9. QED
   BY <1>6, <1>7, <1>8

-----------------------------------------------------------------------------
(* The inductive invariant                                                 *)

(* What is true of an end by itself.                                       *)
Sound(p, t) ==
  /\ t.serverTerm \/ (t.at = "idle" /\ t.attached) => t.closed \/ t.waiting
  /\ t.closed => t.callback \/ t.told = 1
  /\ t.callback => t.closed /\ t.told = 0
  /\ t.told = 1 => t.closed
  /\ t.clientTerm => t.closed
  /\ t.at = "get" => ~t.attached /\ ~t.waiting /\ ~t.pinging /\ ~t.closed
  /\ p = "server" =>
       /\ t.at # "connecting" /\ (t.told = 1 => ~t.attached)
       /\ ~t.attached => t.byApp \/ t.clientTerm \/ t.at \in {"get", "idle"}
  /\ p = "client" => t.at \notin {"get", "opening", "handle"} /\ (t.told = 1 => t.at # "read")

Within(t, most) == t.unanswered <= t.pings /\ t.sent + t.pings <= most

(* What an end has heard of the s messages that were sent to it.           *)
Line(t, s) ==
  /\ ~t.fragmented
  /\ \A i \in DOMAIN t.got : t.got[i] = i
  /\ \A i \in DOMAIN t.inbox : t.inbox[i].type \in {"message", "close", "ping", "pong"}
  /\ ~t.clientTerm => Numbered(t.inbox, Len(t.got))
  /\ ~t.closed => s = Len(t.got) + Counted(t.inbox, Len(t.inbox))

EndsInv ==
  /\ wWe \in [We!Side -> Ends] /\ pingers \in DOMAIN MaxFramesWe /\ foreign \in BOOLEAN
  /\ \A p \in We!Side : /\ wWe[p].out = <<>> /\ Sound(p, wWe[p])
                        /\ Within(wWe[p], MaxFramesWe[pingers][p])
                        /\ ~foreign => Line(wWe[p], wWe[We!Other(p)].sent)

(* What the client was given is in the hands of its readers, or waits.     *)
ReadersInv ==
  /\ connect \in {"pending", "open", "error"} /\ reading \in BOOLEAN
  /\ read \in Seq(Nat) /\ readqueue \in Seq(Nat)
  /\ read \o readqueue = wWe["client"].got \o (IF wWe["client"].told = 1 THEN <<We!None>> ELSE <<>>)
  /\ reading => readqueue = <<>>

SocketInv == EndsInv /\ ReadersInv

LEMMA LineShuts ==
  ASSUME NEW t \in Ends, NEW r, Shuts(t, r), NEW s, Line(t, s)
  PROVE  Line(r, s)
 <1>1. PICK m \in 0..Len(t.inbox) : r.inbox = SubSeq(t.inbox, 1, m) /\ (~r.closed => m = Len(t.inbox))
   BY DEF Shuts
 <1>2. /\ r \in Ends /\ r.got = t.got /\ r.fragmented = t.fragmented /\ (t.closed => r.closed)
       /\ t.clientTerm => r.clientTerm
   BY DEF Shuts
 <1>3. /\ t.inbox \in Seq(Frames) /\ t.got \in Seq(Nat) /\ Len(t.got) \in Nat
       /\ t.inbox = SubSeq(t.inbox, 1, Len(t.inbox))
   BY WholeInbox, LenProperties DEF Ends
 <1>4. /\ Len(r.inbox) = m /\ DOMAIN r.inbox = 1..m /\ DOMAIN t.inbox = 1..Len(t.inbox)
       /\ \A i \in 1..m : r.inbox[i] = t.inbox[i]
   BY <1>1, <1>3, LenProperties, SubSeqProperties
 <1>5. \A i \in DOMAIN r.inbox : r.inbox[i].type \in {"message", "close", "ping", "pong"}
   BY <1>4 DEF Line
 <1>6. ASSUME ~r.clientTerm PROVE Numbered(r.inbox, Len(r.got))
  <2>1. Numbered(t.inbox, Len(t.got))
    BY <1>2, <1>6 DEF Line
  <2>2. QED
    BY <2>1, <1>1, <1>2, <1>3, NumberedPrefix
 <1>7. ASSUME ~r.closed PROVE s = Len(r.got) + Counted(r.inbox, Len(r.inbox))
  <2>1. r.inbox = t.inbox /\ ~t.closed
    BY <1>1, <1>2, <1>3, <1>7
  <2>2. QED
    BY <2>1, <1>2 DEF Line
 <1>8. ~r.fragmented /\ \A i \in DOMAIN r.got : r.got[i] = i
   BY <1>2 DEF Line
 <1>9. QED
   BY <1>5, <1>6, <1>7, <1>8 DEF Line

(* What an end says in a step.                                             *)
Speech(t, r) ==
  \/ r.out = <<>> /\ r.sent = t.sent
  \/ \E f \in Frames :
       /\ r.out = <<f>> /\ f.type \in {"message", "close", "ping", "pong"}
       /\ r.sent = IF f.type = "message" THEN t.sent + 1 ELSE t.sent
       /\ f.type \in {"message", "close"} => f.n = r.sent

Hears(u, out) == IF u.closed THEN u ELSE [u EXCEPT !.inbox = @ \o out]

LEMMA HearsIs ==
  ASSUME NEW u \in Ends, NEW out \in Seq(Frames)
  PROVE  LET v == Hears(u, out) IN
         /\ v \in Ends
         /\ v.at = u.at /\ v.attached = u.attached /\ v.clientTerm = u.clientTerm
         /\ v.serverTerm = u.serverTerm /\ v.waiting = u.waiting /\ v.fragmented = u.fragmented
         /\ v.pinging = u.pinging /\ v.unanswered = u.unanswered /\ v.pings = u.pings
         /\ v.out = u.out /\ v.closed = u.closed /\ v.callback = u.callback /\ v.told = u.told
         /\ v.sent = u.sent /\ v.got = u.got /\ v.byApp = u.byApp
         /\ v.inbox = IF u.closed THEN u.inbox ELSE u.inbox \o out
 <1>1. u.inbox \o out \in Seq(Frames)
   BY ConcatProperties DEF Ends
 <1>2. QED
   BY <1>1 DEF Hears, Ends

LEMMA LineHears ==
  ASSUME NEW t \in Ends, NEW r, Speech(t, r), NEW u \in Ends, Line(u, t.sent)
  PROVE  Line(Hears(u, r.out), r.sent)
 <1>1. u.inbox \in Seq(Frames) /\ u.got \in Seq(Nat) /\ Len(u.got) \in Nat /\ t.sent \in Nat
   BY LenProperties DEF Ends
 <1>2. CASE u.closed
   BY <1>2 DEF Hears, Line
 <1>3. CASE ~u.closed /\ r.out = <<>> /\ r.sent = t.sent
  <2>1. u.inbox \o <<>> = u.inbox
    BY <1>1, ConcatEmptySeq
  <2>2. Hears(u, r.out) = u
    BY <2>1, <1>3 DEF Hears, Ends
  <2>3. QED
    BY <2>2, <1>3
 <1>4. ASSUME ~u.closed,
              NEW f \in Frames, r.out = <<f>>, f.type \in {"message", "close", "ping", "pong"},
              r.sent = IF f.type = "message" THEN t.sent + 1 ELSE t.sent,
              f.type \in {"message", "close"} => f.n = r.sent
       PROVE  Line(Hears(u, r.out), r.sent)
  <2> DEFINE v == Hears(u, r.out)
             q == Append(u.inbox, f)
  <2>1. r.out \in Seq(Frames) /\ u.inbox \o r.out = q
    BY <1>1, <1>4, AppendIsConcat
  <2>2. /\ v.inbox = q /\ v.fragmented = u.fragmented /\ v.got = u.got
        /\ v.clientTerm = u.clientTerm /\ v.closed = u.closed
    BY <2>1, <1>4, HearsIs
  <2> HIDE DEF v
  <2>3. t.sent = Len(u.got) + Counted(u.inbox, Len(u.inbox)) /\ Counted(u.inbox, Len(u.inbox)) \in Nat
    BY <1>1, <1>4, CountedNat, LenProperties DEF Line
  <2>4. \A i \in DOMAIN q : q[i].type \in {"message", "close", "ping", "pong"}
   <3> SUFFICES ASSUME NEW i \in DOMAIN q PROVE q[i].type \in {"message", "close", "ping", "pong"}
     OBVIOUS
   <3>1. /\ DOMAIN q = 1..(Len(u.inbox) + 1) /\ Len(u.inbox) \in Nat /\ DOMAIN u.inbox = 1..Len(u.inbox)
         /\ \A j \in 1..Len(u.inbox) : q[j] = u.inbox[j]
         /\ q[Len(u.inbox) + 1] = f
     BY <1>1, LenProperties, AppendProperties
   <3>2. CASE i \in 1..Len(u.inbox)
     BY <3>1, <3>2 DEF Line
   <3>3. CASE i = Len(u.inbox) + 1
     BY <3>1, <3>3, <1>4
   <3>4. QED
     BY <3>1, <3>2, <3>3
  <2>5. f.type \in {"message", "close"} =>
          f.n = Len(u.got) + Counted(u.inbox, Len(u.inbox)) + (IF f.type = "message" THEN 1 ELSE 0)
    BY <2>3, <1>4
  <2>6. ASSUME ~u.clientTerm
        PROVE  /\ Numbered(q, Len(u.got))
               /\ Counted(q, Len(q)) = Counted(u.inbox, Len(u.inbox)) + (IF f.type = "message" THEN 1 ELSE 0)
   <3>1. Numbered(u.inbox, Len(u.got))
     BY <2>6 DEF Line
   <3>2. QED
     BY <3>1, <2>5, <1>1, NumberedAppend
  <2>7. Counted(q, Len(q)) = Counted(u.inbox, Len(u.inbox)) + (IF f.type = "message" THEN 1 ELSE 0)
   <3>1. /\ Len(q) = Len(u.inbox) + 1 /\ Len(u.inbox) \in Nat /\ q[Len(u.inbox) + 1] = f
         /\ \A j \in 1..Len(u.inbox) : u.inbox[j].type = q[j].type
     BY <1>1, LenProperties, AppendProperties
   <3>2. Counted(q, Len(u.inbox)) = Counted(u.inbox, Len(u.inbox))
     BY <3>1, CountedSame
   <3>3. QED
     BY <3>1, <3>2, CountedNext
  <2> HIDE DEF q
  <2>8. r.sent = Len(u.got) + Counted(q, Len(q))
    BY <2>3, <2>7, <1>4, <1>1
  <2>9. ~u.fragmented /\ \A i \in DOMAIN u.got : u.got[i] = i
    BY DEF Line
  <2>10. Line(v, r.sent)
    BY <2>2, <2>4, <2>6, <2>8, <2>9 DEF Line
  <2>11. QED
    BY <2>10 DEF v
 <1>5. u.closed \in BOOLEAN
   BY DEF Ends
 <1>6. QED
   BY <1>2, <1>3, <1>4, <1>5 DEF Speech

-----------------------------------------------------------------------------
(* Steps                                                                   *)

(* What a step makes of the end p is as it should be.                      *)
Outcome(p, r) ==
  /\ r \in Ends /\ Sound(p, r) /\ Within(r, MaxFramesWe[pingers][p])
  /\ ~foreign => Speech(wWe[p], r) /\ Line(r, wWe[We!Other(p)].sent)

LEMMA OtherSide == ASSUME NEW p \in We!Side
                   PROVE  We!Other(p) \in We!Side /\ We!Other(p) # p /\ We!Other(We!Other(p)) = p
                          /\ \A q \in We!Side : q = p \/ q = We!Other(p)
  BY DEF We!Side, We!Other

LEMMA EndAt ==
  ASSUME EndsInv, NEW p \in We!Side
  PROVE  /\ wWe[p] \in Ends /\ wWe[p].out = <<>> /\ Sound(p, wWe[p]) /\ Within(wWe[p], MaxFramesWe[pingers][p])
         /\ ~foreign => Line(wWe[p], wWe[We!Other(p)].sent)
         /\ foreign \in BOOLEAN /\ pingers \in DOMAIN MaxFramesWe
  BY DEF EndsInv

LEMMA BecomesKeeps ==
  ASSUME EndsInv, NEW p \in We!Side, NEW r, Outcome(p, r), We!Becomes(p, r), UNCHANGED We!settings
  PROVE  /\ EndsInv'
         /\ wWe'[p].got = r.got /\ wWe'[p].told = r.told
         /\ wWe'[We!Other(p)].got = wWe[We!Other(p)].got /\ wWe'[We!Other(p)].told = wWe[We!Other(p)].told
 <1> DEFINE q == We!Other(p)
            r0 == [r EXCEPT !.out = <<>>]
            v == Hears(wWe[q], r.out)
 <1>1. q \in We!Side /\ q # p /\ We!Other(q) = p /\ \A s \in We!Side : s = p \/ s = q
   BY OtherSide
 <1>2. wWe \in [We!Side -> Ends] /\ pingers' = pingers /\ foreign' = foreign
   BY DEF EndsInv, We!settings
 <1>3. wWe' = [wWe EXCEPT ![p] = r0, ![q] = v]
   BY DEF We!Becomes, Hears
 <1>4. wWe'[p] = r0 /\ wWe'[q] = v
   BY <1>1, <1>2, <1>3
 <1>5. /\ wWe[q] \in Ends /\ wWe[q].out = <<>> /\ Sound(q, wWe[q]) /\ Within(wWe[q], MaxFramesWe[pingers][q])
       /\ ~foreign => Line(wWe[q], wWe[p].sent)
   BY <1>1, EndAt
 <1>6. r \in Ends /\ r.out \in Seq(Frames) /\ <<>> \in Seq(Frames) /\ Sound(p, r)
       /\ Within(r, MaxFramesWe[pingers][p])
   BY DEF Outcome, Ends
 <1>7. /\ r0 \in Ends /\ r0.out = <<>>
       /\ r0.at = r.at /\ r0.attached = r.attached /\ r0.clientTerm = r.clientTerm
       /\ r0.serverTerm = r.serverTerm /\ r0.waiting = r.waiting /\ r0.fragmented = r.fragmented
       /\ r0.pinging = r.pinging /\ r0.unanswered = r.unanswered /\ r0.pings = r.pings
       /\ r0.closed = r.closed /\ r0.callback = r.callback /\ r0.told = r.told
       /\ r0.sent = r.sent /\ r0.got = r.got /\ r0.byApp = r.byApp /\ r0.inbox = r.inbox
   BY <1>6 DEF Ends
 <1> HIDE DEF r0
 <1>8. Sound(p, r0) /\ Within(r0, MaxFramesWe[pingers][p])
   BY <1>6, <1>7 DEF Sound, Within
 <1>9. /\ v \in Ends /\ v.out = <<>> /\ Sound(q, v) /\ Within(v, MaxFramesWe[pingers][q])
       /\ v.got = wWe[q].got /\ v.told = wWe[q].told /\ v.sent = wWe[q].sent
  <2>1. /\ v \in Ends /\ v.out = wWe[q].out
        /\ v.at = wWe[q].at /\ v.attached = wWe[q].attached /\ v.clientTerm = wWe[q].clientTerm
        /\ v.serverTerm = wWe[q].serverTerm /\ v.waiting = wWe[q].waiting
        /\ v.pinging = wWe[q].pinging /\ v.unanswered = wWe[q].unanswered /\ v.pings = wWe[q].pings
        /\ v.closed = wWe[q].closed /\ v.callback = wWe[q].callback /\ v.told = wWe[q].told
        /\ v.sent = wWe[q].sent /\ v.got = wWe[q].got /\ v.byApp = wWe[q].byApp
    BY <1>5, <1>6, HearsIs
  <2> HIDE DEF v
  <2>2. QED
    BY <1>5, <2>1 DEF Sound, Within
 <1>10. ASSUME ~foreign PROVE Line(r0, v.sent) /\ Line(v, r0.sent)
  <2>1. Speech(wWe[p], r) /\ Line(r, wWe[q].sent) /\ Line(wWe[q], wWe[p].sent)
    BY <1>5, <1>10 DEF Outcome
  <2>2. Line(v, r.sent)
   <3>1. wWe[p] \in Ends
     BY EndAt
   <3>2. QED
     BY <2>1, <3>1, <1>5, LineHears
  <2>3. Line(r0, wWe[q].sent)
    BY <2>1, <1>7 DEF Line
  <2>4. QED
    BY <2>2, <2>3, <1>7, <1>9
 <1> HIDE DEF v
 <1>11. wWe' \in [We!Side -> Ends]
   BY <1>2, <1>3, <1>7, <1>9
 <1>12. ASSUME NEW s \in We!Side
        PROVE  /\ wWe'[s].out = <<>> /\ Sound(s, wWe'[s]) /\ Within(wWe'[s], MaxFramesWe[pingers][s])
               /\ ~foreign => Line(wWe'[s], wWe'[We!Other(s)].sent)
  <2>1. CASE s = p
    BY <2>1, <1>4, <1>7, <1>8, <1>10
  <2>2. CASE s = q
    BY <2>2, <1>1, <1>4, <1>9, <1>10
  <2>3. QED
    BY <1>1, <2>1, <2>2
 <1>13. pingers \in DOMAIN MaxFramesWe /\ foreign \in BOOLEAN
   BY DEF EndsInv
 <1>14. EndsInv'
   BY <1>2, <1>11, <1>12, <1>13 DEF EndsInv
 <1>15. QED
   BY <1>4, <1>7, <1>9, <1>14

(* Nothing new for the readers.                                            *)
LEMMA ReadersSame ==
  ASSUME ReadersInv, wWe'["client"].got = wWe["client"].got, wWe'["client"].told = wWe["client"].told,
         UNCHANGED <<readqueue, reading, read>>, connect' \in {"pending", "open", "error"}
  PROVE  ReadersInv'
  BY DEF ReadersInv

(* A step of one end that tells the readers nothing.                       *)
LEMMA QuietStep ==
  ASSUME SocketInv, NEW p \in We!Side, NEW r, Outcome(p, r), We!Becomes(p, r), UNCHANGED We!settings,
         UNCHANGED <<readqueue, reading, read>>, connect' \in {"pending", "open", "error"},
         p = "client" => r.got = wWe[p].got /\ r.told = wWe[p].told
  PROVE  SocketInv'
 <1>1. EndsInv /\ ReadersInv
   BY DEF SocketInv
 <1>2. /\ EndsInv' /\ wWe'[p].got = r.got /\ wWe'[p].told = r.told
       /\ wWe'[We!Other(p)].got = wWe[We!Other(p)].got /\ wWe'[We!Other(p)].told = wWe[We!Other(p)].told
   BY <1>1, BecomesKeeps
 <1>3. wWe'["client"].got = wWe["client"].got /\ wWe'["client"].told = wWe["client"].told
  <2>1. p = "client" \/ We!Other(p) = "client"
    BY DEF We!Side, We!Other
  <2>2. QED
    BY <2>1, <1>2
 <1>4. QED
   BY <1>1, <1>2, <1>3, ReadersSame DEF SocketInv

LEMMA ClientUnchanged ==
  ASSUME SocketInv, UNCHANGED We!clientVars
  PROVE  UNCHANGED <<readqueue, reading, read>> /\ connect' \in {"pending", "open", "error"}
  BY DEF SocketInv, ReadersInv, We!clientVars

(* A step may start from an end that differs from w[p] where neither its   *)
(* line nor its bounds are concerned.                                      *)
Base(p, u) ==
  /\ u \in Ends /\ u.out = <<>> /\ u.sent = wWe[p].sent
  /\ Within(u, MaxFramesWe[pingers][p])
  /\ ~foreign => Line(u, wWe[We!Other(p)].sent)

LEMMA BaseAt == ASSUME EndsInv, NEW p \in We!Side PROVE Base(p, wWe[p])
  BY EndAt DEF Base

LEMMA BaseLike ==
  ASSUME EndsInv, NEW p \in We!Side, NEW t, Base(p, t), NEW u \in Ends,
         u.out = <<>>, u.sent = t.sent, u.pings = t.pings, u.unanswered <= t.unanswered,
         u.inbox = t.inbox, u.got = t.got, u.closed = t.closed,
         t.clientTerm => u.clientTerm, ~foreign => u.fragmented = t.fragmented
  PROVE  Base(p, u)
 <1>1. t \in Ends /\ Within(t, MaxFramesWe[pingers][p]) /\ (~foreign => Line(t, wWe[We!Other(p)].sent))
   BY DEF Base
 <1>2. Within(u, MaxFramesWe[pingers][p])
   BY <1>1 DEF Within, Ends
 <1>3. ~foreign => Line(u, wWe[We!Other(p)].sent)
   BY <1>1 DEF Line
 <1>4. QED
   BY <1>2, <1>3 DEF Base

LEMMA BaseShuts ==
  ASSUME EndsInv, NEW p \in We!Side, NEW u, Base(p, u), NEW r, Shuts(u, r), Says(u, r)
  PROVE  /\ r \in Ends /\ Within(r, MaxFramesWe[pingers][p]) /\ r.sent = wWe[p].sent
         /\ Speech(wWe[p], r) /\ (~foreign => Line(r, wWe[We!Other(p)].sent))
 <1>1. /\ u \in Ends /\ Within(u, MaxFramesWe[pingers][p]) /\ u.sent = wWe[p].sent
       /\ ~foreign => Line(u, wWe[We!Other(p)].sent)
   BY DEF Base
 <1>2. r \in Ends /\ Within(r, MaxFramesWe[pingers][p]) /\ r.sent = wWe[p].sent
   BY <1>1 DEF Shuts, Within
 <1>3. ~foreign => Line(r, wWe[We!Other(p)].sent)
   BY <1>1, LineShuts
 <1>4. Speech(wWe[p], r)
  <2>1. CASE r.out = <<>>
    BY <2>1, <1>2 DEF Speech
  <2>2. CASE r.out = <<We!Frame("close", u.sent)>>
   <3>1. We!Frame("close", u.sent) \in Frames
     BY <1>1 DEF We!Frame, Frames, FrameTypes, Ends
   <3>2. /\ We!Frame("close", u.sent).type = "close" /\ We!Frame("close", u.sent).n = r.sent
     BY <1>1, <1>2 DEF We!Frame
   <3>3. QED
     BY <2>2, <3>1, <3>2, <1>2 DEF Speech
  <2>3. QED
    BY <2>1, <2>2 DEF Says
 <1>5. QED
   BY <1>2, <1>3, <1>4

LEMMA BaseOutcome ==
  ASSUME EndsInv, NEW p \in We!Side, NEW u, Base(p, u), NEW r, Shuts(u, r), Says(u, r), Sound(p, r)
  PROVE  Outcome(p, r)
  BY BaseShuts DEF Outcome

(* What an outcome is after the handler has noted more of it.              *)
LEMMA OutcomeLike ==
  ASSUME EndsInv, NEW p \in We!Side, NEW r, Outcome(p, r), NEW s \in Ends, Sound(p, s),
         s.out = r.out, s.sent = r.sent, s.pings = r.pings, s.unanswered = r.unanswered,
         s.inbox = r.inbox, s.got = r.got, s.closed = r.closed, s.clientTerm = r.clientTerm,
         s.fragmented = r.fragmented
  PROVE  Outcome(p, s)
  BY DEF Outcome, Within, Speech, Line

LEMMA OutcomeAt == ASSUME EndsInv, NEW p \in We!Side PROVE Outcome(p, wWe[p])
  BY EndAt, BaseAt, BaseOutcome, ShutsItself DEF Says

-----------------------------------------------------------------------------
(* Actions                                                                 *)

LEMMA RefuseKeeps == ASSUME SocketInv, We!Refuse PROVE SocketInv'
 <1> DEFINE t == wWe["server"]
            u == [t EXCEPT !.at = "idle"]
            r == We!StreamClose(u, 0)
 <1>1. EndsInv /\ "server" \in We!Side
   BY DEF SocketInv, We!Side
 <1>2. t \in Ends /\ t.out = <<>> /\ Sound("server", t) /\ t.at = "get" /\ Base("server", t)
   BY <1>1, EndAt, BaseAt DEF We!Refuse
 <1> HIDE DEF t
 <1>3. u \in Ends /\ u.out = <<>> /\ u.attached = t.attached /\ u.told = t.told
       /\ u.closed = t.closed /\ u.callback = t.callback /\ u.at = "idle"
       /\ u.sent = t.sent /\ u.pings = t.pings /\ u.unanswered = t.unanswered
       /\ u.inbox = t.inbox /\ u.got = t.got /\ u.clientTerm = t.clientTerm /\ u.fragmented = t.fragmented
   BY <1>2 DEF Ends, Stops
 <1>4. Base("server", u)
  <2>1. t.unanswered \in Nat /\ u.unanswered <= t.unanswered
    BY <1>2, <1>3 DEF Ends
  <2>2. QED
    BY <2>1, <1>1, <1>2, <1>3, BaseLike
 <1> HIDE DEF u
 <1>5. Shuts(u, r) /\ r.closed /\ r.out = <<>>
   BY <1>3, StreamCloseIs
 <1> HIDE DEF r
 <1>6. Sound("server", r)
  <2>1. r.attached = u.attached /\ r.told = u.told /\ r.at = "idle"
    BY <1>3, <1>5 DEF Shuts
  <2>2. ~u.closed => r.callback = TRUE
    BY <1>5 DEF Shuts
  <2>3. t.told \in 0..1
    BY <1>2 DEF Ends
  <2>4. QED
    BY <2>1, <2>2, <2>3, <1>2, <1>3, <1>5 DEF Sound
 <1>7. Outcome("server", r)
   BY <1>1, <1>4, <1>5, <1>6, BaseOutcome DEF Says
 <1>8. We!Becomes("server", r) /\ connect' = "error" /\ UNCHANGED We!settings
       /\ UNCHANGED <<readqueue, reading, read>>
   BY DEF We!Refuse, r, u, t, We!settings
 <1>9. QED
   BY <1>1, <1>7, <1>8, QuietStep

LEMMA AcceptKeeps == ASSUME SocketInv, We!Accept PROVE SocketInv'
 <1> DEFINE t == wWe["server"]
            b == "server" \in pingers
            r == [t EXCEPT !.at = "opening", !.attached = TRUE, !.pinging = b]
 <1>1. EndsInv /\ "server" \in We!Side
   BY DEF SocketInv, We!Side
 <1>2. t \in Ends /\ t.out = <<>> /\ Sound("server", t) /\ t.at = "get" /\ Outcome("server", t)
   BY <1>1, EndAt, OutcomeAt DEF We!Accept
 <1>8. b \in BOOLEAN
   OBVIOUS
 <1> HIDE DEF t, b
 <1>3. /\ r \in Ends /\ r.out = t.out /\ r.attached = TRUE /\ r.told = t.told
       /\ r.closed = t.closed /\ r.callback = t.callback /\ r.at = "opening"
       /\ r.sent = t.sent /\ r.pings = t.pings /\ r.unanswered = t.unanswered
       /\ r.inbox = t.inbox /\ r.got = t.got /\ r.clientTerm = t.clientTerm
       /\ r.fragmented = t.fragmented /\ r.serverTerm = t.serverTerm /\ r.waiting = t.waiting
   BY <1>2, <1>8 DEF Ends, Stops
 <1> HIDE DEF r
 <1>4. Sound("server", r)
   BY <1>2, <1>3 DEF Sound, Ends
 <1>5. Outcome("server", r)
   BY <1>1, <1>2, <1>3, <1>4, OutcomeLike
 <1>6. We!Becomes("server", r) /\ UNCHANGED We!settings /\ UNCHANGED We!clientVars
   BY DEF We!Accept, r, t, b
 <1>7. QED
   BY <1>1, <1>5, <1>6, QuietStep, ClientUnchanged

LEMMA ConnectedKeeps == ASSUME SocketInv, We!Connected PROVE SocketInv'
 <1> DEFINE t == wWe["client"]
            b == "client" \in pingers
            r == [t EXCEPT !.at = "read", !.attached = TRUE, !.pinging = b]
 <1>1. EndsInv /\ "client" \in We!Side
   BY DEF SocketInv, We!Side
 <1>2. /\ t \in Ends /\ t.out = <<>> /\ Sound("client", t) /\ ~t.closed /\ Outcome("client", t)
   BY <1>1, EndAt, OutcomeAt DEF We!Connected
 <1>9. b \in BOOLEAN
   OBVIOUS
 <1> HIDE DEF t, b
 <1>3. /\ r \in Ends /\ r.out = t.out /\ r.attached = TRUE /\ r.told = t.told
       /\ r.closed = t.closed /\ r.callback = t.callback /\ r.at = "read"
       /\ r.sent = t.sent /\ r.pings = t.pings /\ r.unanswered = t.unanswered
       /\ r.inbox = t.inbox /\ r.got = t.got /\ r.clientTerm = t.clientTerm
       /\ r.fragmented = t.fragmented /\ r.serverTerm = t.serverTerm /\ r.waiting = t.waiting
   BY <1>2, <1>9 DEF Ends, Stops
 <1> HIDE DEF r
 <1>4. Sound("client", r)
   BY <1>2, <1>3 DEF Sound, Ends
 <1>5. Outcome("client", r)
   BY <1>1, <1>2, <1>3, <1>4, OutcomeLike
 <1>6. /\ We!Becomes("client", r) /\ UNCHANGED We!settings /\ UNCHANGED <<readqueue, reading, read>>
       /\ connect' = "open"
   BY DEF We!Connected, r, t, b, We!settings
 <1>7. r.got = wWe["client"].got /\ r.told = wWe["client"].told
   BY <1>3 DEF t
 <1>8. QED
   BY <1>1, <1>5, <1>6, <1>7, QuietStep

(* The stream closes, or the protocol does, in one of its ways.            *)
LEMMA ShutsKeeps ==
  ASSUME SocketInv, NEW p \in We!Side, NEW r, Shuts(wWe[p], r), Says(wWe[p], r), Sound(p, r),
         We!Becomes(p, r), UNCHANGED We!settings, UNCHANGED We!clientVars
  PROVE  SocketInv'
 <1>1. EndsInv /\ r.got = wWe[p].got /\ r.told = wWe[p].told
   BY DEF SocketInv, Shuts
 <1>2. Outcome(p, r)
   BY <1>1, BaseAt, BaseOutcome
 <1>3. QED
   BY <1>1, <1>2, QuietStep, ClientUnchanged

LEMMA SoundStreamClose ==
  ASSUME NEW p, NEW t \in Ends, Sound(p, t), t.at # "get", NEW r, Shuts(t, r), r.closed,
         r.clientTerm \in BOOLEAN
  PROVE  Sound(p, r)
 <1>1. /\ r.attached = t.attached /\ r.told = t.told /\ r.byApp = t.byApp
       /\ t.closed => r.callback = t.callback
       /\ r.at = t.at \/ (t.at = "read" /\ r.at = "idle")
       /\ t.clientTerm => r.clientTerm
   BY DEF Shuts
 <1>2. ~t.closed => r.callback = TRUE
   BY DEF Shuts
 <1>3. t.told \in 0..1
   BY DEF Ends
 <1>4. QED
   BY <1>1, <1>2, <1>3 DEF Sound

LEMMA BreakKeeps == ASSUME SocketInv, NEW p \in We!Side, We!Break(p) PROVE SocketInv'
 <1>1. PICK keep \in We!Keeps : We!Becomes(p, We!StreamClose(wWe[p], keep))
   BY DEF We!Break
 <1> DEFINE r == We!StreamClose(wWe[p], keep)
 <1>2. wWe[p] \in Ends /\ wWe[p].out = <<>> /\ Sound(p, wWe[p]) /\ wWe[p].at # "get"
   BY EndAt DEF We!Break, SocketInv
 <1>3. Shuts(wWe[p], r) /\ r.closed /\ r.out = <<>>
   BY <1>2, StreamCloseIs DEF We!Keeps
 <1>4. Sound(p, r)
   BY <1>2, <1>3, SoundStreamClose DEF Shuts, Ends
 <1>5. UNCHANGED We!settings /\ UNCHANGED We!clientVars
   BY DEF We!Break
 <1>6. QED
   BY <1>1, <1>3, <1>4, <1>5, ShutsKeeps DEF Says

LEMMA EndOfStreamKeeps == ASSUME SocketInv, NEW p \in We!Side, We!EndOfStream(p) PROVE SocketInv'
 <1> DEFINE r == We!StreamClose(wWe[p], 0)
 <1>1. wWe[p] \in Ends /\ wWe[p].out = <<>> /\ Sound(p, wWe[p]) /\ wWe[p].at # "get"
   BY EndAt DEF We!EndOfStream, SocketInv
 <1>2. Shuts(wWe[p], r) /\ r.closed /\ r.out = <<>>
   BY <1>1, StreamCloseIs
 <1>3. Sound(p, r)
   BY <1>1, <1>2, SoundStreamClose DEF Shuts, Ends
 <1>4. UNCHANGED We!settings /\ UNCHANGED We!clientVars /\ We!Becomes(p, r)
   BY DEF We!EndOfStream
 <1>5. QED
   BY <1>2, <1>3, <1>4, ShutsKeeps DEF Says

LEMMA WaitingTimeoutKeeps == ASSUME SocketInv, NEW p \in We!Side, We!WaitingTimeout(p) PROVE SocketInv'
 <1>1. PICK keep \in We!Keeps : We!Becomes(p, We!Abort(wWe[p], keep))
   BY DEF We!WaitingTimeout
 <1> DEFINE r == We!Abort(wWe[p], keep)
 <1>2. wWe[p] \in Ends /\ wWe[p].out = <<>> /\ Sound(p, wWe[p]) /\ wWe[p].at # "get"
   BY EndAt DEF We!WaitingTimeout, SocketInv, Sound
 <1>3. Shuts(wWe[p], r) /\ r.closed /\ r.out = <<>>
   BY <1>2, AbortIs DEF We!Keeps
 <1>4. Sound(p, r)
   BY <1>2, <1>3, SoundStreamClose DEF Shuts, Ends
 <1>5. UNCHANGED We!settings /\ UNCHANGED We!clientVars
   BY DEF We!WaitingTimeout
 <1>6. QED
   BY <1>1, <1>3, <1>4, <1>5, ShutsKeeps DEF Says

(* open() or close() of the protocol, which leaves the timer or a closed   *)
(* stream.                                                                 *)
LEMMA SoundClose ==
  ASSUME NEW p, NEW t \in Ends, Sound(p, t), t.at # "get", NEW r, Shuts(t, r), r.closed \/ r.waiting,
         r.clientTerm = t.clientTerm
  PROVE  Sound(p, r)
 <1>1. /\ r.attached = t.attached /\ r.told = t.told /\ r.byApp = t.byApp
       /\ t.closed => r.closed /\ r.callback = t.callback
       /\ r.at = t.at \/ (t.at = "read" /\ r.at = "idle")
   BY DEF Shuts
 <1>2. ~t.closed => r.callback = IF r.closed THEN TRUE ELSE t.callback
   BY DEF Shuts
 <1>3. t.told \in 0..1 /\ t.closed \in BOOLEAN /\ t.callback \in BOOLEAN /\ t.clientTerm \in BOOLEAN
       /\ r.serverTerm \in BOOLEAN
   BY DEF Ends, Shuts
 <1>4. CASE r.closed
   BY <1>3, <1>4, SoundStreamClose
 <1>5. CASE ~r.closed
  <2>1. ~t.closed /\ ~t.callback /\ t.told = 0 /\ ~t.clientTerm
    BY <1>1, <1>3, <1>5 DEF Sound
  <2>2. r.callback = t.callback
    BY <1>2, <1>5, <2>1
  <2>3. r.at = t.at
    BY <1>5 DEF Shuts
  <2>4. QED
    BY <1>1, <1>5, <2>1, <2>2, <2>3 DEF Sound
 <1>6. QED
   BY <1>4, <1>5

LEMMA CloseByAppKeeps == ASSUME SocketInv, NEW p \in We!Side, We!CloseByApp(p) PROVE SocketInv'
 <1>1. PICK keep \in We!Keeps :
         We!Becomes(p, [We!Close(wWe[p], keep) EXCEPT !.attached = FALSE, !.byApp = TRUE])
   BY DEF We!CloseByApp
 <1> DEFINE t == wWe[p]
            r == We!Close(t, keep)
            s == [r EXCEPT !.attached = FALSE, !.byApp = TRUE]
 <1>2. EndsInv /\ t \in Ends /\ t.out = <<>> /\ Sound(p, t) /\ t.attached /\ Base(p, t)
   BY EndAt, BaseAt DEF We!CloseByApp, SocketInv
 <1>3. Shuts(t, r) /\ (r.closed \/ r.waiting) /\ r.clientTerm = t.clientTerm /\ Says(t, r)
   BY <1>2, CloseIs DEF We!Keeps
 <1>4. t.at # "get"
   BY <1>2 DEF Sound
 <1>5. Sound(p, r)
   BY <1>2, <1>3, <1>4, SoundClose
 <1>6. Outcome(p, r)
   BY <1>2, <1>3, <1>5, BaseOutcome
 <1>7. r \in Ends /\ r.got = t.got /\ r.told = t.told /\ r.at # "get"
   BY <1>3, <1>4 DEF Shuts
 <1>8. UNCHANGED We!settings /\ UNCHANGED We!clientVars
   BY DEF We!CloseByApp
 <1>9. We!Becomes(p, s)
   BY <1>1
 <1> HIDE DEF r
 <1>10. /\ s \in Ends /\ s.out = r.out /\ s.told = r.told /\ s.closed = r.closed
        /\ s.callback = r.callback /\ s.at = r.at /\ s.attached = FALSE /\ s.byApp = TRUE
        /\ s.sent = r.sent /\ s.pings = r.pings /\ s.unanswered = r.unanswered
        /\ s.inbox = r.inbox /\ s.got = r.got /\ s.clientTerm = r.clientTerm
        /\ s.fragmented = r.fragmented /\ s.serverTerm = r.serverTerm /\ s.waiting = r.waiting
   BY <1>7 DEF Ends
 <1> HIDE DEF s
 <1>11. Sound(p, s)
   BY <1>5, <1>7, <1>10 DEF Sound
 <1>12. Outcome(p, s)
   BY <1>2, <1>6, <1>10, <1>11, OutcomeLike
 <1>13. s.got = wWe[p].got /\ s.told = wWe[p].told
   BY <1>7, <1>10
 <1>14. QED
   BY <1>8, <1>9, <1>12, <1>13, QuietStep, ClientUnchanged

(* A frame is written and counted, n as a message and m as a ping.         *)
Written(t, f, n, m) ==
  [t EXCEPT !.out = <<f>>, !.sent = t.sent + n, !.pings = t.pings + m,
            !.unanswered = t.unanswered + m]

Fits(t, f, n) ==
  /\ f.type \in {"message", "close", "ping", "pong"}
  /\ n = IF f.type = "message" THEN 1 ELSE 0
  /\ f.type \in {"message", "close"} => f.n = t.sent + n

LEMMA WrittenIs ==
  ASSUME EndsInv, NEW p \in We!Side, ~wWe[p].closed, NEW f \in Frames, NEW n \in 0..1, NEW m \in 0..1,
         wWe[p].sent + wWe[p].pings + n + m <= MaxFramesWe[pingers][p],
         ~foreign => Fits(wWe[p], f, n)
  PROVE  LET s == Written(wWe[p], f, n, m) IN
         Outcome(p, s) /\ s.got = wWe[p].got /\ s.told = wWe[p].told
 <1> DEFINE t == wWe[p]
            s == Written(t, f, n, m)
 <1>1. /\ t \in Ends /\ Sound(p, t) /\ Within(t, MaxFramesWe[pingers][p])
       /\ ~foreign => Line(t, wWe[We!Other(p)].sent)
   BY EndAt
 <1>2. /\ t.sent \in Nat /\ t.pings \in Nat /\ t.unanswered \in Nat
       /\ t.sent + n \in Nat /\ t.pings + m \in Nat /\ t.unanswered + m \in Nat
       /\ t.unanswered + m <= t.pings + m
       /\ (t.sent + n) + (t.pings + m) = t.sent + t.pings + n + m
  <2>1. t.sent \in Nat /\ t.pings \in Nat /\ t.unanswered \in Nat /\ t.unanswered <= t.pings
    BY <1>1 DEF Ends, Within
  <2> HIDE DEF t
  <2>2. QED
    BY <2>1
 <1> DEFINE sent == t.sent + n
            pings == t.pings + m
            unanswered == t.unanswered + m
 <1>3. <<f>> \in Seq(Frames)
   OBVIOUS
 <1>4. s = [t EXCEPT !.out = <<f>>, !.sent = sent, !.pings = pings, !.unanswered = unanswered]
   BY DEF Written
 <1>5. sent \in Nat /\ pings \in Nat /\ unanswered \in Nat
   BY <1>2
 <1>6. unanswered <= pings /\ sent + pings <= MaxFramesWe[pingers][p]
   BY <1>2
 <1>7. sent = t.sent + n
   OBVIOUS
 <1> HIDE DEF t, sent, pings, unanswered, s
 <1>8. /\ s \in Ends /\ s.out = <<f>> /\ s.told = t.told /\ s.closed = t.closed
       /\ s.callback = t.callback /\ s.at = t.at /\ s.attached = t.attached /\ s.byApp = t.byApp
       /\ s.sent = sent /\ s.pings = pings /\ s.unanswered = unanswered
       /\ s.inbox = t.inbox /\ s.got = t.got /\ s.clientTerm = t.clientTerm
       /\ s.fragmented = t.fragmented /\ s.serverTerm = t.serverTerm /\ s.waiting = t.waiting
       /\ s.pinging = t.pinging
   BY <1>1, <1>3, <1>4, <1>5 DEF Ends
 <1>9. Sound(p, s)
   BY <1>1, <1>8 DEF Sound
 <1>10. Within(s, MaxFramesWe[pingers][p])
   BY <1>6, <1>8 DEF Within
 <1>11. ASSUME ~foreign PROVE Speech(t, s) /\ Line(s, wWe[We!Other(p)].sent)
  <2>1. f.type = "message" => n = 1
    BY <1>11 DEF Fits
  <2>2. f.type # "message" => n = 0
    BY <1>11 DEF Fits
  <2>3. s.sent = IF f.type = "message" THEN t.sent + 1 ELSE t.sent
   <3>1. t.sent \in Nat
     BY <1>1 DEF Ends
   <3>2. QED
     BY <2>1, <2>2, <3>1, <1>7, <1>8
  <2>4. f.type \in {"message", "close"} => f.n = s.sent
    BY <1>11, <1>7, <1>8 DEF t, Fits
  <2>5. Line(s, wWe[We!Other(p)].sent)
    BY <1>1, <1>8, <1>11 DEF Line
  <2>6. QED
    BY <2>3, <2>4, <2>5, <1>8, <1>11 DEF Speech, Fits
 <1>12. Outcome(p, s) /\ s.got = wWe[p].got /\ s.told = wWe[p].told
   BY <1>8, <1>9, <1>10, <1>11 DEF Outcome, t
 <1>13. QED
   BY <1>12 DEF s, t

LEMMA WrittenKeeps ==
  ASSUME SocketInv, NEW p \in We!Side, NEW s, Outcome(p, s), s.got = wWe[p].got, s.told = wWe[p].told,
         We!Becomes(p, s), UNCHANGED We!settings, UNCHANGED We!clientVars
  PROVE  SocketInv'
  BY QuietStep, ClientUnchanged

LEMMA RoomFor ==
  ASSUME PingBounds, EndsInv, NEW p \in We!Side, We!Room(p)
  PROVE  wWe[p].sent + wWe[p].pings + 1 <= MaxFramesWe[pingers][p]
         /\ wWe[p].sent \in Nat /\ wWe[p].pings \in Nat /\ wWe[p].unanswered \in Nat
 <1>1. MaxFramesWe[pingers] \in [We!Side -> Nat] /\ wWe[p] \in Ends
   BY EndAt DEF PingBounds
 <1>2. MaxFramesWe[pingers][p] \in Nat /\ wWe[p].sent \in Nat /\ wWe[p].pings \in Nat /\ wWe[p].unanswered \in Nat
   BY <1>1 DEF Ends
 <1>3. QED
   BY <1>2 DEF We!Room

LEMMA WriteMessageKeeps ==
  ASSUME PingBounds, SocketInv, NEW p \in We!Side, We!WriteMessage(p) PROVE SocketInv'
 <1> DEFINE t == wWe[p]
            f == We!Frame("message", t.sent + 1)
            s == Written(t, f, 1, 0)
 <1>1. EndsInv /\ t \in Ends /\ t.out = <<>> /\ ~t.closed /\ We!Room(p)
   BY EndAt DEF We!WriteMessage, SocketInv
 <1>2. /\ t.sent + t.pings + 1 <= MaxFramesWe[pingers][p]
       /\ t.sent \in Nat /\ t.pings \in Nat /\ t.unanswered \in Nat
   BY <1>1, RoomFor
 <1>3. t.sent + t.pings + 1 + 0 <= MaxFramesWe[pingers][p] /\ t.pings + 0 = t.pings
       /\ t.unanswered + 0 = t.unanswered /\ t.sent + 1 \in Nat
   BY <1>2
 <1>4. f \in Frames /\ f.type = "message" /\ f.n = t.sent + 1
   BY <1>3 DEF Frames, We!Frame, FrameTypes
 <1>9. 0 \in 0..1 /\ 1 \in 0..1 /\ Fits(wWe[p], f, 1)
   BY <1>4 DEF Fits
 <1> HIDE DEF f
 <1>5. Outcome(p, s) /\ s.got = t.got /\ s.told = t.told
   BY <1>1, <1>3, <1>4, <1>9, WrittenIs
 <1>6. s = [We!WriteFrame(t, f) EXCEPT !.sent = @ + 1]
  <2>1. Append(<<>>, f) = <<f>>
    OBVIOUS
  <2>2. We!WriteFrame(t, f) = [t EXCEPT !.out = <<f>>]
    BY <2>1, <1>1 DEF We!WriteFrame
  <2>3. QED
    BY <2>2, <1>1, <1>3 DEF Ends, Written
 <1>7. We!Becomes(p, s) /\ UNCHANGED We!settings /\ UNCHANGED We!clientVars
   BY <1>6 DEF We!WriteMessage, f
 <1>8. QED
   BY <1>5, <1>7, WrittenKeeps

LEMMA ForeignFrameKeeps == ASSUME PingBounds, SocketInv, We!ForeignFrame PROVE SocketInv'
 <1>1. PICK type \in We!ForeignTypes :
         We!Becomes("client", [We!WriteFrame(wWe["client"], We!Frame(type, 0)) EXCEPT !.sent = @ + 1])
   BY DEF We!ForeignFrame
 <1> DEFINE t == wWe["client"]
            f == We!Frame(type, 0)
            s == Written(t, f, 1, 0)
 <1>2. EndsInv /\ "client" \in We!Side
   BY DEF SocketInv, We!Side
 <1>3. t \in Ends /\ t.out = <<>> /\ ~t.closed /\ We!Room("client") /\ foreign
   BY <1>2, EndAt DEF We!ForeignFrame
 <1>4. /\ t.sent + t.pings + 1 <= MaxFramesWe[pingers]["client"]
       /\ t.sent \in Nat /\ t.pings \in Nat /\ t.unanswered \in Nat
   BY <1>2, <1>3, RoomFor
 <1>5. t.sent + t.pings + 1 + 0 <= MaxFramesWe[pingers]["client"] /\ t.pings + 0 = t.pings
       /\ t.unanswered + 0 = t.unanswered /\ t.sent + 1 \in Nat
   BY <1>4
 <1>6. f \in Frames
   BY DEF Frames, We!Frame, FrameTypes, We!ForeignTypes
 <1>11. 0 \in 0..1 /\ 1 \in 0..1
   OBVIOUS
 <1> HIDE DEF f
 <1>7. Outcome("client", s) /\ s.got = t.got /\ s.told = t.told
   BY <1>2, <1>3, <1>5, <1>6, <1>11, WrittenIs
 <1>8. s = [We!WriteFrame(t, f) EXCEPT !.sent = @ + 1]
  <2>1. Append(<<>>, f) = <<f>>
    OBVIOUS
  <2>2. We!WriteFrame(t, f) = [t EXCEPT !.out = <<f>>]
    BY <2>1, <1>3 DEF We!WriteFrame
  <2>3. QED
    BY <2>2, <1>3, <1>5 DEF Ends, Written
 <1>9. We!Becomes("client", s) /\ UNCHANGED We!settings /\ UNCHANGED We!clientVars
   BY <1>1, <1>8 DEF We!ForeignFrame, f
 <1>10. QED
   BY <1>2, <1>7, <1>9, WrittenKeeps

LEMMA PeriodicPingKeeps ==
  ASSUME PingBounds, SocketInv, NEW p \in We!Side, We!PeriodicPing(p) PROVE SocketInv'
 <1> DEFINE t == wWe[p]
 <1>1. EndsInv /\ t \in Ends /\ t.out = <<>> /\ Sound(p, t) /\ Outcome(p, t) /\ t.pinging
   BY EndAt, OutcomeAt DEF We!PeriodicPing, SocketInv
 <1>2. UNCHANGED We!settings /\ UNCHANGED We!clientVars /\ t.at # "get"
   BY <1>1 DEF We!PeriodicPing, Sound
 <1>3. CASE t.closed /\ We!Becomes(p, [t EXCEPT !.pinging = FALSE])
  <2> DEFINE s == [t EXCEPT !.pinging = FALSE]
  <2> HIDE DEF t
  <2>1. /\ s \in Ends /\ s.out = t.out /\ s.told = t.told /\ s.closed = t.closed
        /\ s.callback = t.callback /\ s.at = t.at /\ s.attached = t.attached /\ s.byApp = t.byApp
        /\ s.sent = t.sent /\ s.pings = t.pings /\ s.unanswered = t.unanswered
        /\ s.inbox = t.inbox /\ s.got = t.got /\ s.clientTerm = t.clientTerm
        /\ s.fragmented = t.fragmented /\ s.serverTerm = t.serverTerm /\ s.waiting = t.waiting
        /\ s.pinging = FALSE
    BY <1>1 DEF Ends
  <2>2. We!Becomes(p, s)
    BY <1>3
  <2> HIDE DEF s
  <2>3. Sound(p, s)
    BY <1>1, <2>1 DEF Sound
  <2>4. Outcome(p, s)
    BY <1>1, <2>1, <2>3, OutcomeLike
  <2>5. s.got = wWe[p].got /\ s.told = wWe[p].told
    BY <2>1 DEF t
  <2>6. QED
    BY <1>2, <2>2, <2>4, <2>5, WrittenKeeps
 <1>4. ASSUME NEW keep \in We!Keeps, We!Becomes(p, We!Close(t, keep)) PROVE SocketInv'
  <2> DEFINE r == We!Close(t, keep)
  <2>1. Shuts(t, r) /\ (r.closed \/ r.waiting) /\ r.clientTerm = t.clientTerm /\ Says(t, r)
    BY <1>1, CloseIs DEF We!Keeps
  <2>2. Sound(p, r)
    BY <1>1, <1>2, <2>1, SoundClose
  <2>3. QED
    BY <1>2, <1>4, <2>1, <2>2, ShutsKeeps
 <1>5. CASE /\ ~t.closed /\ We!Room(p)
            /\ We!Becomes(p, [We!WriteFrame(t, We!Frame("ping", 0)) EXCEPT !.pings = @ + 1, !.unanswered = @ + 1])
  <2> DEFINE f == We!Frame("ping", 0)
             s == Written(t, f, 0, 1)
  <2>1. /\ t.sent + t.pings + 1 <= MaxFramesWe[pingers][p]
        /\ t.sent \in Nat /\ t.pings \in Nat /\ t.unanswered \in Nat
    BY <1>1, <1>5, RoomFor
  <2>2. t.sent + t.pings + 0 + 1 <= MaxFramesWe[pingers][p] /\ t.sent + 0 = t.sent
    BY <2>1
  <2>3. f \in Frames /\ f.type = "ping"
    BY DEF Frames, We!Frame, FrameTypes
  <2>8. 0 \in 0..1 /\ 1 \in 0..1 /\ Fits(wWe[p], f, 0)
    BY <2>3 DEF Fits
  <2> HIDE DEF f
  <2>4. Outcome(p, s) /\ s.got = t.got /\ s.told = t.told
    BY <1>1, <1>5, <2>2, <2>3, <2>8, WrittenIs
  <2>5. s = [We!WriteFrame(t, f) EXCEPT !.pings = @ + 1, !.unanswered = @ + 1]
   <3>1. Append(<<>>, f) = <<f>>
     OBVIOUS
   <3>2. We!WriteFrame(t, f) = [t EXCEPT !.out = <<f>>]
     BY <3>1, <1>1, <1>5 DEF We!WriteFrame
   <3>3. QED
     BY <3>2, <1>1, <2>2 DEF Ends, Written
  <2>6. We!Becomes(p, s)
    BY <1>5, <2>5 DEF f
  <2>7. QED
    BY <1>2, <2>4, <2>6, WrittenKeeps
 <1>6. QED
   BY <1>3, <1>4, <1>5 DEF We!PeriodicPing

-----------------------------------------------------------------------------
(* Frames                                                                  *)

(* The end t at another place.                                             *)
At(t, x) == [t EXCEPT !.at = x]

LEMMA AtIs ==
  ASSUME NEW t \in Ends, NEW x \in Stops
  PROVE  LET u == At(t, x) IN
         /\ u \in Ends /\ u.out = t.out /\ u.told = t.told /\ u.closed = t.closed
         /\ u.callback = t.callback /\ u.at = x /\ u.attached = t.attached /\ u.byApp = t.byApp
         /\ u.sent = t.sent /\ u.pings = t.pings /\ u.unanswered = t.unanswered
         /\ u.inbox = t.inbox /\ u.got = t.got /\ u.clientTerm = t.clientTerm
         /\ u.fragmented = t.fragmented /\ u.serverTerm = t.serverTerm /\ u.waiting = t.waiting
         /\ u.pinging = t.pinging
  BY DEF At, Ends

LEMMA BaseAnywhere ==
  ASSUME EndsInv, NEW p \in We!Side, NEW t, Base(p, t), NEW x \in Stops
  PROVE  Base(p, At(t, x))
 <1>1. t \in Ends /\ t.out = <<>>
   BY DEF Base
 <1> DEFINE u == At(t, x)
 <1>2. /\ u \in Ends /\ u.out = t.out /\ u.closed = t.closed
       /\ u.sent = t.sent /\ u.pings = t.pings /\ u.unanswered = t.unanswered
       /\ u.inbox = t.inbox /\ u.got = t.got /\ u.clientTerm = t.clientTerm
       /\ u.fragmented = t.fragmented
   BY <1>1, AtIs
 <1>3. t.unanswered \in Nat
   BY <1>1 DEF Ends
 <1> HIDE DEF u
 <1>4. u.unanswered <= t.unanswered
   BY <1>2, <1>3
 <1>5. Base(p, u)
   BY <1>1, <1>2, <1>4, BaseLike
 <1>6. QED
   BY <1>5 DEF u

(* Half of an end's truth, where it does not matter whether it reads.      *)
Steady(p, t) ==
  /\ t.closed => t.callback \/ t.told = 1
  /\ t.callback => t.closed /\ t.told = 0
  /\ t.told = 1 => t.closed
  /\ t.serverTerm => t.closed \/ t.waiting
  /\ p = "server" => /\ t.told = 1 => ~t.attached
                     /\ ~t.attached => t.byApp \/ t.clientTerm
  /\ p = "client" => t.told = 0

Ready(p, t) == Steady(p, t) /\ (t.clientTerm => t.closed)

(* The end that reads on, or ends with its stream.                         *)
Reads(p, t, r) ==
  /\ Outcome(p, r) /\ r.got = t.got /\ r.told = t.told /\ r.at # "handle"

LEMMA ReceiveFrameReads ==
  ASSUME EndsInv, NEW p \in We!Side, NEW t, Base(p, t), Ready(p, t), NEW keep \in Nat
  PROVE  Reads(p, t, We!ReceiveFrame(t, keep))
 <1> DEFINE r == We!ReceiveFrame(t, keep)
 <1>1. t \in Ends /\ t.out = <<>>
   BY DEF Base
 <1>2. "idle" \in Stops /\ "read" \in Stops
   BY DEF Stops
 <1>3. CASE t.closed /\ t.inbox = <<>>
  <2> DEFINE u == At(t, "idle")
  <2>1. /\ u \in Ends /\ u.out = <<>> /\ u.told = t.told /\ u.closed = t.closed
        /\ u.callback = t.callback /\ u.at = "idle" /\ u.attached = t.attached /\ u.byApp = t.byApp
        /\ u.got = t.got /\ u.clientTerm = t.clientTerm
        /\ Base(p, u)
    BY <1>1, <1>2, AtIs, BaseAnywhere
  <2>2. r = We!Abort(u, keep)
    BY <1>3 DEF We!ReceiveFrame, At
  <2> HIDE DEF u, r
  <2>3. Shuts(u, r) /\ r.closed /\ r.clientTerm /\ r.out = <<>>
    BY <2>1, <2>2, AbortIs
  <2>4. /\ r.attached = u.attached /\ r.told = u.told /\ r.got = u.got /\ r.at = "idle"
        /\ r.callback = u.callback
    BY <2>1, <2>3, <1>3 DEF Shuts
  <2>5. Sound(p, r)
    BY <2>1, <2>3, <2>4, <1>3 DEF Sound, Ready, Steady
  <2>6. Outcome(p, r)
    BY <2>1, <2>3, <2>5, BaseOutcome DEF Says
  <2>7. QED
    BY <2>1, <2>4, <2>6 DEF Reads, r
 <1>4. CASE ~(t.closed /\ t.inbox = <<>>)
  <2> DEFINE u == At(t, "read")
  <2>1. /\ u \in Ends /\ u.out = <<>> /\ u.told = t.told /\ u.closed = t.closed
        /\ u.callback = t.callback /\ u.at = "read" /\ u.attached = t.attached /\ u.byApp = t.byApp
        /\ u.got = t.got /\ u.clientTerm = t.clientTerm /\ u.serverTerm = t.serverTerm
        /\ u.waiting = t.waiting /\ Base(p, u)
    BY <1>1, <1>2, AtIs, BaseAnywhere
  <2>2. r = u
    BY <1>4 DEF We!ReceiveFrame, At
  <2> HIDE DEF u
  <2>3. Sound(p, u)
    BY <2>1 DEF Sound, Ready, Steady
  <2>4. Outcome(p, u)
    BY <2>1, <2>3, ShutsItself, BaseOutcome DEF Says
  <2>5. QED
    BY <2>1, <2>2, <2>4 DEF Reads
 <1>5. QED
   BY <1>3, <1>4

(* What stops to read although nobody closed.                              *)
LEMMA IdleReads ==
  ASSUME EndsInv, NEW p \in We!Side, NEW t, Base(p, t), Ready(p, t), t.clientTerm
  PROVE  Reads(p, t, At(t, "idle"))
 <1>1. t \in Ends /\ t.out = <<>> /\ "idle" \in Stops
   BY DEF Base, Stops
 <1> DEFINE u == At(t, "idle")
 <1>2. /\ u \in Ends /\ u.out = <<>> /\ u.told = t.told /\ u.closed = t.closed
       /\ u.callback = t.callback /\ u.at = "idle" /\ u.attached = t.attached /\ u.byApp = t.byApp
       /\ u.got = t.got /\ u.clientTerm = t.clientTerm /\ u.serverTerm = t.serverTerm
       /\ u.waiting = t.waiting /\ Base(p, u)
   BY <1>1, AtIs, BaseAnywhere
 <1> HIDE DEF u
 <1>3. Sound(p, u)
   BY <1>2 DEF Sound, Ready, Steady
 <1>4. Outcome(p, u)
   BY <1>2, <1>3, ShutsItself, BaseOutcome DEF Says
 <1>5. QED
   BY <1>2, <1>4 DEF Reads, u

LEMMA ReceiveUnlessTerminatedReads ==
  ASSUME EndsInv, NEW p \in We!Side, NEW t, Base(p, t), Ready(p, t), NEW keep \in Nat
  PROVE  Reads(p, t, We!ReceiveUnlessTerminated(t, keep))
 <1>1. CASE t.clientTerm
   BY <1>1, IdleReads DEF We!ReceiveUnlessTerminated, At
 <1>2. CASE ~t.clientTerm
   BY <1>2, ReceiveFrameReads DEF We!ReceiveUnlessTerminated
 <1>3. QED
   BY <1>1, <1>2

LEMMA AbortReads ==
  ASSUME EndsInv, NEW p \in We!Side, NEW t, Base(p, t), Ready(p, t), NEW keep \in Nat
  PROVE  Reads(p, t, We!Abort(At(t, "idle"), keep))
 <1>1. t \in Ends /\ t.out = <<>> /\ "idle" \in Stops
   BY DEF Base, Stops
 <1> DEFINE u == At(t, "idle")
            r == We!Abort(u, keep)
 <1>2. /\ u \in Ends /\ u.out = <<>> /\ u.told = t.told /\ u.closed = t.closed
       /\ u.callback = t.callback /\ u.at = "idle" /\ u.attached = t.attached /\ u.byApp = t.byApp
       /\ u.got = t.got /\ Base(p, u)
   BY <1>1, AtIs, BaseAnywhere
 <1> HIDE DEF u
 <1>3. Shuts(u, r) /\ r.closed /\ r.clientTerm /\ r.out = <<>>
   BY <1>2, AbortIs
 <1> HIDE DEF r
 <1>4. /\ r.attached = u.attached /\ r.told = u.told /\ r.got = u.got /\ r.at = "idle"
       /\ u.closed => r.callback = u.callback
   BY <1>2, <1>3 DEF Shuts
 <1>5. ~u.closed => r.callback = TRUE
   BY <1>3 DEF Shuts
 <1>6. t.told \in 0..1
   BY <1>1 DEF Ends
 <1>7. Sound(p, r)
   BY <1>2, <1>3, <1>4, <1>5, <1>6 DEF Sound, Ready, Steady
 <1>8. Outcome(p, r)
   BY <1>2, <1>3, <1>7, BaseOutcome DEF Says
 <1>9. QED
   BY <1>2, <1>4, <1>8 DEF Reads, r, u

LEMMA CloseReads ==
  ASSUME EndsInv, NEW p \in We!Side, NEW t, Base(p, t), Steady(p, t), t.at = "idle", NEW keep \in Nat
  PROVE  Reads(p, t, We!Close(t, keep))
 <1> DEFINE r == We!Close(t, keep)
 <1>1. t \in Ends /\ t.out = <<>>
   BY DEF Base
 <1>2. Shuts(t, r) /\ r.clientTerm = t.clientTerm /\ (r.closed \/ r.waiting) /\ Says(t, r)
       /\ (t.clientTerm => r.closed)
   BY <1>1, CloseIs
 <1> HIDE DEF r
 <1>3. /\ r.attached = t.attached /\ r.told = t.told /\ r.got = t.got /\ r.at = "idle"
       /\ r.byApp = t.byApp
       /\ t.closed => r.closed /\ r.callback = t.callback
   BY <1>2 DEF Shuts
 <1>4. ~t.closed => r.callback = IF r.closed THEN TRUE ELSE t.callback
   BY <1>2 DEF Shuts
 <1>5. t.told \in 0..1
   BY <1>1 DEF Ends
 <1>6. CASE r.closed
  <2>1. t.closed \/ r.callback = TRUE
    BY <1>4, <1>6
  <2>2. Sound(p, r)
    BY <1>2, <1>3, <1>5, <1>6, <2>1 DEF Sound, Steady
  <2>3. Outcome(p, r)
    BY <1>2, <2>2, BaseOutcome
  <2>4. QED
    BY <1>3, <2>3 DEF Reads, r
 <1>7. CASE ~r.closed
  <2>1. ~t.closed /\ r.callback = t.callback
    BY <1>3, <1>4, <1>7
  <2>2. Sound(p, r)
    BY <1>2, <1>3, <1>5, <1>7, <2>1 DEF Sound, Steady
  <2>3. Outcome(p, r)
    BY <1>2, <2>2, BaseOutcome
  <2>4. QED
    BY <1>3, <2>3 DEF Reads, r
 <1>8. QED
   BY <1>6, <1>7

(* A message is given to the handler.                                      *)
Given(t, n) == [t EXCEPT !.got = Append(@, n), !.fragmented = FALSE]

LEMMA GivenIs ==
  ASSUME NEW t \in Ends, NEW n \in Nat
  PROVE  LET u == Given(t, n) IN
         /\ u \in Ends /\ u.out = t.out /\ u.told = t.told /\ u.closed = t.closed
         /\ u.callback = t.callback /\ u.at = t.at /\ u.attached = t.attached /\ u.byApp = t.byApp
         /\ u.sent = t.sent /\ u.pings = t.pings /\ u.unanswered = t.unanswered
         /\ u.inbox = t.inbox /\ u.got = Append(t.got, n) /\ u.clientTerm = t.clientTerm
         /\ u.fragmented = FALSE /\ u.serverTerm = t.serverTerm /\ u.waiting = t.waiting
         /\ u.pinging = t.pinging
 <1>1. Append(t.got, n) \in Seq(Nat)
   BY AppendProperties DEF Ends
 <1>2. QED
   BY <1>1 DEF Given, Ends

(* The end that has taken a frame from its buffer.                         *)
Taken(t) == [t EXCEPT !.inbox = Tail(@)]

LEMMA TakenIs ==
  ASSUME NEW t \in Ends, t.inbox # <<>>
  PROVE  LET u == Taken(t) IN
         /\ u \in Ends /\ u.out = t.out /\ u.told = t.told /\ u.closed = t.closed
         /\ u.callback = t.callback /\ u.at = t.at /\ u.attached = t.attached /\ u.byApp = t.byApp
         /\ u.sent = t.sent /\ u.pings = t.pings /\ u.unanswered = t.unanswered
         /\ u.inbox = Tail(t.inbox) /\ u.got = t.got /\ u.clientTerm = t.clientTerm
         /\ u.fragmented = t.fragmented /\ u.serverTerm = t.serverTerm /\ u.waiting = t.waiting
         /\ u.pinging = t.pinging
         /\ Head(t.inbox) \in Frames
 <1>1. Tail(t.inbox) \in Seq(Frames) /\ Head(t.inbox) \in Frames
   BY HeadTailProperties DEF Ends
 <1>2. QED
   BY <1>1 DEF Taken, Ends

LEMMA TakenLine ==
  ASSUME NEW t \in Ends, t.inbox # <<>>, NEW s, Line(t, s)
  PROVE  LET f == Head(t.inbox) IN
         /\ f.type \in {"message", "close", "ping", "pong"} /\ ~t.fragmented
         /\ (f.type # "message" \/ t.clientTerm) /\ (t.clientTerm => t.closed) =>
              Line(Taken(t), s)
         /\ f.type = "message" /\ ~t.clientTerm => f.n \in Nat /\ Line(Given(Taken(t), f.n), s)
 <1> DEFINE f == Head(t.inbox)
            u == Taken(t)
            q == Tail(t.inbox)
 <1>1. /\ u \in Ends /\ u.closed = t.closed /\ u.inbox = q /\ u.got = t.got
       /\ u.clientTerm = t.clientTerm /\ u.fragmented = t.fragmented
       /\ f \in Frames
   BY TakenIs
 <1>2. t.inbox \in Seq(Frames) /\ t.got \in Seq(Nat) /\ Len(t.got) \in Nat /\ t.clientTerm \in BOOLEAN
   BY LenProperties DEF Ends
 <1>3. /\ q \in Seq(Frames) /\ f = t.inbox[1] /\ 1 \in DOMAIN t.inbox
       /\ DOMAIN q = 1..Len(q) /\ Len(q) \in Nat
       /\ \A i \in DOMAIN q : i + 1 \in DOMAIN t.inbox /\ q[i] = t.inbox[i + 1]
   BY <1>2, EmptySeq, LenProperties, HeadTailProperties
 <1>4. \A i \in DOMAIN q : q[i].type \in {"message", "close", "ping", "pong"}
   BY <1>3 DEF Line
 <1>5. f.type \in {"message", "close", "ping", "pong"} /\ ~t.fragmented
       /\ \A i \in DOMAIN t.got : t.got[i] = i
   BY <1>3 DEF Line
 <1> DEFINE m == IF f.type = "message" THEN 1 ELSE 0
 <1>6. ASSUME ~t.clientTerm
       PROVE  /\ Numbered(q, Len(t.got) + m)
              /\ Len(t.got) + Counted(t.inbox, Len(t.inbox)) = Len(t.got) + m + Counted(q, Len(q))
              /\ f.type = "message" => f.n = Len(t.got) + m
  <2>1. Numbered(t.inbox, Len(t.got))
    BY <1>6 DEF Line
  <2>2. QED
    BY <2>1, <1>2, NumberedTail
 <1> HIDE DEF u, q, f, m
 <1>7. ASSUME f.type # "message" \/ t.clientTerm, t.clientTerm => t.closed
       PROVE  Line(u, s)
  <2>1. CASE t.clientTerm
    BY <2>1, <1>1, <1>4, <1>5, <1>7 DEF Line
  <2>2. CASE ~t.clientTerm
   <3>1. m = 0
     BY <2>2, <1>7 DEF m
   <3>2. Counted(q, Len(q)) \in Nat
     BY <1>3, CountedNat
   <3>3. Numbered(q, Len(t.got)) /\ Len(t.got) + Counted(t.inbox, Len(t.inbox)) = Len(t.got) + Counted(q, Len(q))
     BY <2>2, <3>1, <3>2, <1>2, <1>6
   <3>4. ~t.closed => s = Len(t.got) + Counted(t.inbox, Len(t.inbox))
     BY DEF Line
   <3>5. QED
     BY <2>2, <3>3, <3>4, <1>1, <1>4, <1>5 DEF Line
  <2>3. QED
    BY <2>1, <2>2
 <1>8. ASSUME f.type = "message", ~t.clientTerm
       PROVE  f.n \in Nat /\ Line(Given(u, f.n), s)
  <2>1. m = 1
    BY <1>8 DEF m
  <2>2. f.n \in Nat /\ f.n = Len(t.got) + 1
    BY <2>1, <1>1, <1>2, <1>6, <1>8 DEF Frames
  <2> DEFINE v == Given(u, f.n)
             g == Append(t.got, f.n)
  <2>3. /\ v.closed = t.closed /\ v.inbox = q /\ v.got = g /\ v.clientTerm = t.clientTerm
        /\ v.fragmented = FALSE
   <3>1. Append(u.got, f.n) = g
     BY <1>1
   <3>2. /\ v.closed = u.closed /\ v.inbox = u.inbox /\ v.got = Append(u.got, f.n)
         /\ v.clientTerm = u.clientTerm /\ v.fragmented = FALSE
     BY <2>2, <1>1, GivenIs
   <3>3. QED
     BY <3>1, <3>2, <1>1
  <2>4. /\ Len(g) = Len(t.got) + 1 /\ DOMAIN g = 1..(Len(t.got) + 1) /\ DOMAIN t.got = 1..Len(t.got)
        /\ g[Len(t.got) + 1] = f.n
        /\ \A i \in 1..Len(t.got) : g[i] = t.got[i]
    BY <2>2, <1>2, LenProperties, AppendProperties
  <2>5. \A i \in DOMAIN g : g[i] = i
    BY <2>2, <2>4, <1>2, <1>5
  <2>6. Counted(q, Len(q)) \in Nat
    BY <1>3, CountedNat
  <2>7. Numbered(q, Len(g)) /\ Len(t.got) + Counted(t.inbox, Len(t.inbox)) = Len(g) + Counted(q, Len(q))
    BY <2>1, <2>4, <2>6, <1>2, <1>6, <1>8
  <2>8. ~t.closed => s = Len(t.got) + Counted(t.inbox, Len(t.inbox))
    BY DEF Line
  <2> HIDE DEF v, g
  <2>9. Line(v, s)
    BY <2>3, <2>5, <2>7, <2>8, <1>4 DEF Line
  <2>10. QED
    BY <2>2, <2>9 DEF v
 <1>9. QED
   BY <1>5, <1>7, <1>8 DEF u, f

LEMMA ReadyLike ==
  ASSUME NEW p, NEW t, Ready(p, t), NEW u,
         u.told = t.told, u.closed = t.closed, u.callback = t.callback, u.attached = t.attached,
         u.byApp = t.byApp, u.clientTerm = t.clientTerm, u.serverTerm = t.serverTerm,
         u.waiting = t.waiting
  PROVE  Ready(p, u)
  BY DEF Ready, Steady

(* The base of a step that reads a frame.                                  *)
LEMMA TakenBase ==
  ASSUME EndsInv, NEW p \in We!Side, wWe[p].at = "read", wWe[p].inbox # <<>>
  PROVE  LET t == Taken(wWe[p])  f == Head(wWe[p].inbox) IN
         /\ t \in Ends /\ t.out = <<>> /\ t.at = "read" /\ f \in Frames /\ Ready(p, t)
         /\ f.type # "message" \/ t.clientTerm \/ foreign => Base(p, t)
         /\ ~foreign => f.type \in {"message", "close", "ping", "pong"} /\ ~t.fragmented
         /\ ~t.clientTerm =>
              \A n \in Nat : foreign \/ (f.type = "message" /\ n = f.n) =>
                Base(p, Given(t, n)) /\ Ready(p, Given(t, n))
 <1> DEFINE e == wWe[p]
            t == Taken(e)
            f == Head(e.inbox)
            s == wWe[We!Other(p)].sent
 <1>1. /\ e \in Ends /\ e.out = <<>> /\ Sound(p, e) /\ Within(e, MaxFramesWe[pingers][p])
       /\ ~foreign => Line(e, s)
       /\ foreign \in BOOLEAN /\ e.at = "read" /\ e.inbox # <<>>
   BY EndAt
 <1>2. /\ t \in Ends /\ t.out = e.out /\ t.told = e.told /\ t.closed = e.closed
       /\ t.callback = e.callback /\ t.at = e.at /\ t.attached = e.attached /\ t.byApp = e.byApp
       /\ t.sent = e.sent /\ t.pings = e.pings /\ t.unanswered = e.unanswered
       /\ t.got = e.got /\ t.clientTerm = e.clientTerm
       /\ t.fragmented = e.fragmented /\ t.serverTerm = e.serverTerm /\ t.waiting = e.waiting
       /\ f \in Frames
   BY <1>1, TakenIs
 <1>3. ASSUME ~foreign
       PROVE  /\ f.type \in {"message", "close", "ping", "pong"} /\ ~e.fragmented
              /\ f.type # "message" \/ e.clientTerm => Line(t, s)
              /\ f.type = "message" /\ ~e.clientTerm => f.n \in Nat /\ Line(Given(t, f.n), s)
  <2>1. Line(e, s) /\ (e.clientTerm => e.closed)
    BY <1>1, <1>3 DEF Sound
  <2>2. QED
    BY <2>1, <1>1, TakenLine
 <1> HIDE DEF t, f, s
 <1>4. Ready(p, t)
  <2>1. e.told \in 0..1
    BY <1>1 DEF Ends
  <2> HIDE DEF e
  <2>2. QED
    BY <2>1, <1>1, <1>2 DEF Ready, Steady, Sound
 <1>5. ASSUME f.type # "message" \/ t.clientTerm \/ foreign PROVE Base(p, t)
  <2>1. ~foreign => Line(t, s)
    BY <1>2, <1>3, <1>5
  <2>2. Within(t, MaxFramesWe[pingers][p])
    BY <1>1, <1>2 DEF Within
  <2>3. QED
    BY <2>1, <2>2, <1>1, <1>2 DEF Base, e, s
 <1>6. ASSUME ~t.clientTerm, NEW n \in Nat, foreign \/ (f.type = "message" /\ n = f.n)
       PROVE  Base(p, Given(t, n)) /\ Ready(p, Given(t, n))
  <2> DEFINE u == Given(t, n)
  <2>1. /\ u \in Ends /\ u.out = t.out /\ u.told = t.told /\ u.closed = t.closed
        /\ u.callback = t.callback /\ u.attached = t.attached /\ u.byApp = t.byApp
        /\ u.sent = t.sent /\ u.pings = t.pings /\ u.unanswered = t.unanswered
        /\ u.clientTerm = t.clientTerm /\ u.serverTerm = t.serverTerm /\ u.waiting = t.waiting
    BY <1>2, GivenIs
  <2>2. ~foreign => Line(u, s)
    BY <1>2, <1>3, <1>6
  <2> HIDE DEF u
  <2>3. Within(u, MaxFramesWe[pingers][p])
    BY <2>1, <1>1, <1>2 DEF Within
  <2>4. Base(p, u)
    BY <2>1, <2>2, <2>3, <1>1, <1>2 DEF Base, e, s
  <2>5. Ready(p, u)
    BY <2>1, <1>4, ReadyLike
  <2>6. QED
    BY <2>4, <2>5 DEF u
 <1>7. t.at = "read" /\ t.out = <<>>
   BY <1>1, <1>2
 <1>8. ~foreign => f.type \in {"message", "close", "ping", "pong"} /\ ~t.fragmented
   BY <1>2, <1>3
 <1>9. QED
   BY <1>2, <1>4, <1>5, <1>6, <1>7, <1>8 DEF t, f, e

(* A step from a base that has changed in what its line does not show.     *)
LEMMA ReadsLike ==
  ASSUME NEW p, NEW t, NEW u, NEW r, Reads(p, u, r), u.got = t.got, u.told = t.told
  PROVE  Reads(p, t, r)
  BY DEF Reads

(* A ping is answered, and the end reads on.                               *)
LEMMA PongReads ==
  ASSUME EndsInv, NEW p \in We!Side, NEW t, Base(p, t), Ready(p, t), ~t.closed, NEW keep \in Nat
  PROVE  Reads(p, t, We!ReceiveFrame(We!WriteFrame(t, We!Frame("pong", 0)), keep))
 <1> DEFINE f == We!Frame("pong", 0)
            r == [t EXCEPT !.out = <<f>>, !.at = "read"]
 <1>1. /\ t \in Ends /\ t.out = <<>> /\ t.sent = wWe[p].sent
       /\ Within(t, MaxFramesWe[pingers][p])
       /\ ~foreign => Line(t, wWe[We!Other(p)].sent)
   BY DEF Base
 <1>2. f \in Frames /\ f.type = "pong"
   BY DEF We!Frame, Frames, FrameTypes
 <1> HIDE DEF f
 <1>3. We!ReceiveFrame(We!WriteFrame(t, f), keep) = r
  <2>1. Append(t.out, f) = <<f>>
    BY <1>1
  <2> DEFINE x == [t EXCEPT !.out = <<f>>]
  <2>2. We!WriteFrame(t, f) = x
    BY <2>1 DEF We!WriteFrame
  <2>3. x.closed = t.closed /\ [x EXCEPT !.at = "read"] = r
    BY <1>1 DEF Ends
  <2> HIDE DEF x, r
  <2>4. QED
    BY <2>2, <2>3 DEF We!ReceiveFrame
 <1>4. <<f>> \in Seq(Frames)
   BY <1>2
 <1>5. /\ r \in Ends /\ r.out = <<f>> /\ r.told = t.told /\ r.closed = t.closed
       /\ r.callback = t.callback /\ r.at = "read" /\ r.attached = t.attached /\ r.byApp = t.byApp
       /\ r.sent = t.sent /\ r.pings = t.pings /\ r.unanswered = t.unanswered
       /\ r.inbox = t.inbox /\ r.got = t.got /\ r.clientTerm = t.clientTerm
       /\ r.fragmented = t.fragmented /\ r.serverTerm = t.serverTerm /\ r.waiting = t.waiting
   BY <1>1, <1>4 DEF Ends, Stops
 <1> HIDE DEF r
 <1>6. Sound(p, r)
   BY <1>5 DEF Sound, Ready, Steady
 <1>7. Within(r, MaxFramesWe[pingers][p]) /\ Speech(wWe[p], r)
   BY <1>1, <1>2, <1>5 DEF Within, Speech
 <1>8. ~foreign => Line(r, wWe[We!Other(p)].sent)
   BY <1>1, <1>5 DEF Line
 <1>9. Outcome(p, r)
   BY <1>5, <1>6, <1>7, <1>8 DEF Outcome
 <1>10. Reads(p, t, r)
   BY <1>5, <1>9 DEF Reads
 <1>11. QED
   BY <1>3, <1>10 DEF f

LEMMA OnFrameIs ==
  ASSUME EndsInv, NEW p \in We!Side, wWe[p].at = "read", wWe[p].inbox # <<>>, NEW keep \in Nat
  PROVE  LET t == Taken(wWe[p])
             r == We!OnFrame(t, Head(wWe[p].inbox), keep) IN
         \/ Reads(p, t, r)
         \/ /\ ~t.clientTerm
            /\ \E n \in Nat : /\ r = At(Given(t, n), "handle")
                              /\ Base(p, Given(t, n)) /\ Ready(p, Given(t, n))
 <1> DEFINE t == Taken(wWe[p])
            f == Head(wWe[p].inbox)
            r == We!OnFrame(t, f, keep)
            Delivered == /\ ~t.clientTerm
                         /\ \E n \in Nat : /\ r = At(Given(t, n), "handle")
                                           /\ Base(p, Given(t, n)) /\ Ready(p, Given(t, n))
 <1>1. /\ t \in Ends /\ t.out = <<>> /\ t.at = "read" /\ f \in Frames /\ Ready(p, t)
       /\ f.type # "message" \/ t.clientTerm \/ foreign => Base(p, t)
       /\ ~foreign => f.type \in {"message", "close", "ping", "pong"} /\ ~t.fragmented
       /\ ~t.clientTerm =>
            \A n \in Nat : foreign \/ (f.type = "message" /\ n = f.n) =>
              Base(p, Given(t, n)) /\ Ready(p, Given(t, n))
   BY TakenBase
 <1>2. f.type \in FrameTypes /\ f.n \in Nat /\ "idle" \in Stops
   BY <1>1 DEF Frames, Stops
 <1> SUFFICES Reads(p, t, r) \/ Delivered
   OBVIOUS
 <1> HIDE DEF t, f
 <1>3. CASE f.type = "big"
  <2> DEFINE u == At(t, "idle")
  <2>1. /\ u \in Ends /\ u.told = t.told /\ u.closed = t.closed /\ u.callback = t.callback
        /\ u.at = "idle" /\ u.attached = t.attached /\ u.byApp = t.byApp
        /\ u.got = t.got /\ u.clientTerm = t.clientTerm /\ u.serverTerm = t.serverTerm
        /\ u.waiting = t.waiting
    BY <1>1, <1>2, AtIs
  <2>2. Base(p, u)
    BY <1>1, <1>2, <1>3, BaseAnywhere
  <2>3. r = We!Close(u, keep)
    BY <1>3 DEF We!OnFrame, At
  <2> HIDE DEF u, r
  <2>4. Steady(p, u)
    BY <1>1, <2>1, ReadyLike DEF Ready
  <2>5. Reads(p, u, r)
    BY <2>1, <2>2, <2>3, <2>4, CloseReads
  <2>6. QED
    BY <2>1, <2>5, ReadsLike
 <1>4. CASE \/ f.type = "bad"
            \/ f.type = "last" /\ ~t.fragmented
            \/ f.type \in {"message", "first"} /\ t.fragmented
  <2>1. Base(p, t)
    BY <1>1, <1>4
  <2>2. r = We!Abort(At(t, "idle"), keep)
    BY <1>4 DEF We!OnFrame, At
  <2>3. QED
    BY <2>1, <2>2, <1>1, AbortReads
 <1>5. CASE f.type = "first" /\ ~t.fragmented
  <2> DEFINE u == [t EXCEPT !.fragmented = TRUE]
  <2>1. /\ u \in Ends /\ u.out = t.out /\ u.told = t.told /\ u.closed = t.closed
        /\ u.callback = t.callback /\ u.attached = t.attached /\ u.byApp = t.byApp
        /\ u.sent = t.sent /\ u.pings = t.pings /\ u.unanswered = t.unanswered
        /\ u.inbox = t.inbox /\ u.got = t.got /\ u.clientTerm = t.clientTerm
        /\ u.serverTerm = t.serverTerm /\ u.waiting = t.waiting
    BY <1>1 DEF Ends
  <2>2. r = We!ReceiveUnlessTerminated(u, keep)
    BY <1>5 DEF We!OnFrame
  <2>3. foreign /\ Base(p, t) /\ t.unanswered \in Nat
    BY <1>1, <1>5 DEF Ends
  <2> HIDE DEF u, r
  <2>4. u.unanswered <= t.unanswered
    BY <2>1, <2>3
  <2>5. Base(p, u)
    BY <2>1, <2>3, <2>4, <1>1, BaseLike
  <2>6. Ready(p, u)
    BY <2>1, <1>1, ReadyLike
  <2>7. QED
    BY <2>1, <2>2, <2>5, <2>6, ReceiveUnlessTerminatedReads, ReadsLike
 <1>6. ASSUME NEW n \in Nat, r = We!Deliver([t EXCEPT !.fragmented = FALSE], n),
              foreign \/ (f.type = "message" /\ n = f.n /\ ~t.fragmented)
       PROVE  Reads(p, t, r) \/ Delivered
  <2> DEFINE u == [t EXCEPT !.fragmented = FALSE]
  <2>1. /\ u \in Ends /\ u.out = t.out /\ u.told = t.told /\ u.closed = t.closed
        /\ u.callback = t.callback /\ u.attached = t.attached /\ u.byApp = t.byApp
        /\ u.sent = t.sent /\ u.pings = t.pings /\ u.unanswered = t.unanswered
        /\ u.inbox = t.inbox /\ u.got = t.got /\ u.clientTerm = t.clientTerm
        /\ u.serverTerm = t.serverTerm /\ u.waiting = t.waiting /\ u.fragmented = FALSE
    BY <1>1 DEF Ends
  <2>2. CASE t.clientTerm
   <3>1. r = At(u, "idle")
     BY <1>6, <2>1, <2>2 DEF We!Deliver, At
   <3>2. Base(p, t) /\ t.unanswered \in Nat
     BY <1>1, <2>2 DEF Ends
   <3> HIDE DEF u, r
   <3>3. u.unanswered <= t.unanswered
     BY <2>1, <3>2
   <3>4. Base(p, u)
    <4>1. ~foreign => u.fragmented = t.fragmented
     <5>1. t.fragmented \in BOOLEAN
       BY <1>1 DEF Ends
     <5>2. ~foreign => t.fragmented = FALSE
       BY <5>1, <1>1
     <5>3. QED
       BY <5>2, <2>1
    <4>2. QED
      BY <4>1, <2>1, <3>2, <3>3, <1>1, BaseLike
   <3>5. Ready(p, u)
     BY <2>1, <1>1, ReadyLike
   <3>6. QED
     BY <2>1, <2>2, <3>1, <3>4, <3>5, IdleReads, ReadsLike
  <2>3. CASE ~t.clientTerm
   <3>1. r = At(Given(t, n), "handle")
     BY <1>1, <1>6, <2>1, <2>3 DEF We!Deliver, At, Given, Ends
   <3>2. Base(p, Given(t, n)) /\ Ready(p, Given(t, n))
     BY <1>1, <1>6, <2>3
   <3>3. QED
     BY <2>3, <3>1, <3>2
  <2>4. QED
    BY <2>2, <2>3
 <1>7. CASE f.type = "last" /\ t.fragmented
  <2>1. r = We!Deliver([t EXCEPT !.fragmented = FALSE], 0) /\ foreign
    BY <1>1, <1>7 DEF We!OnFrame
  <2> HIDE DEF r
  <2>2. QED
    BY <2>1, <1>6
 <1>8. CASE f.type = "message" /\ ~t.fragmented
  <2>1. [t EXCEPT !.fragmented = FALSE] = t
    BY <1>1, <1>8 DEF Ends
  <2>2. r = We!Deliver(t, f.n)
    BY <1>8 DEF We!OnFrame
  <2> HIDE DEF r
  <2>3. QED
    BY <2>1, <2>2, <1>2, <1>6, <1>8
 <1>9. CASE f.type = "close"
  <2>1. Base(p, t)
    BY <1>1, <1>9
  <2>2. CASE t.clientTerm
   <3>1. r = At(t, "idle")
     BY <1>9, <2>2 DEF We!OnFrame, At
   <3> HIDE DEF r
   <3>2. QED
     BY <3>1, <2>1, <2>2, <1>1, IdleReads
  <2>3. CASE ~t.clientTerm
   <3> DEFINE u == [t EXCEPT !.clientTerm = TRUE, !.at = "idle"]
   <3>1. /\ u \in Ends /\ u.out = t.out /\ u.told = t.told /\ u.closed = t.closed
         /\ u.callback = t.callback /\ u.attached = t.attached /\ u.byApp = t.byApp
         /\ u.sent = t.sent /\ u.pings = t.pings /\ u.unanswered = t.unanswered
         /\ u.inbox = t.inbox /\ u.got = t.got /\ u.clientTerm = TRUE /\ u.at = "idle"
         /\ u.serverTerm = t.serverTerm /\ u.waiting = t.waiting /\ u.fragmented = t.fragmented
     BY <1>1, <1>2 DEF Ends
   <3>2. r = We!Close(u, keep)
     BY <1>9, <2>3 DEF We!OnFrame
   <3>3. t.unanswered \in Nat
     BY <1>1 DEF Ends
   <3> HIDE DEF u, r
   <3>4. u.unanswered <= t.unanswered
     BY <3>1, <3>3
   <3>5. Base(p, u)
     BY <3>1, <3>4, <2>1, <1>1, BaseLike
   <3>6. Steady(p, u)
     BY <3>1, <1>1 DEF Ready, Steady
   <3>7. QED
     BY <3>1, <3>2, <3>5, <3>6, CloseReads, ReadsLike
  <2>4. QED
    BY <2>2, <2>3
 <1>10. CASE f.type = "ping"
  <2>1. Base(p, t)
    BY <1>1, <1>10
  <2>2. CASE t.clientTerm
   <3>1. r = At(t, "idle")
     BY <1>10, <2>2 DEF We!OnFrame, At
   <3> HIDE DEF r
   <3>2. QED
     BY <3>1, <2>1, <2>2, <1>1, IdleReads
  <2>3. CASE ~t.clientTerm /\ t.closed
   <3>1. r = We!Abort(At(t, "idle"), keep)
     BY <1>10, <2>3 DEF We!OnFrame, At
   <3> HIDE DEF r
   <3>2. QED
     BY <3>1, <2>1, <1>1, AbortReads
  <2>4. CASE ~t.clientTerm /\ ~t.closed
   <3>1. r = We!ReceiveFrame(We!WriteFrame(t, We!Frame("pong", 0)), keep)
     BY <1>10, <2>4 DEF We!OnFrame
   <3> HIDE DEF r
   <3>2. QED
     BY <3>1, <2>1, <2>4, <1>1, PongReads
  <2>5. QED
    BY <2>2, <2>3, <2>4
 <1>11. CASE f.type = "pong"
  <2> DEFINE u == IF t.clientTerm THEN t ELSE [t EXCEPT !.unanswered = 0]
  <2>1. /\ u \in Ends /\ u.out = t.out /\ u.told = t.told /\ u.closed = t.closed
        /\ u.callback = t.callback /\ u.attached = t.attached /\ u.byApp = t.byApp
        /\ u.sent = t.sent /\ u.pings = t.pings
        /\ u.inbox = t.inbox /\ u.got = t.got /\ u.clientTerm = t.clientTerm
        /\ u.serverTerm = t.serverTerm /\ u.waiting = t.waiting /\ u.fragmented = t.fragmented
    BY <1>1 DEF Ends
  <2>2. u.unanswered <= t.unanswered
    BY <1>1 DEF Ends
  <2>3. Base(p, t)
    BY <1>1, <1>11
  <2>4. r = We!ReceiveUnlessTerminated(u, keep)
    BY <1>11 DEF We!OnFrame
  <2> HIDE DEF u, r
  <2>5. Base(p, u)
    BY <2>1, <2>2, <2>3, <1>1, BaseLike
  <2>6. Ready(p, u)
    BY <2>1, <1>1, ReadyLike
  <2>7. QED
    BY <2>1, <2>4, <2>5, <2>6, ReceiveUnlessTerminatedReads, ReadsLike
 <1>12. QED
   BY <1>2, <1>3, <1>4, <1>5, <1>7, <1>8, <1>9, <1>10, <1>11 DEF FrameTypes

(* An end that is not at rest may read on.                                 *)
LEMMA SoundReady ==
  ASSUME NEW p, NEW t \in Ends, Sound(p, t), t.at \in {"opening", "read", "handle"}
  PROVE  Ready(p, t)
 <1>1. t.told \in 0..1
   BY DEF Ends
 <1>2. p = "client" => t.told = 0
   BY <1>1 DEF Sound
 <1>3. QED
   BY <1>2 DEF Sound, Ready, Steady

LEMMA ReadsKeeps ==
  ASSUME SocketInv, NEW p \in We!Side, NEW t, t.got = wWe[p].got, t.told = wWe[p].told,
         NEW r, Reads(p, t, r), We!Becomes(p, r), UNCHANGED We!settings, UNCHANGED We!clientVars
  PROVE  SocketInv'
 <1>1. Outcome(p, r) /\ r.got = wWe[p].got /\ r.told = wWe[p].told
   BY DEF Reads
 <1>2. QED
   BY <1>1, QuietStep, ClientUnchanged

LEMMA OpenedKeeps == ASSUME SocketInv, We!Opened PROVE SocketInv'
 <1>1. PICK keep \in We!Keeps : \E t \in {wWe["server"], We!Abort(wWe["server"], 0)} :
         We!Becomes("server", We!ReceiveFrame(t, keep))
   BY DEF We!Opened
 <1>2. PICK t \in {wWe["server"], We!Abort(wWe["server"], 0)} : We!Becomes("server", We!ReceiveFrame(t, keep))
   BY <1>1
 <1>3. "server" \in We!Side /\ keep \in Nat /\ EndsInv
   BY DEF We!Side, We!Keeps, SocketInv
 <1>4. wWe["server"].at = "opening" /\ UNCHANGED We!settings /\ UNCHANGED We!clientVars
   BY DEF We!Opened
 <1> DEFINE s == wWe["server"]
 <1>5. s \in Ends /\ s.out = <<>> /\ Sound("server", s) /\ Base("server", s)
   BY <1>3, EndAt, BaseAt
 <1>6. Ready("server", s)
   BY <1>4, <1>5, SoundReady
 <1>7. Base("server", t) /\ Ready("server", t) /\ t.got = s.got /\ t.told = s.told
  <2>1. CASE t = s
    BY <2>1, <1>5, <1>6
  <2>2. CASE t = We!Abort(s, 0)
   <3>1. Shuts(s, t) /\ t.closed /\ t.clientTerm /\ t.out = <<>>
     BY <2>2, <1>5, AbortIs
   <3>2. Base("server", t)
     BY <3>1, <1>3, <1>5, BaseShuts DEF Says, Base
   <3>3. /\ t.attached = s.attached /\ t.told = s.told /\ t.got = s.got /\ t.byApp = s.byApp
         /\ s.closed => t.callback = s.callback
     BY <3>1 DEF Shuts
   <3>4. ~s.closed => t.callback = TRUE
     BY <3>1 DEF Shuts
   <3>5. s.told \in 0..1
     BY <1>5 DEF Ends
   <3>6. Ready("server", t)
     BY <3>1, <3>3, <3>4, <3>5, <1>6 DEF Ready, Steady
   <3>7. QED
     BY <3>2, <3>3, <3>6
  <2>3. QED
    BY <1>2, <2>1, <2>2
 <1>8. Reads("server", t, We!ReceiveFrame(t, keep))
   BY <1>3, <1>7, ReceiveFrameReads
 <1>9. QED
   BY <1>2, <1>3, <1>4, <1>7, <1>8, ReadsKeeps

LEMMA HandleDoneKeeps == ASSUME SocketInv, We!HandleDone PROVE SocketInv'
 <1>1. PICK keep \in We!Keeps :
         \/ We!Becomes("server", We!ReceiveUnlessTerminated(wWe["server"], keep))
         \/ We!Becomes("server", We!Abort([wWe["server"] EXCEPT !.at = "idle"], keep))
   BY DEF We!HandleDone
 <1> DEFINE s == wWe["server"]
 <1>2. "server" \in We!Side /\ keep \in Nat /\ EndsInv
   BY DEF We!Side, We!Keeps, SocketInv
 <1>3. s.at = "handle" /\ UNCHANGED We!settings /\ UNCHANGED We!clientVars
   BY DEF We!HandleDone
 <1>4. s \in Ends /\ Sound("server", s) /\ Base("server", s)
   BY <1>2, EndAt, BaseAt
 <1>5. Ready("server", s)
   BY <1>3, <1>4, SoundReady
 <1>6. CASE We!Becomes("server", We!ReceiveUnlessTerminated(s, keep))
  <2>1. Reads("server", s, We!ReceiveUnlessTerminated(s, keep))
    BY <1>2, <1>4, <1>5, ReceiveUnlessTerminatedReads
  <2>2. QED
    BY <2>1, <1>2, <1>3, <1>6, ReadsKeeps
 <1>7. CASE We!Becomes("server", We!Abort([s EXCEPT !.at = "idle"], keep))
  <2>1. Reads("server", s, We!Abort(At(s, "idle"), keep))
    BY <1>2, <1>4, <1>5, AbortReads
  <2>2. We!Becomes("server", We!Abort(At(s, "idle"), keep))
    BY <1>7 DEF At
  <2>3. QED
    BY <2>1, <2>2, <1>2, <1>3, ReadsKeeps
 <1>8. QED
   BY <1>1, <1>6, <1>7

(* What the client's handler is given goes on behind the rest.             *)
LEMMA OnMessageIs ==
  ASSUME ReadersInv, NEW x \in Nat, We!OnMessage(x)
  PROVE  /\ read' \in Seq(Nat) /\ readqueue' \in Seq(Nat) /\ reading' \in BOOLEAN
         /\ read' \o readqueue' = (read \o readqueue) \o <<x>>
         /\ reading' => readqueue' = <<>>
 <1>1. read \in Seq(Nat) /\ readqueue \in Seq(Nat) /\ reading \in BOOLEAN
       /\ (reading => readqueue = <<>>)
   BY DEF ReadersInv
 <1>2. CASE reading
  <2>1. read' = Append(read, x) /\ reading' = FALSE /\ readqueue' = <<>> /\ readqueue = <<>>
    BY <1>1, <1>2 DEF We!OnMessage
  <2>2. Append(read, x) \in Seq(Nat) /\ Append(read, x) \o <<>> = Append(read, x)
        /\ (read \o <<>>) \o <<x>> = Append(read, x)
    BY <1>1
  <2>3. read' \o readqueue' = (read \o readqueue) \o <<x>>
    BY <2>1, <2>2, Zenon
  <2>4. read' \in Seq(Nat)
    BY <2>1, <2>2, Zenon
  <2>5. readqueue' = <<>> /\ reading' = FALSE
    BY <2>1
  <2>6. <<>> \in Seq(Nat) /\ FALSE \in BOOLEAN
    OBVIOUS
  <2>7. readqueue' \in Seq(Nat) /\ reading' \in BOOLEAN
    BY <2>5, <2>6, Zenon
  <2>8. QED
    BY <2>3, <2>4, <2>5, <2>7
 <1>3. CASE ~reading
  <2>1. readqueue' = Append(readqueue, x) /\ read' = read /\ reading' = reading
    BY <1>3 DEF We!OnMessage
  <2>2. Append(readqueue, x) \in Seq(Nat)
        /\ read \o Append(readqueue, x) = (read \o readqueue) \o <<x>>
    BY <1>1
  <2>3. QED
    BY <2>1, <2>2, <1>1, <1>3
 <1>4. QED
   BY <1>1, <1>2, <1>3

LEMMA ReadFrameKeeps == ASSUME SocketInv, NEW p \in We!Side, We!ReadFrame(p) PROVE SocketInv'
 <1>1. PICK keep \in We!Keeps :
         LET t == We!OnFrame(Taken(wWe[p]), Head(wWe[p].inbox), keep)
         IN IF p = "client" /\ t.at = "handle"
            THEN /\ We!Becomes(p, We!ReceiveFrame(t, keep))
                 /\ We!OnMessage(t.got[Len(t.got)])
                 /\ UNCHANGED connect
            ELSE We!Becomes(p, t) /\ UNCHANGED We!clientVars
   BY DEF We!ReadFrame, Taken
 <1> DEFINE t == Taken(wWe[p])
            u == We!OnFrame(t, Head(wWe[p].inbox), keep)
 <1>2. wWe[p].at = "read" /\ wWe[p].inbox # <<>> /\ UNCHANGED We!settings
   BY DEF We!ReadFrame
 <1>3. keep \in Nat /\ EndsInv /\ ReadersInv /\ wWe[p] \in Ends
   BY EndAt DEF We!Keeps, SocketInv
 <1>4. t.got = wWe[p].got /\ t.told = wWe[p].told /\ t \in Ends
   BY <1>2, <1>3, TakenIs
 <1>5. \/ Reads(p, t, u)
       \/ /\ ~t.clientTerm
          /\ \E n \in Nat : /\ u = At(Given(t, n), "handle")
                            /\ Base(p, Given(t, n)) /\ Ready(p, Given(t, n))
   BY <1>2, <1>3, OnFrameIs
 <1>6. /\ p = "client" /\ u.at = "handle" => /\ We!Becomes(p, We!ReceiveFrame(u, keep))
                                             /\ We!OnMessage(u.got[Len(u.got)])
                                             /\ UNCHANGED connect
       /\ ~(p = "client" /\ u.at = "handle") => We!Becomes(p, u) /\ UNCHANGED We!clientVars
   BY <1>1
 <1> HIDE DEF t, u
 <1>7. CASE Reads(p, t, u)
  <2>1. We!Becomes(p, u) /\ UNCHANGED We!clientVars
    BY <1>6, <1>7 DEF Reads
  <2>2. QED
    BY <2>1, <1>2, <1>4, <1>7, ReadsKeeps
 <1>8. ASSUME NEW n \in Nat, u = At(Given(t, n), "handle"), Base(p, Given(t, n)), Ready(p, Given(t, n))
       PROVE  SocketInv'
  <2>1. "handle" \in Stops
    BY DEF Stops
  <2> DEFINE g == Given(t, n)
  <2>2. g \in Ends /\ g.got = Append(t.got, n) /\ g.told = t.told /\ g.out = <<>>
    BY <1>4, <1>8, GivenIs DEF Base
  <2>3. /\ u \in Ends /\ u.out = <<>> /\ u.told = g.told /\ u.closed = g.closed
        /\ u.callback = g.callback /\ u.at = "handle" /\ u.attached = g.attached /\ u.byApp = g.byApp
        /\ u.got = g.got /\ u.clientTerm = g.clientTerm
        /\ u.serverTerm = g.serverTerm /\ u.waiting = g.waiting
    BY <2>1, <2>2, <1>8, AtIs
  <2>4. Base(p, u)
    BY <2>1, <1>3, <1>8, BaseAnywhere
  <2>5. Ready(p, u)
    BY <2>3, <1>8, ReadyLike
  <2> HIDE DEF g
  <2>6. CASE p = "server"
   <3>1. We!Becomes(p, u) /\ UNCHANGED We!clientVars
     BY <1>6, <2>6
   <3>2. Sound(p, u)
     BY <2>3, <2>5, <2>6 DEF Sound, Ready, Steady
   <3>3. Outcome(p, u)
     BY <2>3, <2>4, <3>2, <1>3, ShutsItself, BaseOutcome DEF Says
   <3>4. QED
     BY <3>1, <3>3, <2>6, <1>2, QuietStep, ClientUnchanged
  <2>7. CASE p = "client"
   <3> DEFINE r == We!ReceiveFrame(u, keep)
              x == u.got[Len(u.got)]
   <3>1. We!Becomes(p, r) /\ We!OnMessage(x) /\ UNCHANGED connect
     BY <1>6, <2>3, <2>7
   <3>2. Outcome(p, r) /\ r.got = u.got /\ r.told = u.told
     BY <1>3, <2>4, <2>5, ReceiveFrameReads DEF Reads
   <3>3. x = n /\ t.got \in Seq(Nat)
    <4>1. t.got \in Seq(Nat)
      BY <1>4 DEF Ends
    <4>2. QED
      BY <4>1, <2>2, <2>3, AppendProperties
   <3> HIDE DEF r, x
   <3>4. EndsInv' /\ wWe'["client"].got = Append(wWe["client"].got, n)
         /\ wWe'["client"].told = wWe["client"].told
     BY <3>1, <3>2, <1>2, <1>3, <1>4, <2>2, <2>3, <2>7, BecomesKeeps
   <3>5. wWe["client"].told = 0
     BY <2>2, <2>7, <1>4, <1>8 DEF Ready, Steady, g
   <3>6. /\ read' \in Seq(Nat) /\ readqueue' \in Seq(Nat) /\ reading' \in BOOLEAN
         /\ read' \o readqueue' = (read \o readqueue) \o <<n>>
         /\ reading' => readqueue' = <<>>
     BY <3>1, <3>3, <1>3, OnMessageIs
   <3>7. read \o readqueue = wWe["client"].got
    <4>1. read \o readqueue = wWe["client"].got \o <<>>
      BY <3>5, <1>3 DEF ReadersInv
    <4>2. wWe["client"].got \in Seq(Nat)
      BY <1>3, <2>7 DEF Ends
    <4>3. QED
      BY <4>1, <4>2
   <3>8. wWe'["client"].got = wWe["client"].got \o <<n>>
     BY <3>4
   <3>9. wWe'["client"].got = wWe'["client"].got \o <<>>
     BY <3>3, <3>4, <1>4, <2>7
   <3>10. connect' \in {"pending", "open", "error"}
     BY <3>1, <1>3 DEF ReadersInv
   <3>11. read' \o readqueue' = wWe'["client"].got
            \o (IF wWe'["client"].told = 1 THEN <<We!None>> ELSE <<>>)
     BY <3>4, <3>5, <3>6, <3>7, <3>8, <3>9
   <3>12. QED
     BY <3>4, <3>6, <3>10, <3>11 DEF SocketInv, ReadersInv
  <2>8. QED
    BY <2>6, <2>7 DEF We!Side
 <1>9. QED
   BY <1>5, <1>7, <1>8

LEMMA ServerTold ==
  ASSUME SocketInv, We!CloseCallback("server") PROVE SocketInv'
 <1> DEFINE s == wWe["server"]
            t == [s EXCEPT !.callback = FALSE, !.told = @ + 1]
            d == [t EXCEPT !.attached = FALSE]
            a == We!Abort(t, 0)
            b == [a EXCEPT !.attached = FALSE]
 <1>1. "server" \in We!Side /\ EndsInv
   BY DEF We!Side, SocketInv
 <1>2. /\ s.callback /\ s.at # "read" /\ UNCHANGED We!settings /\ UNCHANGED We!clientVars
       /\ We!Becomes("server", IF s.attached THEN b ELSE t)
   BY DEF We!CloseCallback
 <1>3. s \in Ends /\ s.out = <<>> /\ Sound("server", s) /\ Base("server", s)
   BY <1>1, EndAt, BaseAt
 <1>4. s.told = 0 /\ s.closed
   BY <1>2, <1>3 DEF Sound
 <1>5. s.unanswered \in Nat /\ s.told + 1 = 1 /\ 1 \in 0..1
   BY <1>3, <1>4 DEF Ends
 <1>6. t = [s EXCEPT !.callback = FALSE, !.told = 1]
   BY <1>5
 <1> HIDE DEF s, t
 <1>7. /\ t \in Ends /\ t.out = <<>> /\ t.told = 1 /\ t.closed /\ t.callback = FALSE
       /\ t.at = s.at /\ t.attached = s.attached /\ t.byApp = s.byApp
       /\ t.sent = s.sent /\ t.pings = s.pings /\ t.unanswered = s.unanswered
       /\ t.inbox = s.inbox /\ t.got = s.got /\ t.clientTerm = s.clientTerm
       /\ t.fragmented = s.fragmented /\ t.serverTerm = s.serverTerm /\ t.waiting = s.waiting
       /\ t.pinging = s.pinging
   BY <1>3, <1>4, <1>5, <1>6 DEF Ends
 <1> HIDE DEF a, b
 <1>8. t.unanswered <= s.unanswered
   BY <1>5, <1>7
 <1>9. Base("server", t)
   BY <1>1, <1>3, <1>4, <1>7, <1>8, BaseLike
 <1>10. CASE ~s.attached
  <2>1. Sound("server", t)
    BY <1>3, <1>7, <1>4, <1>10 DEF Sound
  <2>2. Outcome("server", t)
    BY <1>1, <1>7, <1>9, <2>1, ShutsItself, BaseOutcome DEF Says
  <2>3. We!Becomes("server", t)
    BY <1>2, <1>10
  <2>4. QED
    BY <1>1, <1>2, <2>2, <2>3, QuietStep, ClientUnchanged
 <1>11. CASE s.attached
  <2>1. Shuts(t, a) /\ a.closed /\ a.clientTerm /\ a.serverTerm /\ a.out = <<>>
    BY <1>7, AbortIs DEF a
  <2>2. /\ a \in Ends /\ Within(a, MaxFramesWe[pingers]["server"]) /\ a.sent = s.sent
        /\ Speech(s, a) /\ (~foreign => Line(a, wWe["client"].sent))
    BY <1>1, <1>9, <2>1, BaseShuts DEF Says, s, We!Other
  <2>3. a.told = 1 /\ a.callback = FALSE /\ (a.at = s.at \/ a.at = "idle") /\ a.clientTerm = TRUE
    BY <2>1, <2>2, <1>7 DEF Shuts, Ends
  <2>4. s.at # "connecting"
    BY <1>3 DEF Sound
  <2>5. s.at # "get"
    BY <1>3, <1>4 DEF Sound
  <2>6. /\ b \in Ends /\ b.out = a.out /\ b.told = a.told /\ b.closed = a.closed
        /\ b.callback = a.callback /\ b.at = a.at /\ b.attached = FALSE /\ b.byApp = a.byApp
        /\ b.sent = a.sent /\ b.pings = a.pings /\ b.unanswered = a.unanswered
        /\ b.inbox = a.inbox /\ b.got = a.got /\ b.clientTerm = a.clientTerm
        /\ b.fragmented = a.fragmented /\ b.serverTerm = a.serverTerm /\ b.waiting = a.waiting
    BY <2>2 DEF b, Ends
  <2>7. Sound("server", b)
    BY <2>1, <2>3, <2>4, <2>5, <2>6 DEF Sound
  <2>8. Within(b, MaxFramesWe[pingers]["server"])
    BY <2>2, <2>6 DEF Within
  <2>9. ~foreign => Speech(s, b) /\ Line(b, wWe["client"].sent)
   <3>1. Speech(s, b)
     BY <2>2, <2>6 DEF Speech
   <3>2. ~foreign => Line(b, wWe["client"].sent)
     BY <2>2, <2>6 DEF Line
   <3>3. QED
     BY <3>1, <3>2
  <2>10. Outcome("server", b)
    BY <2>6, <2>7, <2>8, <2>9 DEF Outcome, s, We!Other
  <2>11. We!Becomes("server", b)
    BY <1>2, <1>11
  <2>12. QED
    BY <1>1, <1>2, <2>10, <2>11, QuietStep, ClientUnchanged
 <1>12. QED
   BY <1>10, <1>11

LEMMA ClientTold ==
  ASSUME SocketInv, We!CloseCallback("client") PROVE SocketInv'
 <1> DEFINE s == wWe["client"]
            t == [s EXCEPT !.callback = FALSE, !.told = @ + 1]
 <1>1. "client" \in We!Side /\ EndsInv /\ ReadersInv
   BY DEF We!Side, SocketInv
 <1>2. /\ s.callback /\ s.at # "read" /\ UNCHANGED We!settings /\ We!Becomes("client", t)
       /\ connect' = (IF connect = "pending" THEN "error" ELSE connect)
       /\ We!OnMessage(We!None)
   BY DEF We!CloseCallback
 <1>3. s \in Ends /\ s.out = <<>> /\ Sound("client", s) /\ Base("client", s)
   BY <1>1, EndAt, BaseAt
 <1>4. s.told = 0 /\ s.closed
   BY <1>2, <1>3 DEF Sound
 <1>5. s.unanswered \in Nat /\ s.told + 1 = 1 /\ 1 \in 0..1 /\ s.got \in Seq(Nat)
   BY <1>3, <1>4 DEF Ends
 <1>6. t = [s EXCEPT !.callback = FALSE, !.told = 1]
   BY <1>5
 <1> HIDE DEF s, t
 <1>7. /\ t \in Ends /\ t.out = <<>> /\ t.told = 1 /\ t.closed /\ t.callback = FALSE
       /\ t.at = s.at /\ t.attached = s.attached /\ t.byApp = s.byApp
       /\ t.sent = s.sent /\ t.pings = s.pings /\ t.unanswered = s.unanswered
       /\ t.inbox = s.inbox /\ t.got = s.got /\ t.clientTerm = s.clientTerm
       /\ t.fragmented = s.fragmented /\ t.serverTerm = s.serverTerm /\ t.waiting = s.waiting
       /\ t.pinging = s.pinging
   BY <1>3, <1>4, <1>5, <1>6 DEF Ends
 <1>8. t.unanswered <= s.unanswered
   BY <1>5, <1>7
 <1>9. Base("client", t)
   BY <1>1, <1>3, <1>4, <1>7, <1>8, BaseLike
 <1>10. Sound("client", t)
   BY <1>2, <1>3, <1>4, <1>7 DEF Sound
 <1>11. Outcome("client", t)
   BY <1>1, <1>7, <1>9, <1>10, ShutsItself, BaseOutcome DEF Says
 <1>12. EndsInv' /\ wWe'["client"].got = s.got /\ wWe'["client"].told = 1
   BY <1>1, <1>2, <1>7, <1>11, BecomesKeeps
 <1>13. /\ read' \in Seq(Nat) /\ readqueue' \in Seq(Nat) /\ reading' \in BOOLEAN
        /\ read' \o readqueue' = (read \o readqueue) \o <<We!None>>
        /\ reading' => readqueue' = <<>>
   BY <1>1, <1>2, OnMessageIs DEF We!None
 <1>14. read \o readqueue = s.got
  <2>1. read \o readqueue = s.got \o <<>>
    BY <1>1, <1>4 DEF ReadersInv, s
  <2>2. QED
    BY <2>1, <1>5
 <1>15. connect' \in {"pending", "open", "error"}
   BY <1>1, <1>2 DEF ReadersInv
 <1>16. read' \o readqueue' = wWe'["client"].got
          \o (IF wWe'["client"].told = 1 THEN <<We!None>> ELSE <<>>)
   BY <1>12, <1>13, <1>14
 <1>17. QED
   BY <1>12, <1>13, <1>15, <1>16 DEF SocketInv, ReadersInv

LEMMA ReadMessageKeeps == ASSUME SocketInv, We!ReadMessage PROVE SocketInv'
 <1>1. EndsInv /\ ReadersInv
   BY DEF SocketInv
 <1>2. UNCHANGED <<pingers, foreign, wWe, connect>> /\ ~reading
   BY DEF We!ReadMessage
 <1>3. EndsInv'
   BY <1>1, <1>2 DEF EndsInv
 <1>4. read \in Seq(Nat) /\ readqueue \in Seq(Nat)
   BY <1>1 DEF ReadersInv
 <1>5. /\ read' \in Seq(Nat) /\ readqueue' \in Seq(Nat) /\ reading' \in BOOLEAN
       /\ read' \o readqueue' = read \o readqueue /\ (reading' => readqueue' = <<>>)
  <2>1. CASE readqueue # <<>>
   <3>1. read' = Append(read, Head(readqueue)) /\ readqueue' = Tail(readqueue) /\ reading' = reading
     BY <2>1 DEF We!ReadMessage
   <3>2. /\ Head(readqueue) \in Nat /\ Tail(readqueue) \in Seq(Nat)
         /\ Append(read, Head(readqueue)) \in Seq(Nat)
     BY <2>1, <1>4, HeadTailProperties, AppendProperties
   <3>3. Append(read, Head(readqueue)) \o Tail(readqueue) = read \o readqueue
    <4>1. readqueue = <<Head(readqueue)>> \o Tail(readqueue)
      BY <2>1, <1>4
    <4>2. \A x \in Nat, r \in Seq(Nat) : Append(read, x) \o r = read \o (<<x>> \o r)
     <5> TAKE x \in Nat, r \in Seq(Nat)
     <5> HIDE DEF read
     <5>1. Append(read, x) = read \o <<x>>
       BY ONLY <1>4, AppendIsConcat
     <5>2. <<x>> \in Seq(Nat)
       OBVIOUS
     <5>3. (read \o <<x>>) \o r = read \o (<<x>> \o r)
       BY <5>2, <1>4, ConcatAssociative
     <5>4. QED
       BY <5>1, <5>3
    <4>3. QED
      BY <3>2, <4>1, <4>2
   <3>4. reading' = FALSE
     BY <3>1, <1>1, <1>2 DEF ReadersInv
   <3>5. read' \o readqueue' = read \o readqueue
     BY <3>1, <3>3, Zenon
   <3>6. QED
     BY <3>1, <3>2, <3>4, <3>5
  <2>2. CASE readqueue = <<>>
   <3>1. reading' = TRUE /\ read' = read /\ readqueue' = readqueue
     BY <2>2 DEF We!ReadMessage
   <3>2. QED
     BY <3>1, <2>2, <1>4
  <2>3. QED
    BY <2>1, <2>2
 <1>6. QED
   BY <1>1, <1>2, <1>3, <1>5 DEF SocketInv, ReadersInv

LEMMA SocketNext == ASSUME PingBounds, SocketInv, [We!Next]_(We!vars) PROVE SocketInv'
 <1>1. CASE UNCHANGED We!vars
   BY <1>1 DEF We!vars, SocketInv, EndsInv, ReadersInv
 <1>2. ASSUME NEW p \in We!Side, We!ReadFrame(p) \/ We!WriteMessage(p) \/ We!CloseByApp(p) \/ We!PeriodicPing(p)
       PROVE  SocketInv'
   BY <1>2, ReadFrameKeeps, WriteMessageKeeps, CloseByAppKeeps, PeriodicPingKeeps
 <1>3. ASSUME NEW p \in We!Side, We!WaitingTimeout(p) \/ We!EndOfStream(p) \/ We!Break(p) \/ We!CloseCallback(p)
       PROVE  SocketInv'
  <2>1. CASE We!CloseCallback(p)
    BY <2>1, ServerTold, ClientTold DEF We!Side
  <2>2. QED
    BY <1>3, <2>1, WaitingTimeoutKeeps, EndOfStreamKeeps, BreakKeeps
 <1>4. CASE We!Refuse \/ We!Accept \/ We!Opened \/ We!Connected \/ We!HandleDone \/ We!ForeignFrame \/ We!ReadMessage
   BY <1>4, RefuseKeeps, AcceptKeeps, OpenedKeeps, ConnectedKeeps, HandleDoneKeeps,
      ForeignFrameKeeps, ReadMessageKeeps
 <1>5. QED
   BY <1>1, <1>2, <1>3, <1>4 DEF We!Next

LEMMA SocketInit == ASSUME PingBounds, We!Init PROVE SocketInv
 <1>1. /\ pingers \in DOMAIN MaxFramesWe /\ foreign \in BOOLEAN
       /\ wWe = [p \in We!Side |-> We!End(IF p = "server" THEN "get" ELSE "connecting")]
       /\ connect = "pending" /\ readqueue = <<>> /\ reading = FALSE /\ read = <<>>
   BY DEF We!Init
 <1>2. "get" \in Stops /\ "connecting" \in Stops /\ <<>> \in Seq(Frames) /\ <<>> \in Seq(Nat)
   BY DEF Stops
 <1>3. ASSUME NEW x \in {"get", "connecting"}
       PROVE  /\ We!End(x) \in Ends /\ We!End(x).at = x /\ We!End(x).out = <<>> /\ We!End(x).inbox = <<>>
              /\ We!End(x).got = <<>> /\ We!End(x).sent = 0 /\ We!End(x).pings = 0 /\ We!End(x).unanswered = 0
              /\ We!End(x).told = 0 /\ ~We!End(x).closed /\ ~We!End(x).callback /\ ~We!End(x).attached
              /\ ~We!End(x).waiting /\ ~We!End(x).pinging /\ ~We!End(x).clientTerm /\ ~We!End(x).serverTerm
              /\ ~We!End(x).fragmented
   BY <1>2 DEF We!End, Ends
 <1>4. wWe \in [We!Side -> Ends]
   BY <1>1, <1>3
 <1>5. ASSUME NEW p \in We!Side
       PROVE  /\ wWe[p].out = <<>> /\ Sound(p, wWe[p])
              /\ Within(wWe[p], MaxFramesWe[pingers][p])
              /\ Line(wWe[p], wWe[We!Other(p)].sent)
  <2> DEFINE x == IF p = "server" THEN "get" ELSE "connecting"
  <2>1. wWe[p] = We!End(x) /\ x \in {"get", "connecting"}
    BY <1>1
  <2>2. wWe[We!Other(p)].sent = 0
    BY <1>1, <1>3, OtherSide
  <2>3. Sound(p, We!End(x))
    BY <1>3 DEF Sound, We!Side
  <2>4. MaxFramesWe[pingers][p] \in Nat
    BY <1>1 DEF PingBounds
  <2>5. Within(We!End(x), MaxFramesWe[pingers][p])
    BY <2>1, <2>4, <1>3 DEF Within
  <2>6. Line(We!End(x), 0)
   <3>1. Counted(<<>>, 0) = 0 /\ Len(<<>>) = 0
     BY CountedNone
   <3>2. Numbered(<<>>, 0)
     BY <3>1 DEF Numbered
   <3>3. QED
     BY <3>1, <3>2, <2>1, <1>3 DEF Line
  <2>7. QED
    BY <2>1, <2>2, <2>3, <2>5, <2>6, <1>3
 <1>6. EndsInv
   BY <1>1, <1>4, <1>5 DEF EndsInv
 <1>7. wWe["client"].got = <<>> /\ wWe["client"].told = 0
   BY <1>1, <1>3 DEF We!Side
 <1>8. ReadersInv
  <2>1. read \o readqueue = <<>> /\ <<>> \o <<>> = <<>>
    BY <1>1
  <2>2. read \o readqueue = wWe["client"].got \o (IF wWe["client"].told = 1 THEN <<We!None>> ELSE <<>>)
    BY <2>1, <1>7
  <2>3. QED
    BY <2>2, <1>1, <1>2 DEF ReadersInv
 <1>9. QED
   BY <1>6, <1>8 DEF SocketInv

(* The closing handshake, the order of messages and the readers' answers   *)
(* follow.                                                                 *)
LEMMA SocketSound == ASSUME PingBounds, SocketInv PROVE We!WebSocketSound /\ We!TypeOK
 <1>1. EndsInv /\ ReadersInv
   BY DEF SocketInv
 <1>2. ASSUME NEW p \in We!Side
       PROVE  /\ wWe[p] \in Ends /\ wWe[p].out = <<>> /\ Sound(p, wWe[p])
              /\ Within(wWe[p], MaxFramesWe[pingers][p])
              /\ ~foreign => Line(wWe[p], wWe[We!Other(p)].sent)
   BY <1>1, EndAt
 <1>3. We!HandshakeEnds
   BY <1>2 DEF We!HandshakeEnds, Sound
 <1>4. We!InOrder
  <2> SUFFICES ASSUME ~foreign, NEW p \in We!Side
               PROVE  /\ \A i \in DOMAIN wWe[p].got : wWe[p].got[i] = i
                      /\ \A i \in DOMAIN wWe[p].inbox :
                           wWe[p].inbox[i].type = "close" /\ ~wWe[p].clientTerm =>
                             wWe[p].inbox[i].n = Len(wWe[p].got) + Counted(wWe[p].inbox, i)
    BY SameCardinalityWe DEF We!InOrder, Counted, Messages
  <2>1. Line(wWe[p], wWe[We!Other(p)].sent) /\ wWe[p] \in Ends
    BY <1>2
  <2>2. DOMAIN wWe[p].inbox = 1..Len(wWe[p].inbox)
    BY <2>1 DEF Ends
  <2>3. QED
    BY <2>1, <2>2 DEF Line, Numbered
 <1>5. We!ReadersAnswered
  <2>1. /\ read \o readqueue = wWe["client"].got \o (IF wWe["client"].told = 1 THEN <<We!None>> ELSE <<>>)
        /\ reading => readqueue = <<>>
        /\ read \in Seq(Nat) /\ wWe["client"].got \in Seq(Nat)
    BY <1>1, <1>2 DEF ReadersInv, We!Side, Ends
  <2>2. ASSUME reading, wWe["client"].told = 1
        PROVE  read # <<>> /\ read[Len(read)] = We!None
   <3>1. read \o <<>> = wWe["client"].got \o <<We!None>>
     BY <2>1, <2>2
   <3>2. read = Append(wWe["client"].got, We!None)
     BY <3>1, <2>1
   <3>3. We!None \in Nat
     BY DEF We!None
   <3>4. QED
     BY <3>2, <3>3, <2>1, AppendProperties, SMTT(30)
  <2>3. QED
    BY <2>1, <2>2 DEF We!ReadersAnswered
 <1>6. We!TypeOK
  <2>1. pingers \in DOMAIN MaxFramesWe /\ foreign \in BOOLEAN
        /\ connect \in {"pending", "open", "error"} /\ reading \in BOOLEAN
    BY <1>1 DEF EndsInv, ReadersInv
  <2>2. ASSUME NEW p \in We!Side
        PROVE  /\ wWe[p].at \in {"get", "opening", "connecting", "read", "handle", "idle"}
               /\ wWe[p].out = <<>> /\ wWe[p].told \in 0..1
               /\ wWe[p].unanswered \in 0..wWe[p].pings
               /\ wWe[p].sent + wWe[p].pings \in 0..MaxFramesWe[pingers][p]
   <3>1. /\ wWe[p].unanswered \in Nat /\ wWe[p].pings \in Nat /\ wWe[p].sent \in Nat
         /\ wWe[p].unanswered <= wWe[p].pings /\ wWe[p].sent + wWe[p].pings <= MaxFramesWe[pingers][p]
     BY <1>2 DEF Ends, Within
   <3>2. MaxFramesWe[pingers][p] \in Nat
     BY <2>1 DEF PingBounds
   <3>3. QED
     BY <3>1, <3>2, <1>2 DEF Ends, Stops
  <2>3. QED
    BY <2>1, <2>2 DEF We!TypeOK
 <1>7. QED
   BY <1>3, <1>4, <1>5, <1>6 DEF We!WebSocketSound

(* A step of the server's end that is no message for it.                   *)
LEMMA ServerSame ==
  ASSUME EndsInv, NEW p \in We!Side, NEW r, We!Becomes(p, r),
         p = "server" => r \in Ends /\ r.got = wWe["server"].got
  PROVE  wWe'["server"].got = wWe["server"].got
 <1>1. wWe \in [We!Side -> Ends] /\ "server" \in We!Side /\ "client" \in We!Side /\ wWe["server"] \in Ends
   BY DEF EndsInv, We!Side
 <1>2. CASE p = "server"
  <2>1. wWe'["server"] = [r EXCEPT !.out = <<>>]
    BY <1>1, <1>2 DEF We!Becomes, We!Other
  <2>2. QED
    BY <2>1, <1>2 DEF Ends
 <1>3. CASE p = "client"
  <2> DEFINE u == wWe["server"]
             inbox == u.inbox \o r.out
  <2>1. wWe'["server"] = IF u.closed THEN u ELSE [u EXCEPT !.inbox = inbox]
    BY <1>1, <1>3 DEF We!Becomes, We!Other
  <2> HIDE DEF inbox
  <2>2. QED
    BY <2>1, <1>1 DEF Ends
 <1>4. QED
   BY <1>2, <1>3 DEF We!Side

LEMMA ReceiveFrameGot ==
  ASSUME NEW t \in Ends, t.out = <<>>, NEW keep \in Nat
  PROVE  We!ReceiveFrame(t, keep) \in Ends /\ We!ReceiveFrame(t, keep).got = t.got
 <1> DEFINE u == [t EXCEPT !.at = "idle"]
            v == [t EXCEPT !.at = "read"]
 <1>1. u \in Ends /\ u.out = <<>> /\ u.got = t.got /\ v \in Ends /\ v.got = t.got
   BY DEF Ends, Stops
 <1>2. We!ReceiveFrame(t, keep) = We!Abort(u, keep) \/ We!ReceiveFrame(t, keep) = v
   BY DEF We!ReceiveFrame
 <1> HIDE DEF u, v
 <1>3. Shuts(u, We!Abort(u, keep))
   BY <1>1, AbortIs
 <1>4. We!Abort(u, keep) \in Ends /\ We!Abort(u, keep).got = t.got
   BY <1>1, <1>3 DEF Shuts
 <1>5. QED
   BY <1>1, <1>2, <1>4

LEMMA ServerReads ==
  ASSUME EndsInv, NEW t, t.got = wWe["server"].got, NEW r, Reads("server", t, r), We!Becomes("server", r)
  PROVE  wWe'["server"].got = wWe["server"].got
 <1>1. "server" \in We!Side
   BY DEF We!Side
 <1>2. QED
   BY <1>1, ServerSame DEF Reads, Outcome

LEMMA ServerShuts ==
  ASSUME EndsInv, NEW p \in We!Side, NEW r, Shuts(wWe[p], r), We!Becomes(p, r)
  PROVE  wWe'["server"].got = wWe["server"].got
 <1>1. r \in Ends /\ r.got = wWe[p].got
   BY DEF Shuts
 <1>2. QED
   BY <1>1, ServerSame

(* Only a frame that is read is a message for the handler.                 *)
LEMMA OnlyReadFrameGives ==
  ASSUME SocketInv, We!Next, ~We!ReadFrame("server")
  PROVE  wWe'["server"].got = wWe["server"].got
 <1> DEFINE s == wWe["server"]
 <1>1. EndsInv /\ "server" \in We!Side /\ "client" \in We!Side /\ s \in Ends /\ s.out = <<>>
       /\ Sound("server", s) /\ Base("server", s)
  <2>1. EndsInv /\ "server" \in We!Side /\ "client" \in We!Side
    BY DEF SocketInv, We!Side
  <2>2. QED
    BY <2>1, EndAt, BaseAt
 <1>2. ASSUME NEW p \in We!Side, NEW keep \in We!Keeps
       PROVE  /\ Shuts(wWe[p], We!StreamClose(wWe[p], keep)) /\ Shuts(wWe[p], We!Abort(wWe[p], keep))
              /\ Shuts(wWe[p], We!Close(wWe[p], keep))
  <2>1. wWe[p] \in Ends /\ wWe[p].out = <<>> /\ keep \in Nat
    BY <1>1, EndAt DEF We!Keeps
  <2>2. QED
    BY <2>1, StreamCloseIs, AbortIs, CloseIs
 <1>3. CASE We!Refuse
  <2> DEFINE u == [s EXCEPT !.at = "idle"]
             r == We!StreamClose(u, 0)
  <2>1. u \in Ends /\ u.out = <<>> /\ u.got = s.got
    BY <1>1 DEF Ends, Stops
  <2> HIDE DEF u
  <2>2. Shuts(u, r)
    BY <2>1, StreamCloseIs
  <2>3. r \in Ends /\ r.got = s.got
    BY <2>1, <2>2 DEF Shuts
  <2>4. We!Becomes("server", r)
    BY <1>3 DEF We!Refuse, u
  <2>5. QED
    BY <2>3, <2>4, <1>1, ServerSame
 <1>4. CASE We!Accept
  <2> DEFINE b == "server" \in pingers
             r == [s EXCEPT !.at = "opening", !.attached = TRUE, !.pinging = b]
  <2>1. We!Becomes("server", r) /\ b \in BOOLEAN
    BY <1>4 DEF We!Accept
  <2> HIDE DEF b
  <2>2. r \in Ends /\ r.got = s.got
    BY <2>1, <1>1 DEF Ends, Stops
  <2>3. QED
    BY <2>1, <2>2, <1>1, ServerSame
 <1>5. CASE We!Opened
  <2>1. PICK keep \in We!Keeps : \E t \in {s, We!Abort(s, 0)} : We!Becomes("server", We!ReceiveFrame(t, keep))
    BY <1>5 DEF We!Opened
  <2>2. PICK t \in {s, We!Abort(s, 0)} : We!Becomes("server", We!ReceiveFrame(t, keep))
    BY <2>1
  <2>3. t \in Ends /\ t.out = <<>> /\ t.got = s.got
   <3>1. Shuts(s, We!Abort(s, 0)) /\ We!Abort(s, 0).out = <<>>
     BY <1>1, AbortIs
   <3>2. We!Abort(s, 0) \in Ends /\ We!Abort(s, 0).got = s.got
     BY <3>1 DEF Shuts
   <3>3. QED
     BY <3>1, <3>2, <2>2, <1>1
  <2>4. We!ReceiveFrame(t, keep) \in Ends /\ We!ReceiveFrame(t, keep).got = t.got
    BY <2>3, ReceiveFrameGot DEF We!Keeps
  <2>5. QED
    BY <2>2, <2>3, <2>4, <1>1, ServerSame
 <1>6. CASE We!HandleDone
  <2>1. PICK keep \in We!Keeps :
          \/ We!Becomes("server", We!ReceiveUnlessTerminated(s, keep))
          \/ We!Becomes("server", We!Abort([s EXCEPT !.at = "idle"], keep))
    BY <1>6 DEF We!HandleDone
  <2> DEFINE u == [s EXCEPT !.at = "idle"]
  <2>2. u \in Ends /\ u.got = s.got /\ u.out = <<>> /\ keep \in Nat
   <3>1. keep \in Nat
     BY DEF We!Keeps
   <3>2. u \in Ends /\ u.got = s.got /\ u.out = <<>>
    <4> HIDE DEF s
    <4>1. QED
      BY <1>1 DEF Ends, Stops
   <3>3. QED
     BY <3>1, <3>2
  <2>3. We!ReceiveUnlessTerminated(s, keep) = u \/ We!ReceiveUnlessTerminated(s, keep) = We!ReceiveFrame(s, keep)
    BY DEF We!ReceiveUnlessTerminated
  <2>4. /\ We!ReceiveFrame(s, keep) \in Ends /\ We!ReceiveFrame(s, keep).got = s.got
    BY <1>1, <2>2, ReceiveFrameGot
  <2> HIDE DEF u
  <2>5. We!Abort(u, keep) \in Ends /\ We!Abort(u, keep).got = s.got
   <3>1. Shuts(u, We!Abort(u, keep))
     BY <2>2, AbortIs
   <3>2. QED
     BY <3>1, <2>2 DEF Shuts
  <2>6. \/ We!Becomes("server", u)
        \/ We!Becomes("server", We!ReceiveFrame(s, keep))
        \/ We!Becomes("server", We!Abort(u, keep))
    BY <2>1, <2>3 DEF u
  <2>7. QED
    BY <2>2, <2>4, <2>5, <2>6, <1>1, ServerSame
 <1>7. ASSUME NEW p \in We!Side, We!WriteMessage(p)
       PROVE  wWe'["server"].got = wWe["server"].got
  <2> DEFINE f == We!Frame("message", wWe[p].sent + 1)
             t == wWe[p]
             sent == t.sent + 1
             out == Append(t.out, f)
             r == [t EXCEPT !.out = out, !.sent = sent]
  <2>1. t \in Ends /\ ~t.closed
    BY <1>1, <1>7, EndAt DEF We!WriteMessage
  <2>2. f \in Frames /\ sent \in Nat
    BY <2>1 DEF Ends, We!Frame, Frames, FrameTypes
  <2>3. out \in Seq(Frames)
    BY <2>1, <2>2, AppendProperties DEF Ends
  <2>4. We!Becomes(p, r)
    BY <1>7, <2>1 DEF We!WriteMessage, We!WriteFrame, Ends
  <2> HIDE DEF t, f, sent, out
  <2>5. r \in Ends /\ r.got = t.got
    BY <2>1, <2>2, <2>3 DEF Ends
  <2>6. QED
    BY <2>4, <2>5, <1>1, ServerSame DEF t
 <1>8. ASSUME NEW p \in We!Side, We!CloseByApp(p)
       PROVE  wWe'["server"].got = wWe["server"].got
  <2>1. PICK keep \in We!Keeps :
          We!Becomes(p, [We!Close(wWe[p], keep) EXCEPT !.attached = FALSE, !.byApp = TRUE])
    BY <1>8 DEF We!CloseByApp
  <2> DEFINE u == We!Close(wWe[p], keep)
             r == [u EXCEPT !.attached = FALSE, !.byApp = TRUE]
  <2>2. u \in Ends /\ u.got = wWe[p].got
    BY <1>2 DEF Shuts
  <2>3. We!Becomes(p, r)
    BY <2>1
  <2> HIDE DEF u
  <2>4. r \in Ends /\ r.got = u.got
    BY <2>2 DEF Ends
  <2>5. QED
    BY <2>2, <2>3, <2>4, <1>1, ServerSame
 <1>9. ASSUME NEW p \in We!Side, We!PeriodicPing(p)
       PROVE  wWe'["server"].got = wWe["server"].got
  <2> DEFINE t == wWe[p]
  <2>1. t \in Ends
    BY <1>1, EndAt
  <2>2. CASE t.closed /\ We!Becomes(p, [t EXCEPT !.pinging = FALSE])
   <3>1. [t EXCEPT !.pinging = FALSE] \in Ends /\ [t EXCEPT !.pinging = FALSE].got = t.got
     BY <2>1 DEF Ends
   <3>2. QED
     BY <3>1, <2>2, <1>1, ServerSame
  <2>3. ASSUME NEW keep \in We!Keeps, We!Becomes(p, We!Close(t, keep))
        PROVE  wWe'["server"].got = wWe["server"].got
    BY <2>3, <1>1, <1>2, ServerShuts
  <2>4. ASSUME ~t.closed,
               We!Becomes(p, [We!WriteFrame(t, We!Frame("ping", 0)) EXCEPT !.pings = @ + 1, !.unanswered = @ + 1])
        PROVE  wWe'["server"].got = wWe["server"].got
   <3> DEFINE f == We!Frame("ping", 0)
              pings == t.pings + 1
              unanswered == t.unanswered + 1
              out == Append(t.out, f)
              r == [t EXCEPT !.out = out, !.pings = pings, !.unanswered = unanswered]
   <3>1. f \in Frames /\ pings \in Nat /\ unanswered \in Nat
     BY <2>1 DEF Ends, We!Frame, Frames, FrameTypes
   <3>2. out \in Seq(Frames)
     BY <2>1, <3>1, AppendProperties DEF Ends
   <3>3. We!Becomes(p, r)
     BY <2>1, <2>4 DEF We!WriteFrame, Ends
   <3> HIDE DEF t, f, pings, unanswered, out
   <3>4. r \in Ends /\ r.got = t.got
     BY <2>1, <3>1, <3>2 DEF Ends
   <3>5. QED
     BY <3>3, <3>4, <1>1, ServerSame DEF t
  <2>5. QED
    BY <1>9, <2>2, <2>3, <2>4 DEF We!PeriodicPing
 <1>10. ASSUME NEW p \in We!Side, We!WaitingTimeout(p) \/ We!EndOfStream(p) \/ We!Break(p)
        PROVE  wWe'["server"].got = wWe["server"].got
  <2>1. PICK keep \in We!Keeps : We!Becomes(p, We!Abort(wWe[p], keep)) \/ We!Becomes(p, We!StreamClose(wWe[p], keep))
   <3>1. 0 \in We!Keeps
     BY DEF We!Keeps
   <3>2. QED
     BY <3>1, <1>10 DEF We!WaitingTimeout, We!EndOfStream, We!Break
  <2>2. QED
    BY <2>1, <1>1, <1>2, ServerShuts
 <1>11. CASE We!CloseCallback("server")
  <2> DEFINE told == s.told + 1
             t == [s EXCEPT !.callback = FALSE, !.told = told]
             a == We!Abort(t, 0)
             b == [a EXCEPT !.attached = FALSE]
  <2>1. We!Becomes("server", IF s.attached THEN b ELSE t) /\ s.callback
    BY <1>11 DEF We!CloseCallback
  <2>2. s.told = 0
    BY <2>1, <1>1 DEF Sound
  <2>3. told = 1 /\ told \in 0..1
    BY <2>2
  <2> HIDE DEF told
  <2>4. t \in Ends /\ t.got = s.got /\ t.out = <<>>
    BY <2>3, <1>1 DEF Ends
  <2> HIDE DEF t
  <2>5. Shuts(t, a)
    BY <2>4, AbortIs
  <2>6. a \in Ends /\ a.got = s.got
    BY <2>4, <2>5 DEF Shuts
  <2> HIDE DEF a
  <2>7. b \in Ends /\ b.got = s.got
    BY <2>6 DEF Ends
  <2> HIDE DEF b
  <2>8. We!Becomes("server", b) \/ We!Becomes("server", t)
    BY <2>1
  <2>9. QED
    BY <2>4, <2>7, <2>8, <1>1, ServerSame
 <1>12. ASSUME NEW r, We!Becomes("client", r)
        PROVE  wWe'["server"].got = wWe["server"].got
   BY <1>1, <1>12, ServerSame
 <1>13. CASE We!Connected \/ We!ForeignFrame \/ We!ReadFrame("client") \/ We!CloseCallback("client")
  <2>1. \E r : We!Becomes("client", r)
   <3>1. CASE We!Connected
     BY <3>1 DEF We!Connected
   <3>2. CASE We!ForeignFrame
     BY <3>2 DEF We!ForeignFrame
   <3>3. CASE We!ReadFrame("client")
     BY <3>3 DEF We!ReadFrame
   <3>4. CASE We!CloseCallback("client")
     BY <3>4 DEF We!CloseCallback
   <3>5. QED
     BY <1>13, <3>1, <3>2, <3>3, <3>4
  <2>2. QED
    BY <2>1, <1>12
 <1>14. CASE We!ReadMessage
   BY <1>14 DEF We!ReadMessage
 <1>15. QED
  <2>1. ASSUME NEW p \in We!Side, We!ReadFrame(p) \/ We!CloseCallback(p)
        PROVE  wWe'["server"].got = wWe["server"].got
    BY <2>1, <1>11, <1>13 DEF We!Side
  <2>2. QED
    BY <1>3, <1>4, <1>5, <1>6, <1>7, <1>8, <1>9, <1>10, <1>13, <1>14, <2>1 DEF We!Next

(* After on_close nothing is given to a handler that did not close itself. *)
LEMMA QuietNext == ASSUME SocketInv, We!Next PROVE We!QuietWhenTold
 <1> SUFFICES ASSUME wWe["server"].told = 1, We!ReadFrame("server"), ~wWe["server"].byApp
              PROVE  wWe'["server"].got = wWe["server"].got
   BY OnlyReadFrameGives DEF We!QuietWhenTold
 <1> DEFINE s == wWe["server"]
            t == Taken(s)
 <1>1. PICK keep \in We!Keeps : We!Becomes("server", We!OnFrame(t, Head(s.inbox), keep))
   BY DEF We!ReadFrame, Taken
 <1>2. EndsInv /\ "server" \in We!Side /\ keep \in Nat /\ s.at = "read" /\ s.inbox # <<>>
   BY DEF SocketInv, We!Side, We!Keeps, We!ReadFrame
 <1>3. s \in Ends /\ Sound("server", s)
   BY <1>2, EndAt
 <1>4. t.got = s.got /\ t.clientTerm = s.clientTerm
   BY <1>2, <1>3, TakenIs
 <1>5. s.clientTerm
   BY <1>2, <1>3 DEF Sound
 <1>6. Reads("server", t, We!OnFrame(t, Head(s.inbox), keep))
   BY <1>2, <1>4, <1>5, OnFrameIs
 <1>7. QED
   BY <1>1, <1>2, <1>4, <1>6, ServerReads

(* Whatever way a connection begins to end, it does end and is told so;    *)
(* messages arrive in order, and each is given to one reader; a handler    *)
(* that was told of the end and did not close hears no more.               *)
THEOREM SocketsAreSound ==
  PingBounds => (We!Spec => [](We!TypeOK /\ We!WebSocketSound) /\ We!QuietAfterClose)
 <1> SUFFICES ASSUME PingBounds PROVE We!Spec => [](We!TypeOK /\ We!WebSocketSound) /\ We!QuietAfterClose
   OBVIOUS
 <1>1. We!Init => SocketInv
   BY SocketInit
 <1>2. SocketInv /\ [We!Next]_(We!vars) => SocketInv'
   BY SocketNext
 <1>3. SocketInv => We!TypeOK /\ We!WebSocketSound
   BY SocketSound
 <1>4. SocketInv /\ [We!Next]_(We!vars) => [We!QuietWhenTold]_(We!vars)
   BY QuietNext
 <1>5. QED
   BY <1>1, <1>2, <1>3, <1>4, PTL DEF We!Spec, We!QuietAfterClose

HIDE DEF pingers, foreign, wWe, connect, readqueue, reading, read
=============================================================================
