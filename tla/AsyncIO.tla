------------------------------ MODULE AsyncIO ------------------------------
(* A buffered file stream of asyncio.c: while the caller fills or empties   *)
(* one buffer, a packet with the other is at the file system.  One stream,  *)
(* its caller and the file system's handler.  A byte is the number of its   *)
(* place in the file, so that a lost, repeated or misplaced byte shows.     *)
EXTENDS Integers, Sequences

CONSTANTS
  BufferSize,   \* af_BufferSize, in bytes
  MaxCall,      \* the most bytes of one ReadAsync() or WriteAsync()
  MaxFile,      \* bound: the most bytes of a file
  MaxErrors,    \* bound: how often the handler reports an error
  Retry         \* whether the user answers Retry also before the stream is closed

ASSUME AsyncIOAssumption ==
  /\ BufferSize \in Nat \ {0} /\ MaxCall \in Nat /\ MaxFile \in Nat
  /\ MaxErrors \in Nat /\ Retry \in BOOLEAN

VARIABLES
  mode,        \* "closed", or the mode the stream was opened with
  handler,     \* af_Handler: FALSE for NIL:
  disk,        \* the bytes of the file
  filepos,     \* the position of the file handle when reading
  buffers,     \* af_Buffers: what is in the two buffers
  current,     \* af_CurrentBuf
  offset,      \* af_Offset, relative to the buffer it points into
  bytesLeft,   \* af_BytesLeft
  pending,     \* af_PacketPending
  packet,      \* where the packet is, its buffer (dp_Arg2) and dp_Res1
  call,        \* the call that waits for the packet, and its bytes to go
  given,       \* the last byte the writer gave
  got,         \* the bytes the reader got
  result,      \* what the last call that tells returned
  errors       \* how many errors the handler reported

streamVars == <<mode, handler, disk, filepos, buffers, current, offset, bytesLeft,
                pending, packet, call, given, got, result, errors>>

Place == 1..BufferSize
Upto(n) == [i \in 1..n |-> i]
NoCall == [op |-> "none", n |-> 0, retried |-> FALSE]
Reading == mode = "MODE_READ"
Writing == mode \in {"MODE_WRITE", "MODE_APPEND"}

\* SendPacket(): arg2 is the buffer to be written or filled.
Sent(arg2) == [at |-> "handler", arg2 |-> arg2, res1 |-> 0]

\* A file on the disk, or NIL:, and no stream.
StreamInit ==
  /\ mode = "closed" /\ handler \in BOOLEAN
  /\ disk \in {Upto(n) : n \in 0..MaxFile} /\ (~handler => disk = <<>>)
  /\ filepos = 0 /\ buffers = [b \in {0, 1} |-> [p \in Place |-> 0]]
  /\ current = 0 /\ offset = 0 /\ bytesLeft = 0
  /\ pending = FALSE /\ packet = [at |-> "nowhere", arg2 |-> 0, res1 |-> 0]
  /\ call = NoCall /\ given = 0 /\ got = <<>> /\ result = "none" /\ errors = 0

------------------------------------------------------------------------------
(* The handler: the external file system, one packet of the stream at a     *)
(* time.  It writes what the buffer holds at that moment.                   *)

HandlerFills ==
  /\ packet.at = "handler" /\ Reading
  /\ LET n == IF Len(disk) - filepos < BufferSize THEN Len(disk) - filepos ELSE BufferSize
     IN /\ buffers' = [buffers EXCEPT ![packet.arg2] =
                         [p \in Place |-> IF p <= n THEN disk[filepos + p] ELSE @[p]]]
        /\ filepos' = filepos + n
        /\ packet' = [packet EXCEPT !.at = "port", !.res1 = n]
  /\ UNCHANGED <<mode, handler, disk, current, offset, bytesLeft, pending, call,
                 given, got, result, errors>>

HandlerWrites ==
  /\ packet.at = "handler" /\ Writing
  /\ disk' = disk \o [p \in Place |-> buffers[packet.arg2][p]]
  /\ packet' = [packet EXCEPT !.at = "port", !.res1 = BufferSize]
  /\ UNCHANGED <<mode, handler, filepos, buffers, current, offset, bytesLeft, pending,
                 call, given, got, result, errors>>

HandlerFails ==
  /\ packet.at = "handler" /\ errors < MaxErrors
  /\ packet' = [packet EXCEPT !.at = "port", !.res1 = -1]
  /\ errors' = errors + 1
  /\ UNCHANGED <<mode, handler, disk, filepos, buffers, current, offset, bytesLeft,
                 pending, call, given, got, result>>

------------------------------------------------------------------------------
(* WaitPacket(): the packet that comes back is taken from the port.  The    *)
(* flag is cleared before that, and set again by a retry.                   *)

Taken(ok) ==
  /\ call.op # "none"
  /\ \/ pending /\ packet.at = "port" /\ ok = (packet.res1 >= 0)
     \/ ~pending /\ ok = (packet.res1 >= 0)

NowhereNow == [packet EXCEPT !.at = "nowhere"]
PendingAfterUncleared == pending
PendingAfter == pending /\ call.retried

\* The requester for an error is answered with Retry: the packet is sent
\* with the current buffer.
WaitPacketRetry ==
  /\ call.op # "none" /\ pending /\ packet.at = "port" /\ packet.res1 < 0
  /\ Retry \/ (Reading /\ call.op = "close")
  /\ packet' = Sent(current)
  /\ call' = [call EXCEPT !.retried = TRUE]
  /\ UNCHANGED <<mode, handler, disk, filepos, buffers, current, offset, bytesLeft,
                 pending, given, got, result, errors>>

\* Cancel, or the error of an earlier packet: ReadAsync() and WriteAsync()
\* return -1.
CallFails ==
  /\ call.op \in {"read", "write"} /\ Taken(FALSE)
  /\ packet' = NowhereNow /\ pending' = PendingAfter
  /\ call' = NoCall
  /\ UNCHANGED <<mode, handler, disk, filepos, buffers, current, offset, bytesLeft,
                 given, got, result, errors>>

------------------------------------------------------------------------------
(* Calls of the stream's owner.                                             *)

\* OpenAsync(): reading sends the first packet at once.  An append keeps the
\* file, a write starts it anew.
OpenAsync(m) ==
  /\ mode = "closed" /\ mode' = m
  /\ disk' = IF m = "MODE_WRITE" THEN <<>> ELSE disk
  /\ given' = Len(disk')
  /\ filepos' = 0 /\ current' = 0 /\ offset' = 0 /\ got' = <<>> /\ result' = "none"
  /\ call' = NoCall
  /\ IF m = "MODE_READ"
     THEN /\ bytesLeft' = 0 /\ pending' = handler
          /\ packet' = IF handler THEN Sent(0) ELSE [at |-> "nowhere", arg2 |-> 0, res1 |-> 0]
     ELSE /\ bytesLeft' = BufferSize /\ pending' = FALSE
          /\ packet' = [at |-> "nowhere", arg2 |-> 0, res1 |-> 0]
  /\ UNCHANGED <<handler, buffers, errors>>

\* A mutant for the checks: af_BytesLeft is not set to 0 when it is drained.
CopyOutUncounted(b, o, left, n) ==
  /\ got' = got \o [p \in 1..(IF n <= left THEN n ELSE left) |-> buffers[b][o + p]]
  /\ bytesLeft' = left - n /\ offset' = o + n
  /\ call' = IF n <= left THEN NoCall ELSE [op |-> "read", n |-> n - left, retried |-> FALSE]

\* CopyMem() in the loop of ReadAsync(), with n bytes to go and left of them
\* in buffer b from place o: the call returns, or it needs the packet.
CopyOut(b, o, left, n) ==
  LET k == IF n <= left THEN n ELSE left
  IN /\ got' = got \o [p \in 1..k |-> buffers[b][o + p]]
     /\ bytesLeft' = left - k /\ offset' = o + k
     /\ call' = IF n <= left THEN NoCall ELSE [op |-> "read", n |-> n - k, retried |-> FALSE]

ReadAsync(n) ==
  /\ Reading /\ call = NoCall
  /\ CopyOut(1 - current, offset, bytesLeft, n)
  /\ UNCHANGED <<mode, handler, disk, filepos, buffers, current, pending, packet,
                 given, result, errors>>

\* A mutant for the checks: the buffer that was just filled is sent.
ReadAsyncGoesOnSame ==
  /\ call.op = "read" /\ Taken(TRUE) /\ packet.res1 > 0
  /\ packet' = Sent(current) /\ pending' = TRUE
  /\ current' = 1 - current
  /\ CopyOut(current, 0, packet.res1, call.n)
  /\ UNCHANGED <<mode, handler, disk, filepos, buffers, given, result, errors>>

\* One more round of the loop: the filled buffer becomes the one to read, and
\* the other is sent to be filled.
ReadAsyncGoesOn ==
  /\ call.op = "read" /\ Taken(TRUE) /\ packet.res1 > 0
  /\ packet' = Sent(1 - current) /\ pending' = TRUE
  /\ current' = 1 - current
  /\ CopyOut(current, 0, packet.res1, call.n)
  /\ UNCHANGED <<mode, handler, disk, filepos, buffers, given, result, errors>>

ReadAsyncEnds ==
  /\ call.op = "read" /\ Taken(TRUE) /\ packet.res1 = 0
  /\ packet' = NowhereNow /\ pending' = PendingAfter
  /\ call' = NoCall /\ result' = "eof"
  /\ UNCHANGED <<mode, handler, disk, filepos, buffers, current, offset, bytesLeft,
                 given, got, errors>>

\* CopyMem() in the loop of WriteAsync(), with n bytes to go and left places
\* free in buffer b.  The count of free places changes only when all fits.
CopyIn(b, left, n) ==
  LET k == IF n <= left THEN n ELSE left
      from == BufferSize - left
  IN /\ buffers' = [buffers EXCEPT ![b] =
                      [p \in Place |-> IF p \in from + 1..from + k THEN given + p - from ELSE @[p]]]
     /\ given' = given + k
     /\ bytesLeft' = IF n <= left THEN left - n ELSE left
     /\ call' = IF n <= left THEN NoCall ELSE [op |-> "write", n |-> n - k, retried |-> FALSE]

WriteAsync(n) ==
  /\ Writing /\ call = NoCall /\ given + n <= MaxFile
  /\ IF handler \/ n <= bytesLeft
     THEN CopyIn(current, bytesLeft, n)
     ELSE /\ bytesLeft' = BufferSize
          /\ UNCHANGED <<buffers, given, call>>
  /\ UNCHANGED <<mode, handler, disk, filepos, current, offset, pending, packet,
                 got, result, errors>>

\* One more round of the loop: the full buffer is sent, and the other is used.
WriteAsyncGoesOn ==
  /\ call.op = "write" /\ Taken(TRUE)
  /\ packet' = Sent(current) /\ pending' = TRUE
  /\ current' = 1 - current
  /\ CopyIn(1 - current, BufferSize, call.n)
  /\ UNCHANGED <<mode, handler, disk, filepos, offset, got, result, errors>>

\* CloseAsync() waits for the packet first.
CloseAsync ==
  /\ mode # "closed" /\ call = NoCall
  /\ call' = [op |-> "close", n |-> 0, retried |-> FALSE]
  /\ UNCHANGED <<mode, handler, disk, filepos, buffers, current, offset, bytesLeft,
                 pending, packet, given, got, result, errors>>

\* Then it writes what is in the current buffer, which may fail, and closes.
CloseAsyncEnds(ok, fails) ==
  /\ call.op = "close" /\ Taken(ok)
  /\ fails => ok /\ Writing /\ errors < MaxErrors
  /\ LET rest == [p \in 1..BufferSize - bytesLeft |-> buffers[current][p]]
     IN disk' = IF ok /\ Writing /\ handler /\ ~fails THEN disk \o rest ELSE disk
  /\ result' = IF ok /\ ~fails THEN "saved" ELSE "lost"
  /\ errors' = IF fails THEN errors + 1 ELSE errors
  /\ mode' = "closed" /\ call' = NoCall /\ pending' = FALSE /\ packet' = NowhereNow
  /\ UNCHANGED <<handler, filepos, buffers, current, offset, bytesLeft, given, got>>

Handler == HandlerFills \/ HandlerWrites \/ HandlerFails

Owner ==
  \/ \E m \in {"MODE_READ", "MODE_WRITE", "MODE_APPEND"} : OpenAsync(m)
  \/ \E n \in 1..MaxCall : ReadAsync(n) \/ WriteAsync(n)
  \/ WaitPacketRetry \/ CallFails
  \/ ReadAsyncGoesOn \/ ReadAsyncEnds \/ WriteAsyncGoesOn
  \/ CloseAsync
  \/ \E ok, fails \in BOOLEAN : CloseAsyncEnds(ok, fails)

StreamNext == Handler \/ Owner

StreamSpec == StreamInit /\ [][StreamNext]_streamVars

\* The handler answers every packet, and a call that can go on does.
StreamFairness ==
  /\ WF_streamVars(Handler)
  /\ WF_streamVars(CallFails \/ ReadAsyncGoesOn \/ ReadAsyncEnds \/ WriteAsyncGoesOn
                     \/ \E ok, fails \in BOOLEAN : CloseAsyncEnds(ok, fails))

------------------------------------------------------------------------------
(* Properties. *)

StreamTypeOK ==
  /\ mode \in {"closed", "MODE_READ", "MODE_WRITE", "MODE_APPEND"}
  /\ handler \in BOOLEAN /\ pending \in BOOLEAN
  /\ disk \in Seq(Nat) /\ got \in Seq(Nat) /\ filepos \in Nat /\ given \in Nat
  /\ buffers \in [{0, 1} -> [Place -> Nat]] /\ current \in {0, 1}
  /\ offset \in 0..BufferSize /\ bytesLeft \in 0..BufferSize
  /\ packet \in [at : {"nowhere", "handler", "port"}, arg2 : {0, 1}, res1 : -1..BufferSize]
  /\ call \in [op : {"none", "read", "write", "close"}, n : Nat, retried : BOOLEAN]
  /\ result \in {"none", "eof", "saved", "lost"} /\ errors \in 0..MaxErrors

\* The error of a packet is kept once the packet is no longer pending.
Failed == mode # "closed" /\ ~pending /\ packet.res1 < 0

\* What was given to a stream and is not on the disk: the packet that is not
\* written yet and the used part of the current buffer.
Underway ==
  IF packet.at = "handler" \/ (packet.at = "port" /\ packet.res1 < 0)
  THEN buffers[packet.arg2] ELSE <<>>
Filled == [p \in 1..BufferSize - bytesLeft |-> buffers[current][p]]

Plain == INSTANCE PlainFile WITH
  opened <- CASE mode = "closed" -> "closed" [] Reading -> "read" [] OTHER -> "write",
  contents <- IF Writing /\ handler /\ ~Failed THEN disk \o Underway \o Filled ELSE disk,
  delivered <- got,
  broken <- Failed,
  outcome <- result

\* A stream behaves like a plain file: the caller reads the bytes of the file
\* in order, and a file that CloseAsync() reports as written holds all bytes
\* in the order they were given, however packets and calls interleave.
StreamIsPlainFile == Plain!PlainSpec

\* Every call on a stream returns.
StreamCallReturns == []<>(call.op = "none")

=============================================================================
