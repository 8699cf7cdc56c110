--------------------------- MODULE AsyncIO_proofs ---------------------------
(* The double buffer of a stream implements a plain file, for buffers,      *)
(* calls and files of any size and any number of errors.                    *)
EXTENDS AsyncIO, SeqLemmas

-----------------------------------------------------------------------------
(* The inductive invariant. *)

\* The packet, the call that waits for it and the mode agree.
CallInv ==
  /\ pending <=> packet.at # "nowhere"
  /\ mode = "closed" => ~pending /\ call.op = "none"
  /\ call.op = "read" => Reading /\ bytesLeft = 0
  /\ call.op = "write" => Writing /\ handler
  /\ call.retried => call.op = "close"
  /\ ~handler => disk = <<>> /\ packet.at = "nowhere" /\ packet.res1 = 0

\* A packet that read n bytes which the caller has not seen yet.
Came == IF packet.at = "port" /\ packet.res1 > 0 THEN packet.res1 ELSE 0

\* The caller has the first bytes of the file, the next ones are in one
\* buffer, and those after them in the other as soon as the packet is back.
ReadInv ==
  Reading =>
    /\ offset + bytesLeft <= BufferSize
    /\ packet.at # "nowhere" => packet.arg2 = current
    /\ filepos = Len(got) + bytesLeft + Came /\ filepos <= Len(disk)
    /\ \A i \in 1..Len(got) : got[i] = disk[i]
    /\ \A p \in 1..bytesLeft : buffers[1 - current][offset + p] = disk[Len(got) + p]
    /\ \A p \in 1..Came : buffers[current][p] = disk[Len(got) + bytesLeft + p]
    /\ packet.at # "handler" /\ packet.res1 = 0 => filepos = Len(disk)
    /\ packet.at = "nowhere" => packet.res1 <= 0
    /\ Failed => bytesLeft = 0

\* What is being written is not the buffer that is being filled.
WriteInv == Writing /\ packet.at # "nowhere" => packet.arg2 = 1 - current

StreamInv == StreamTypeOK /\ CallInv /\ ReadInv /\ WriteInv

-----------------------------------------------------------------------------
(* Sequences of bytes. *)

LEMMA BufferIsSeq ==
  ASSUME NEW n \in Nat, NEW f \in [1..n -> Nat]
  PROVE  f \in Seq(Nat) /\ Len(f) = n
OBVIOUS

\* A sequence that goes on as another one does.
LEMMA PrefixFacts ==
  ASSUME NEW a \in Seq(Nat), NEW b \in Seq(Nat), Len(a) <= Len(b),
         \A i \in 1..Len(a) : b[i] = a[i]
  PROVE  /\ SubSeq(b, 1, Len(a)) = a
         /\ Len(a) = Len(b) => a = b
<1>1. SubSeq(b, 1, Len(a)) \in Seq(Nat) /\ Len(SubSeq(b, 1, Len(a))) = Len(a)
  OBVIOUS
<1>2. \A i \in 1..Len(a) : SubSeq(b, 1, Len(a))[i] = a[i]
  OBVIOUS
<1>3. SubSeq(b, 1, Len(a)) = a
  BY <1>1, <1>2
<1>. QED  BY <1>3

\* What is known of a state in which the invariant holds.
LEMMA StreamFacts ==
  ASSUME StreamInv
  PROVE  /\ BufferSize \in Nat /\ BufferSize > 0 /\ MaxErrors \in Nat
         /\ bytesLeft \in Nat /\ bytesLeft <= BufferSize
         /\ offset \in Nat /\ offset <= BufferSize
         /\ filepos \in Nat /\ given \in Nat
         /\ disk \in Seq(Nat) /\ got \in Seq(Nat) /\ Len(disk) \in Nat /\ Len(got) \in Nat
         /\ current \in {0, 1} /\ 1 - current \in {0, 1} /\ 1 - (1 - current) = current
         /\ buffers \in [{0, 1} -> [Place -> Nat]] /\ Place = 1..BufferSize
         /\ packet.at \in {"nowhere", "handler", "port"} /\ packet.arg2 \in {0, 1}
         /\ packet.res1 \in Int /\ -1 <= packet.res1 /\ packet.res1 <= BufferSize
         /\ call.op \in {"none", "read", "write", "close"} /\ call.n \in Nat
         /\ call.retried \in BOOLEAN /\ pending \in BOOLEAN
BY AsyncIOAssumption DEF StreamInv, StreamTypeOK, Place

-----------------------------------------------------------------------------
(* Every step keeps the invariant. *)

LEMMA InitKeeps ==
  ASSUME StreamInit
  PROVE  StreamInv
<1>1. disk \in Seq(Nat)
  <2>1. PICK n \in 0..MaxFile : disk = Upto(n)
    BY DEF StreamInit
  <2>2. n \in Nat /\ Upto(n) \in [1..n -> Nat]
    BY AsyncIOAssumption DEF Upto
  <2>. QED  BY <2>1, <2>2, BufferIsSeq
<1>2. buffers \in [{0, 1} -> [Place -> Nat]]
  BY DEF StreamInit
<1>3. packet \in [at : {"nowhere", "handler", "port"}, arg2 : {0, 1}, res1 : -1..BufferSize]
  <2>1. 0 \in -1..BufferSize
    BY AsyncIOAssumption
  <2>. QED  BY <2>1 DEF StreamInit
<1>4. call \in [op : {"none", "read", "write", "close"}, n : Nat, retried : BOOLEAN]
  BY DEF StreamInit, NoCall
<1>5. got \in Seq(Nat)
  BY DEF StreamInit
<1>6. offset \in 0..BufferSize /\ bytesLeft \in 0..BufferSize /\ errors \in 0..MaxErrors
  BY AsyncIOAssumption DEF StreamInit
<1>7. StreamTypeOK
  BY <1>1, <1>2, <1>3, <1>4, <1>5, <1>6 DEF StreamInit, StreamTypeOK
<1>. QED
  BY <1>7 DEF StreamInit, StreamInv, CallInv, ReadInv, WriteInv, Reading, Writing, NoCall

\* A packet that comes back.
LEMMA PacketBack ==
  ASSUME StreamInv, NEW n \in -1..BufferSize,
         packet' = [packet EXCEPT !.at = "port", !.res1 = n]
  PROVE  /\ packet'.at = "port" /\ packet'.res1 = n /\ packet'.arg2 = packet.arg2
         /\ packet' \in [at : {"nowhere", "handler", "port"}, arg2 : {0, 1}, res1 : -1..BufferSize]
<1>1. packet \in [at : {"nowhere", "handler", "port"}, arg2 : {0, 1}, res1 : -1..BufferSize]
  BY DEF StreamInv, StreamTypeOK
<1>. QED  BY <1>1

LEMMA HandlerFillsKeeps ==
  ASSUME StreamInv, HandlerFills
  PROVE  StreamInv'
<1>. DEFINE n == IF Len(disk) - filepos < BufferSize THEN Len(disk) - filepos ELSE BufferSize
<1>1. /\ packet.at = "handler" /\ mode = "MODE_READ" /\ packet.arg2 = current
      /\ filepos = Len(got) + bytesLeft /\ filepos <= Len(disk) /\ offset + bytesLeft <= BufferSize
      /\ \A i \in 1..Len(got) : got[i] = disk[i]
      /\ \A p \in 1..bytesLeft : buffers[1 - current][offset + p] = disk[Len(got) + p]
  BY StreamFacts DEF HandlerFills, Reading, StreamInv, ReadInv, Came
<1>2. /\ n \in 0..BufferSize /\ filepos + n <= Len(disk) /\ filepos' = filepos + n
      /\ n = 0 => filepos = Len(disk)
  <2>1. n \in 0..BufferSize /\ filepos + n <= Len(disk) /\ (n = 0 => filepos = Len(disk))
    <3>1. /\ BufferSize \in Nat /\ BufferSize > 0 /\ Len(disk) \in Nat /\ filepos \in Nat /\ filepos <= Len(disk)
          /\ bytesLeft \in Nat /\ Len(got) \in Nat
      BY <1>1, StreamFacts
    <3>. QED  BY <3>1
  <2>. QED  BY <2>1 DEF HandlerFills
<1>3. packet' = [packet EXCEPT !.at = "port", !.res1 = n]
  BY DEF HandlerFills
<1>4. buffers' = [buffers EXCEPT ![current] =
                    [p \in Place |-> IF p <= n THEN disk[filepos + p] ELSE @[p]]]
  BY <1>1 DEF HandlerFills
<1>5. UNCHANGED <<mode, handler, disk, current, offset, bytesLeft, pending, call,
                  given, got, result, errors>>
  BY DEF HandlerFills
<1>. HIDE DEF n
<1>6. /\ packet'.at = "port" /\ packet'.res1 = n /\ packet'.arg2 = current
      /\ packet' \in [at : {"nowhere", "handler", "port"}, arg2 : {0, 1}, res1 : -1..BufferSize]
  <2>1. n \in -1..BufferSize
    BY <1>2, StreamFacts
  <2>. QED  BY <1>1, <1>3, <2>1, PacketBack
<1>7. /\ buffers' \in [{0, 1} -> [Place -> Nat]] /\ buffers'[1 - current] = buffers[1 - current]
      /\ \A p \in 1..n : buffers'[current][p] = disk[filepos + p]
  <2>1. \A p \in 1..n : disk[filepos + p] \in Nat
    <3>1. \A i \in 1..Len(disk) : disk[i] \in Nat
      BY StreamFacts, SMTT(30)
    <3>2. \A p \in 1..n : filepos + p \in 1..Len(disk)
      <4>1. filepos \in Nat /\ Len(disk) \in Nat /\ n \in Nat
        BY <1>2, StreamFacts
      <4>. QED  BY <1>2, <4>1
    <3>. QED  BY <3>1, <3>2
  <2>2. /\ buffers \in [{0, 1} -> [Place -> Nat]] /\ current \in {0, 1} /\ Place = 1..BufferSize
        /\ 1 - current \in {0, 1} /\ BufferSize \in Nat
    BY StreamFacts
  <2>3. \A p \in Place : p <= n => p \in 1..n
    BY <1>2, <2>2
  <2>4. \A p \in 1..n : p \in Place /\ p <= n
    BY <1>2, <2>2
  <2>. DEFINE b == [p \in Place |-> IF p <= n THEN disk[filepos + p] ELSE buffers[current][p]]
  <2>5. b \in [Place -> Nat]
    BY <2>1, <2>2, <2>3
  <2>6. buffers' = [buffers EXCEPT ![current] = b]
    BY <1>4
  <2>7. \A p \in 1..n : b[p] = disk[filepos + p]
    BY <2>4
  <2>. HIDE DEF b
  <2>8. buffers'[current] = b
    BY <2>2, <2>6
  <2>9. buffers'[1 - current] = buffers[1 - current]
    <3>1. 1 - current # current
      BY <2>2
    <3>. QED  BY <2>2, <2>6, <3>1
  <2>10. buffers' \in [{0, 1} -> [Place -> Nat]]
    BY <2>2, <2>5, <2>6
  <2>. QED  BY <2>7, <2>8, <2>9, <2>10
<1>8. StreamTypeOK'
  <2>1. filepos' \in Nat
    BY <1>2, StreamFacts
  <2>. QED  BY <1>5, <1>6, <1>7, <2>1 DEF StreamInv, StreamTypeOK, Place
<1>9. CallInv'
  BY <1>1, <1>5, <1>6 DEF StreamInv, CallInv, Reading, Writing
<1>10. ReadInv'
  <2>1. Came' = n
    BY <1>2, <1>6 DEF Came
  <2>2. pending' /\ ~Failed'
    BY <1>1, <1>5 DEF StreamInv, CallInv, Failed
  <2>. QED  BY <1>1, <1>2, <1>5, <1>6, <1>7, <2>1, <2>2, StreamFacts DEF ReadInv, Reading
<1>11. WriteInv'
  BY <1>1, <1>5 DEF WriteInv, Writing
<1>. QED  BY <1>8, <1>9, <1>10, <1>11 DEF StreamInv

LEMMA HandlerWritesKeeps ==
  ASSUME StreamInv, HandlerWrites
  PROVE  StreamInv'
<1>1. /\ packet.at = "handler" /\ Writing /\ packet.arg2 = 1 - current
      /\ pending /\ handler /\ call.op # "read"
  BY DEF HandlerWrites, StreamInv, WriteInv, CallInv, Writing, Reading
<1>2. packet' = [packet EXCEPT !.at = "port", !.res1 = BufferSize]
  BY DEF HandlerWrites
<1>3. UNCHANGED <<mode, handler, filepos, buffers, current, offset, bytesLeft, pending,
                  call, given, got, result, errors>>
  BY DEF HandlerWrites
<1>4. disk' \in Seq(Nat)
  <2>1. buffers[packet.arg2] \in [1..BufferSize -> Nat]
    BY StreamFacts
  <2>2. [p \in Place |-> buffers[packet.arg2][p]] = buffers[packet.arg2]
    BY <2>1, StreamFacts
  <2>. QED  BY <2>1, <2>2, StreamFacts, BufferIsSeq, ConcatFacts DEF HandlerWrites
<1>5. /\ packet'.at = "port" /\ packet'.arg2 = packet.arg2 /\ packet'.res1 = BufferSize
      /\ packet' \in [at : {"nowhere", "handler", "port"}, arg2 : {0, 1}, res1 : -1..BufferSize]
  <2>1. BufferSize \in -1..BufferSize
    BY StreamFacts
  <2>. QED  BY <1>2, <2>1, PacketBack
<1>6. StreamTypeOK'
  BY <1>3, <1>4, <1>5 DEF StreamInv, StreamTypeOK, Place
<1>. QED
  BY <1>1, <1>3, <1>5, <1>6 DEF StreamInv, CallInv, ReadInv, WriteInv, Reading, Writing

LEMMA HandlerFailsKeeps ==
  ASSUME StreamInv, HandlerFails
  PROVE  StreamInv'
<1>1. /\ packet.at = "handler" /\ errors < MaxErrors /\ errors' = errors + 1
      /\ packet' = [packet EXCEPT !.at = "port", !.res1 = -1]
      /\ UNCHANGED <<mode, handler, disk, filepos, buffers, current, offset, bytesLeft,
                     pending, call, given, got, result>>
  BY DEF HandlerFails
<1>2. /\ packet'.at = "port" /\ packet'.arg2 = packet.arg2 /\ packet'.res1 = -1
      /\ packet' \in [at : {"nowhere", "handler", "port"}, arg2 : {0, 1}, res1 : -1..BufferSize]
  <2>1. -1 \in -1..BufferSize
    BY StreamFacts
  <2>. QED  BY <1>1, <2>1, PacketBack
<1>3. StreamTypeOK'
  BY <1>1, <1>2, StreamFacts DEF StreamInv, StreamTypeOK, Place
<1>4. pending /\ handler /\ Came = 0 /\ Came' = 0
  BY <1>1, <1>2 DEF StreamInv, CallInv, Came
<1>5. CallInv' /\ WriteInv'
  BY <1>1, <1>2, <1>4 DEF StreamInv, CallInv, WriteInv, Reading, Writing
<1>6. ReadInv'
  BY <1>1, <1>2, <1>4, StreamFacts DEF StreamInv, ReadInv, Reading, Failed
<1>. QED  BY <1>3, <1>5, <1>6 DEF StreamInv

\* What CopyMem() does in ReadAsync(), when the bytes in buffer b are the next
\* ones of the file.
LEMMA CopyOutFacts ==
  ASSUME StreamInv, NEW b \in {0, 1}, NEW o \in Nat, NEW left \in Nat, NEW n \in Nat,
         o + left <= BufferSize, Len(got) + left <= Len(disk),
         \A i \in 1..Len(got) : got[i] = disk[i],
         \A p \in 1..left : buffers[b][o + p] = disk[Len(got) + p],
         CopyOut(b, o, left, n)
  PROVE  /\ got' \in Seq(Nat) /\ Len(got') \in Nat /\ Len(got) <= Len(got')
         /\ bytesLeft' \in Nat /\ bytesLeft' <= left
         /\ Len(got') + bytesLeft' = Len(got) + left
         /\ offset' \in Nat /\ offset' + bytesLeft' = o + left
         /\ \A i \in 1..Len(got') : got'[i] = disk[i]
         /\ \A p \in 1..bytesLeft' : buffers[b][offset' + p] = disk[Len(got') + p]
         /\ call' \in [op : {"none", "read", "write", "close"}, n : Nat, retried : BOOLEAN]
         /\ call'.op \in {"none", "read"} /\ ~call'.retried
         /\ call'.op = "read" => bytesLeft' = 0
         /\ left = 0 => got' = got
<1>. DEFINE k == IF n <= left THEN n ELSE left
            c == [p \in 1..k |-> buffers[b][o + p]]
<1>1. k \in Nat /\ k <= left /\ n - k \in Nat /\ left - k \in Nat /\ (n > left => k = left)
  OBVIOUS
<1>2. /\ got' = got \o c /\ bytesLeft' = left - k /\ offset' = o + k
      /\ call' = IF n <= left THEN NoCall ELSE [op |-> "read", n |-> n - k, retried |-> FALSE]
  BY DEF CopyOut
<1>. HIDE DEF k
<1>3. Len(got) \in Nat /\ got \in Seq(Nat) /\ BufferSize \in Nat
  BY StreamFacts
<1>4. c \in [1..k -> Nat]
  <2>1. buffers[b] \in [1..BufferSize -> Nat]
    BY StreamFacts
  <2>2. \A p \in 1..k : o + p \in 1..BufferSize
    BY <1>1, <1>3
  <2>. QED  BY <2>1, <2>2
<1>5. \A p \in 1..k : c[p] = disk[Len(got) + p]
  <2>1. ASSUME NEW p \in 1..k
        PROVE  c[p] = disk[Len(got) + p]
    <3>1. p \in 1..left
      BY <1>1
    <3>2. buffers[b][o + p] = disk[Len(got) + p]
      BY <3>1
    <3>. QED  BY <3>2
  <2>. QED  BY <2>1
<1>. HIDE DEF c
<1>6. /\ got' \in Seq(Nat) /\ Len(got') = Len(got) + k
      /\ \A i \in 1..Len(got) : got'[i] = got[i]
      /\ \A p \in 1..k : got'[Len(got) + p] = c[p]
  <2>1. c \in Seq(Nat) /\ Len(c) = k
    BY <1>1, <1>4, BufferIsSeq
  <2>2. /\ got \o c \in Seq(Nat) /\ Len(got \o c) = Len(got) + Len(c)
        /\ \A i \in 1..Len(got) : (got \o c)[i] = got[i]
        /\ \A p \in 1..Len(c) : (got \o c)[Len(got) + p] = c[p]
    <3>1. got \in Seq(Nat)
      BY StreamFacts
    <3>2. c \in Seq(Nat)
      BY <2>1
    <3>. QED  BY <3>1, <3>2, ConcatFacts
  <2>. QED  BY <1>2, <2>1, <2>2
<1>7. \A i \in 1..Len(got') : got'[i] = disk[i]
  <2>1. ASSUME NEW i \in 1..Len(got'), i > Len(got)
        PROVE  got'[i] = disk[i]
    <3>1. i - Len(got) \in 1..k /\ Len(got) + (i - Len(got)) = i
      BY <1>1, <1>3, <1>6, <2>1
    <3>. QED  BY <1>5, <1>6, <3>1
  <2>2. \A i \in 1..Len(got') : i > Len(got) \/ i \in 1..Len(got)
    BY <1>3
  <2>. QED  BY <1>6, <2>1, <2>2
<1>8. \A p \in 1..bytesLeft' : buffers[b][offset' + p] = disk[Len(got') + p]
  <2>1. ASSUME NEW p \in 1..bytesLeft'
        PROVE  buffers[b][offset' + p] = disk[Len(got') + p]
    <3>1. /\ k + p \in 1..left /\ offset' + p = o + (k + p)
          /\ Len(got') + p = Len(got) + (k + p)
      BY <1>1, <1>2, <1>3, <1>6
    <3>. QED  BY <3>1
  <2>. QED  BY <2>1
<1>9. /\ call' \in [op : {"none", "read", "write", "close"}, n : Nat, retried : BOOLEAN]
      /\ call'.op \in {"none", "read"} /\ ~call'.retried
      /\ call'.op = "read" => n > left
  BY <1>1, <1>2 DEF NoCall
<1>10. left = 0 => got' = got
  <2>1. left = 0 => Len(got) = Len(got')
    BY <1>1, <1>3, <1>6
  <2>. QED  BY <1>3, <1>6, <2>1, PrefixFacts
<1>. QED  BY <1>1, <1>2, <1>3, <1>6, <1>7, <1>8, <1>9, <1>10

\* What CopyMem() does in WriteAsync(): the bytes that were in buffer b stay.
LEMMA CopyInFacts ==
  ASSUME StreamInv, NEW b \in {0, 1}, NEW left \in Nat, left <= BufferSize, NEW n \in Nat,
         CopyIn(b, left, n)
  PROVE  /\ buffers' \in [{0, 1} -> [Place -> Nat]] /\ buffers'[1 - b] = buffers[1 - b]
         /\ \A p \in 1..BufferSize - left : buffers'[b][p] = buffers[b][p]
         /\ given' \in Nat /\ bytesLeft' \in Nat
         /\ bytesLeft' = IF n <= left THEN left - n ELSE left
         /\ call' \in [op : {"none", "read", "write", "close"}, n : Nat, retried : BOOLEAN]
         /\ call'.op \in {"none", "write"} /\ ~call'.retried
         /\ n <= left => call'.op = "none"
<1>. DEFINE k == IF n <= left THEN n ELSE left
            from == BufferSize - left
            c == [p \in Place |-> IF p \in from + 1..from + k THEN given + p - from ELSE buffers[b][p]]
<1>1. /\ BufferSize \in Nat /\ given \in Nat /\ Place = 1..BufferSize
      /\ buffers \in [{0, 1} -> [Place -> Nat]] /\ 1 - b \in {0, 1} /\ 1 - b # b
  BY StreamFacts
<1>2. k \in Nat /\ n - k \in Nat /\ from \in Nat
  BY <1>1
<1>3. /\ buffers' = [buffers EXCEPT ![b] = c] /\ given' = given + k
      /\ bytesLeft' = IF n <= left THEN left - n ELSE left
      /\ call' = IF n <= left THEN NoCall ELSE [op |-> "write", n |-> n - k, retried |-> FALSE]
  BY DEF CopyIn
<1>. HIDE DEF k, from
<1>4. c \in [Place -> Nat]
  <2>1. \A p \in Place : p \in from + 1..from + k => given + p - from \in Nat
    BY <1>1, <1>2
  <2>. QED  BY <1>1, <2>1
<1>5. \A p \in 1..from : c[p] = buffers[b][p]
  <2>1. \A p \in 1..from : p \in Place /\ p \notin from + 1..from + k
    BY <1>1, <1>2 DEF from
  <2>. QED  BY <2>1
<1>. HIDE DEF c
<1>6. buffers'[b] = c /\ buffers'[1 - b] = buffers[1 - b]
  BY <1>1, <1>3
<1>7. buffers' \in [{0, 1} -> [Place -> Nat]]
  BY <1>1, <1>3, <1>4
<1>8. \A p \in 1..BufferSize - left : buffers'[b][p] = buffers[b][p]
  BY <1>5, <1>6 DEF from
<1>9. bytesLeft' \in Nat
  BY <1>3
<1>10. /\ call' \in [op : {"none", "read", "write", "close"}, n : Nat, retried : BOOLEAN]
       /\ call'.op \in {"none", "write"} /\ ~call'.retried
       /\ n <= left => call'.op = "none"
  BY <1>2, <1>3 DEF NoCall
<1>. QED  BY <1>1, <1>2, <1>3, <1>6, <1>7, <1>8, <1>9, <1>10

LEMMA ReadAsyncKeeps ==
  ASSUME StreamInv, NEW n \in Nat, ReadAsync(n)
  PROVE  StreamInv' /\ Len(got) <= Len(got') /\ (bytesLeft = 0 => got' = got)
<1>1. /\ Reading /\ call.op = "none" /\ CopyOut(1 - current, offset, bytesLeft, n)
      /\ UNCHANGED <<mode, handler, disk, filepos, buffers, current, pending, packet,
                     given, result, errors>>
  BY DEF ReadAsync, NoCall
<1>2. /\ filepos = Len(got) + bytesLeft + Came /\ filepos <= Len(disk)
      /\ \A p \in 1..Came : buffers[current][p] = disk[Len(got) + bytesLeft + p]
      /\ offset + bytesLeft <= BufferSize
      /\ \A i \in 1..Len(got) : got[i] = disk[i]
      /\ \A p \in 1..bytesLeft : buffers[1 - current][offset + p] = disk[Len(got) + p]
  BY <1>1 DEF StreamInv, ReadInv
<1>3. Came \in Nat
  BY StreamFacts DEF Came
<1>4. Len(got) + bytesLeft <= Len(disk)
  <2>1. Len(got) \in Nat /\ bytesLeft \in Nat /\ Len(disk) \in Nat
    BY StreamFacts
  <2>. QED  BY <1>2, <1>3, <2>1
<1>5. /\ got' \in Seq(Nat) /\ Len(got') \in Nat
      /\ bytesLeft' \in Nat /\ bytesLeft' <= bytesLeft
      /\ Len(got') + bytesLeft' = Len(got) + bytesLeft
      /\ offset' \in Nat /\ offset' + bytesLeft' = offset + bytesLeft
      /\ \A i \in 1..Len(got') : got'[i] = disk[i]
      /\ \A p \in 1..bytesLeft' : buffers[1 - current][offset' + p] = disk[Len(got') + p]
      /\ call' \in [op : {"none", "read", "write", "close"}, n : Nat, retried : BOOLEAN]
      /\ call'.op \in {"none", "read"} /\ ~call'.retried
      /\ call'.op = "read" => bytesLeft' = 0
      /\ Len(got) <= Len(got') /\ (bytesLeft = 0 => got' = got)
  <2>. DEFINE b == 1 - current
  <2>1. b \in {0, 1} /\ offset \in Nat /\ bytesLeft \in Nat
    BY StreamFacts
  <2>2. /\ CopyOut(b, offset, bytesLeft, n) /\ offset + bytesLeft <= BufferSize
        /\ \A i \in 1..Len(got) : got[i] = disk[i]
        /\ \A p \in 1..bytesLeft : buffers[b][offset + p] = disk[Len(got) + p]
    BY <1>1, <1>2
  <2>. HIDE DEF b
  <2>3. /\ got' \in Seq(Nat) /\ Len(got') \in Nat
        /\ bytesLeft' \in Nat /\ bytesLeft' <= bytesLeft
        /\ Len(got') + bytesLeft' = Len(got) + bytesLeft
        /\ offset' \in Nat /\ offset' + bytesLeft' = offset + bytesLeft
        /\ \A i \in 1..Len(got') : got'[i] = disk[i]
        /\ \A p \in 1..bytesLeft' : buffers[b][offset' + p] = disk[Len(got') + p]
        /\ call' \in [op : {"none", "read", "write", "close"}, n : Nat, retried : BOOLEAN]
        /\ call'.op \in {"none", "read"} /\ ~call'.retried
        /\ call'.op = "read" => bytesLeft' = 0
        /\ Len(got) <= Len(got') /\ (bytesLeft = 0 => got' = got)
    BY <1>4, <2>1, <2>2, CopyOutFacts, ZenonT(60)
  <2>. QED  BY <2>3 DEF b
<1>6. offset' \in 0..BufferSize /\ bytesLeft' \in 0..BufferSize
  <2>1. /\ offset + bytesLeft <= BufferSize /\ offset' \in Nat /\ bytesLeft' \in Nat
        /\ offset' + bytesLeft' = offset + bytesLeft
    BY <1>2, <1>5
  <2>2. BufferSize \in Nat /\ offset \in Nat /\ bytesLeft \in Nat
    BY StreamFacts
  <2>3. \A r \in Nat, o \in Nat, l \in Nat :
          o + l = r /\ r <= BufferSize => o \in 0..BufferSize /\ l \in 0..BufferSize
    BY <2>2
  <2>4. offset + bytesLeft \in Nat
    BY <2>2
  <2>. QED  BY <2>1, <2>3, <2>4
<1>7. StreamTypeOK'
  BY <1>1, <1>5, <1>6 DEF StreamInv, StreamTypeOK, Place
<1>8. CallInv'
  BY <1>1, <1>5 DEF StreamInv, CallInv, Reading, Writing
<1>9. ReadInv'
  <2>1. Came' = Came /\ (Failed' => Failed)
    BY <1>1 DEF Came, Failed
  <2>2. Failed' => bytesLeft' = 0
    BY <1>1, <1>5, <2>1, StreamFacts DEF StreamInv, ReadInv
  <2>3. \A p \in 1..Came : buffers[current][p] = disk[Len(got') + bytesLeft' + p]
    BY <1>2, <1>5
  <2>4. filepos = Len(got') + bytesLeft' + Came
    BY <1>2, <1>5
  <2>5. /\ packet.at # "nowhere" => packet.arg2 = current
        /\ packet.at # "handler" /\ packet.res1 = 0 => filepos = Len(disk)
        /\ packet.at = "nowhere" => packet.res1 <= 0
    BY <1>1 DEF StreamInv, ReadInv
  <2>6. offset' + bytesLeft' <= BufferSize
    BY <1>2, <1>5
  <2>. QED  BY <1>1, <1>2, <1>5, <2>1, <2>2, <2>3, <2>4, <2>5, <2>6 DEF ReadInv
<1>10. WriteInv'
  BY <1>1 DEF WriteInv, Reading, Writing
<1>. QED  BY <1>5, <1>7, <1>8, <1>9, <1>10 DEF StreamInv

\* A read that has its packet back finds the next bytes in the buffer just filled.
LEMMA ReadGoesOn ==
  ASSUME StreamInv, ReadAsyncGoesOn
  PROVE  /\ Reading /\ handler /\ packet.at = "port" /\ packet.res1 \in Nat /\ bytesLeft = 0
         /\ filepos = Len(got) + packet.res1 /\ filepos <= Len(disk)
         /\ \A i \in 1..Len(got) : got[i] = disk[i]
         /\ \A p \in 1..packet.res1 : buffers[current][0 + p] = disk[Len(got) + p]
<1>1. /\ call.op = "read" /\ Taken(TRUE) /\ packet.res1 > 0
  BY DEF ReadAsyncGoesOn
<1>2. Reading /\ bytesLeft = 0
  BY <1>1 DEF StreamInv, CallInv
<1>3. packet.at = "nowhere" => packet.res1 <= 0
  BY <1>2 DEF StreamInv, ReadInv
<1>4. packet.at # "nowhere"
  BY <1>1, <1>3, StreamFacts
<1>5. packet.at = "port" /\ handler
  BY <1>1, <1>4 DEF Taken, StreamInv, CallInv
<1>6. Came = packet.res1 /\ packet.res1 \in Nat
  BY <1>1, <1>5, StreamFacts DEF Came
<1>7. /\ filepos = Len(got) + bytesLeft + Came /\ filepos <= Len(disk)
      /\ \A i \in 1..Len(got) : got[i] = disk[i]
      /\ \A p \in 1..Came : buffers[current][p] = disk[Len(got) + bytesLeft + p]
  BY <1>2 DEF StreamInv, ReadInv
<1>8. Len(got) \in Nat
  BY StreamFacts
<1>. QED  BY <1>2, <1>5, <1>6, <1>7, <1>8

LEMMA ReadAsyncGoesOnKeeps ==
  ASSUME StreamInv, ReadAsyncGoesOn
  PROVE  StreamInv' /\ Len(got) <= Len(got')
<1>1. /\ packet' = Sent(1 - current) /\ pending' = TRUE /\ current' = 1 - current
      /\ CopyOut(current, 0, packet.res1, call.n)
      /\ UNCHANGED <<mode, handler, disk, filepos, buffers, given, result, errors>>
  BY DEF ReadAsyncGoesOn
<1>2. /\ Reading /\ handler /\ packet.at = "port" /\ packet.res1 \in Nat /\ bytesLeft = 0
      /\ filepos = Len(got) + packet.res1 /\ filepos <= Len(disk)
      /\ \A i \in 1..Len(got) : got[i] = disk[i]
      /\ \A p \in 1..packet.res1 : buffers[current][0 + p] = disk[Len(got) + p]
  BY ReadGoesOn
<1>3. /\ got' \in Seq(Nat) /\ Len(got') \in Nat
      /\ bytesLeft' \in Nat /\ bytesLeft' <= packet.res1
      /\ Len(got') + bytesLeft' = Len(got) + packet.res1
      /\ offset' \in Nat /\ offset' + bytesLeft' = 0 + packet.res1
      /\ \A i \in 1..Len(got') : got'[i] = disk[i]
      /\ \A p \in 1..bytesLeft' : buffers[current][offset' + p] = disk[Len(got') + p]
      /\ call' \in [op : {"none", "read", "write", "close"}, n : Nat, retried : BOOLEAN]
      /\ call'.op \in {"none", "read"} /\ ~call'.retried
      /\ call'.op = "read" => bytesLeft' = 0
      /\ Len(got) <= Len(got')
  <2>. DEFINE o == 0
              left == packet.res1
              n == call.n
  <2>1. current \in {0, 1} /\ o \in Nat /\ left \in Nat /\ n \in Nat
    BY <1>2, StreamFacts
  <2>2. o + left <= BufferSize /\ Len(got) + left <= Len(disk)
    BY <1>2, StreamFacts
  <2>3. /\ CopyOut(current, o, left, n)
        /\ \A i \in 1..Len(got) : got[i] = disk[i]
        /\ \A p \in 1..left : buffers[current][o + p] = disk[Len(got) + p]
    BY <1>1, <1>2
  <2>. HIDE DEF o, left, n
  <2>4. /\ got' \in Seq(Nat) /\ Len(got') \in Nat
        /\ bytesLeft' \in Nat /\ bytesLeft' <= left
        /\ Len(got') + bytesLeft' = Len(got) + left
        /\ offset' \in Nat /\ offset' + bytesLeft' = o + left
        /\ \A i \in 1..Len(got') : got'[i] = disk[i]
        /\ \A p \in 1..bytesLeft' : buffers[current][offset' + p] = disk[Len(got') + p]
        /\ call' \in [op : {"none", "read", "write", "close"}, n : Nat, retried : BOOLEAN]
        /\ call'.op \in {"none", "read"} /\ ~call'.retried
        /\ call'.op = "read" => bytesLeft' = 0
        /\ Len(got) <= Len(got')
    BY <2>1, <2>2, <2>3, CopyOutFacts, ZenonT(60)
  <2>. QED  BY <2>4 DEF o, left
<1>4. offset' \in 0..BufferSize /\ bytesLeft' \in 0..BufferSize /\ offset' + bytesLeft' <= BufferSize
  <2>1. BufferSize \in Nat /\ packet.res1 <= BufferSize
    BY StreamFacts
  <2>2. /\ packet.res1 \in Nat /\ offset' \in Nat /\ bytesLeft' \in Nat
        /\ offset' + bytesLeft' = packet.res1
    BY <1>2, <1>3
  <2>3. \A r \in Nat, o \in Nat, l \in Nat :
          o + l = r /\ r <= BufferSize => o \in 0..BufferSize /\ l \in 0..BufferSize
    BY <2>1
  <2>. QED  BY <2>1, <2>2, <2>3
<1>5. packet' = [at |-> "handler", arg2 |-> 1 - current, res1 |-> 0]
  BY <1>1 DEF Sent
<1>6. /\ packet'.at = "handler" /\ packet'.arg2 = 1 - current /\ packet'.res1 = 0
      /\ packet' \in [at : {"nowhere", "handler", "port"}, arg2 : {0, 1}, res1 : -1..BufferSize]
      /\ current' \in {0, 1} /\ 1 - current' = current
  <2>1. 1 - current \in {0, 1} /\ 1 - (1 - current) = current /\ 0 \in -1..BufferSize
    BY StreamFacts
  <2>. QED  BY <1>1, <1>5, <2>1
<1>7. StreamTypeOK'
  BY <1>1, <1>3, <1>4, <1>6 DEF StreamInv, StreamTypeOK, Place
<1>8. CallInv'
  BY <1>1, <1>2, <1>3, <1>6 DEF CallInv, Reading, Writing
<1>9. ReadInv'
  <2>1. Came' = 0 /\ ~Failed'
    BY <1>1, <1>6 DEF Came, Failed
  <2>2. filepos' = Len(got') + bytesLeft' + 0 /\ filepos' <= Len(disk')
    BY <1>1, <1>2, <1>3
  <2>3. \A i \in 1..Len(got') : got'[i] = disk'[i]
    BY <1>1, <1>3
  <2>4. \A p \in 1..bytesLeft' : buffers'[1 - current'][offset' + p] = disk'[Len(got') + p]
    BY <1>1, <1>3, <1>6
  <2>5. \A p \in 1..0 : FALSE
    OBVIOUS
  <2>. QED  BY <1>1, <1>4, <1>6, <2>1, <2>2, <2>3, <2>4, <2>5 DEF ReadInv
<1>10. WriteInv'
  BY <1>1, <1>2 DEF WriteInv, Reading, Writing
<1>. QED  BY <1>3, <1>7, <1>8, <1>9, <1>10 DEF StreamInv

\* A packet that is taken from the port.
LEMMA PacketGone ==
  ASSUME StreamInv, packet' = NowhereNow
  PROVE  /\ packet'.at = "nowhere" /\ packet'.res1 = packet.res1 /\ packet'.arg2 = packet.arg2
         /\ packet' \in [at : {"nowhere", "handler", "port"}, arg2 : {0, 1}, res1 : -1..BufferSize]
         /\ Came' = 0
<1>1. packet \in [at : {"nowhere", "handler", "port"}, arg2 : {0, 1}, res1 : -1..BufferSize]
  BY DEF StreamInv, StreamTypeOK
<1>2. packet' = [packet EXCEPT !.at = "nowhere"]
  BY DEF NowhereNow
<1>3. /\ packet'.at = "nowhere" /\ packet'.res1 = packet.res1 /\ packet'.arg2 = packet.arg2
      /\ packet' \in [at : {"nowhere", "handler", "port"}, arg2 : {0, 1}, res1 : -1..BufferSize]
  BY <1>1, <1>2
<1>. QED  BY <1>3 DEF Came

LEMMA NoCallFacts ==
  /\ NoCall \in [op : {"none", "read", "write", "close"}, n : Nat, retried : BOOLEAN]
  /\ NoCall.op = "none" /\ ~NoCall.retried
BY DEF NoCall

LEMMA ReadAsyncEndsKeeps ==
  ASSUME StreamInv, ReadAsyncEnds
  PROVE  StreamInv'
<1>1. /\ call.op = "read" /\ Taken(TRUE) /\ packet.res1 = 0
      /\ packet' = NowhereNow /\ pending' = PendingAfter /\ call' = NoCall /\ result' = "eof"
      /\ UNCHANGED <<mode, handler, disk, filepos, buffers, current, offset, bytesLeft,
                     given, got, errors>>
  BY DEF ReadAsyncEnds
<1>2. /\ Reading /\ bytesLeft = 0 /\ ~call.retried /\ packet.at # "handler"
  BY <1>1 DEF StreamInv, CallInv, Taken
<1>3. pending' = FALSE
  BY <1>1, <1>2, StreamFacts DEF PendingAfter
<1>4. /\ packet'.at = "nowhere" /\ packet'.res1 = 0
      /\ packet' \in [at : {"nowhere", "handler", "port"}, arg2 : {0, 1}, res1 : -1..BufferSize]
      /\ Came' = 0
  BY <1>1, PacketGone
<1>5. StreamTypeOK'
  BY <1>1, <1>3, <1>4, NoCallFacts DEF StreamInv, StreamTypeOK, Place
<1>6. CallInv' /\ WriteInv'
  BY <1>1, <1>2, <1>3, <1>4, NoCallFacts DEF StreamInv, CallInv, WriteInv, Reading, Writing
<1>7. ReadInv'
  <2>1. Came = 0
    BY <1>1 DEF Came
  <2>. QED  BY <1>1, <1>2, <1>4, <2>1 DEF StreamInv, ReadInv, Reading, Failed
<1>. QED  BY <1>5, <1>6, <1>7 DEF StreamInv

LEMMA CallFailsKeeps ==
  ASSUME StreamInv, CallFails
  PROVE  StreamInv'
<1>1. /\ call.op \in {"read", "write"} /\ Taken(FALSE)
      /\ packet' = NowhereNow /\ pending' = PendingAfter /\ call' = NoCall
      /\ UNCHANGED <<mode, handler, disk, filepos, buffers, current, offset, bytesLeft,
                     given, got, result, errors>>
  BY DEF CallFails
<1>2. /\ ~call.retried /\ mode # "closed" /\ (Reading => bytesLeft = 0)
      /\ packet.res1 < 0
  BY <1>1, StreamFacts DEF StreamInv, CallInv, Taken, Reading, Writing
<1>3. pending' = FALSE
  BY <1>1, <1>2, StreamFacts DEF PendingAfter
<1>4. /\ packet'.at = "nowhere" /\ packet'.res1 = packet.res1
      /\ packet' \in [at : {"nowhere", "handler", "port"}, arg2 : {0, 1}, res1 : -1..BufferSize]
      /\ Came' = 0
  BY <1>1, PacketGone
<1>5. StreamTypeOK'
  BY <1>1, <1>3, <1>4, NoCallFacts DEF StreamInv, StreamTypeOK, Place
<1>6. handler
  BY <1>2 DEF StreamInv, CallInv
<1>7. CallInv' /\ WriteInv'
  BY <1>1, <1>2, <1>3, <1>4, <1>6, NoCallFacts DEF CallInv, WriteInv, Reading, Writing
<1>8. ReadInv'
  <2>1. Came = 0
    BY <1>2, StreamFacts DEF Came
  <2>. QED  BY <1>1, <1>2, <1>4, <2>1 DEF StreamInv, ReadInv, Reading, Failed
<1>. QED  BY <1>5, <1>7, <1>8 DEF StreamInv

\* Only a stream that is being closed sends its packet again.
LEMMA WaitPacketRetryKeeps ==
  ASSUME StreamInv, ~Retry, WaitPacketRetry
  PROVE  StreamInv'
<1>1. /\ Reading /\ call.op = "close" /\ pending /\ packet.at = "port" /\ packet.res1 < 0
      /\ packet' = Sent(current) /\ call' = [call EXCEPT !.retried = TRUE]
      /\ UNCHANGED <<mode, handler, disk, filepos, buffers, current, offset, bytesLeft,
                     pending, given, got, result, errors>>
  BY DEF WaitPacketRetry
<1>2. packet' = [at |-> "handler", arg2 |-> current, res1 |-> 0]
  BY <1>1 DEF Sent
<1>3. /\ packet'.at = "handler" /\ packet'.arg2 = current /\ packet'.res1 = 0
      /\ packet' \in [at : {"nowhere", "handler", "port"}, arg2 : {0, 1}, res1 : -1..BufferSize]
  <2>1. 0 \in -1..BufferSize /\ current \in {0, 1}
    BY StreamFacts
  <2>. QED  BY <1>2, <2>1
<1>4. /\ call' \in [op : {"none", "read", "write", "close"}, n : Nat, retried : BOOLEAN]
      /\ call'.op = "close"
  <2>1. call \in [op : {"none", "read", "write", "close"}, n : Nat, retried : BOOLEAN]
    BY DEF StreamInv, StreamTypeOK
  <2>. QED  BY <1>1, <2>1
<1>5. StreamTypeOK'
  BY <1>1, <1>3, <1>4 DEF StreamInv, StreamTypeOK, Place
<1>6. CallInv' /\ WriteInv'
  BY <1>1, <1>3, <1>4 DEF StreamInv, CallInv, WriteInv, Reading, Writing
<1>7. ReadInv'
  <2>1. Came = 0 /\ Came' = 0 /\ ~Failed'
    BY <1>1, <1>3, StreamFacts DEF Came, Failed
  <2>. QED  BY <1>1, <1>3, <2>1 DEF StreamInv, ReadInv, Reading
<1>. QED  BY <1>5, <1>6, <1>7 DEF StreamInv

LEMMA WriteAsyncKeeps ==
  ASSUME StreamInv, NEW n \in Nat, WriteAsync(n)
  PROVE  StreamInv'
<1>1. /\ Writing /\ call.op = "none" /\ ~call.retried
      /\ UNCHANGED <<mode, handler, disk, filepos, current, offset, pending, packet,
                     got, result, errors>>
  BY DEF WriteAsync, NoCall
<1>2. /\ buffers' \in [{0, 1} -> [Place -> Nat]] /\ given' \in Nat
      /\ bytesLeft' \in 0..BufferSize
      /\ call' \in [op : {"none", "read", "write", "close"}, n : Nat, retried : BOOLEAN]
      /\ call'.op \in {"none", "write"} /\ ~call'.retried
      /\ call'.op = "write" => handler
  <2>1. /\ current \in {0, 1} /\ bytesLeft \in Nat /\ bytesLeft <= BufferSize /\ BufferSize \in Nat
        /\ buffers \in [{0, 1} -> [Place -> Nat]] /\ given \in Nat
    BY StreamFacts
  <2>2. CASE handler \/ n <= bytesLeft
    <3>1. CopyIn(current, bytesLeft, n)
      BY <2>2 DEF WriteAsync
    <3>2. /\ buffers' \in [{0, 1} -> [Place -> Nat]] /\ given' \in Nat
          /\ bytesLeft' = IF n <= bytesLeft THEN bytesLeft - n ELSE bytesLeft
          /\ call' \in [op : {"none", "read", "write", "close"}, n : Nat, retried : BOOLEAN]
          /\ call'.op \in {"none", "write"} /\ ~call'.retried
          /\ n <= bytesLeft => call'.op = "none"
      BY <2>1, <3>1, CopyInFacts
    <3>3. bytesLeft' \in 0..BufferSize
      BY <2>1, <3>2
    <3>. QED  BY <2>2, <3>2, <3>3
  <2>3. CASE ~(handler \/ n <= bytesLeft)
    <3>1. bytesLeft' = BufferSize /\ UNCHANGED <<buffers, given, call>>
      BY <2>3 DEF WriteAsync
    <3>2. call \in [op : {"none", "read", "write", "close"}, n : Nat, retried : BOOLEAN]
      BY DEF StreamInv, StreamTypeOK
    <3>. QED  BY <1>1, <2>1, <3>1, <3>2
  <2>. QED  BY <2>2, <2>3
<1>3. StreamTypeOK'
  BY <1>1, <1>2 DEF StreamInv, StreamTypeOK, Place
<1>4. CallInv' /\ ReadInv' /\ WriteInv'
  BY <1>1, <1>2 DEF StreamInv, CallInv, ReadInv, WriteInv, Reading, Writing
<1>. QED  BY <1>3, <1>4 DEF StreamInv

LEMMA WriteAsyncGoesOnKeeps ==
  ASSUME StreamInv, WriteAsyncGoesOn
  PROVE  StreamInv'
<1>1. /\ call.op = "write" /\ packet' = Sent(current) /\ pending' = TRUE
      /\ current' = 1 - current /\ CopyIn(1 - current, BufferSize, call.n)
      /\ UNCHANGED <<mode, handler, disk, filepos, offset, got, result, errors>>
  BY DEF WriteAsyncGoesOn
<1>2. Writing /\ handler
  BY <1>1 DEF StreamInv, CallInv
<1>3. packet' = [at |-> "handler", arg2 |-> current, res1 |-> 0]
  BY <1>1 DEF Sent
<1>4. /\ packet'.at = "handler" /\ packet'.arg2 = current /\ packet'.res1 = 0
      /\ packet' \in [at : {"nowhere", "handler", "port"}, arg2 : {0, 1}, res1 : -1..BufferSize]
      /\ current' \in {0, 1} /\ 1 - current' = current
  <2>1. 0 \in -1..BufferSize /\ current \in {0, 1} /\ 1 - current \in {0, 1} /\ 1 - (1 - current) = current
    BY StreamFacts
  <2>. QED  BY <1>1, <1>3, <2>1
<1>5. /\ buffers' \in [{0, 1} -> [Place -> Nat]] /\ given' \in Nat
      /\ bytesLeft' \in 0..BufferSize
      /\ call' \in [op : {"none", "read", "write", "close"}, n : Nat, retried : BOOLEAN]
      /\ call'.op \in {"none", "write"} /\ ~call'.retried
  <2>. DEFINE b == 1 - current
              n == call.n
  <2>1. b \in {0, 1} /\ BufferSize \in Nat /\ n \in Nat /\ BufferSize <= BufferSize
    BY StreamFacts
  <2>2. CopyIn(b, BufferSize, n)
    BY <1>1
  <2>. HIDE DEF b, n
  <2>3. /\ buffers' \in [{0, 1} -> [Place -> Nat]] /\ given' \in Nat
        /\ bytesLeft' = IF n <= BufferSize THEN BufferSize - n ELSE BufferSize
        /\ call' \in [op : {"none", "read", "write", "close"}, n : Nat, retried : BOOLEAN]
        /\ call'.op \in {"none", "write"} /\ ~call'.retried
    BY <2>1, <2>2, CopyInFacts
  <2>4. bytesLeft' \in 0..BufferSize
    BY <2>1, <2>3
  <2>. QED  BY <2>3, <2>4
<1>6. StreamTypeOK'
  BY <1>1, <1>4, <1>5 DEF StreamInv, StreamTypeOK, Place
<1>7. CallInv' /\ ReadInv' /\ WriteInv'
  BY <1>1, <1>2, <1>4, <1>5 DEF CallInv, ReadInv, WriteInv, Reading, Writing
<1>. QED  BY <1>6, <1>7 DEF StreamInv

LEMMA OpenAsyncKeeps ==
  ASSUME StreamInv, NEW m \in {"MODE_READ", "MODE_WRITE", "MODE_APPEND"}, OpenAsync(m)
  PROVE  StreamInv'
<1>1. /\ mode = "closed" /\ mode' = m /\ disk' = (IF m = "MODE_WRITE" THEN <<>> ELSE disk)
      /\ given' = Len(disk') /\ filepos' = 0 /\ current' = 0 /\ offset' = 0 /\ got' = <<>>
      /\ result' = "none" /\ call' = NoCall /\ UNCHANGED <<handler, buffers, errors>>
  BY DEF OpenAsync
<1>2. /\ disk' \in Seq(Nat) /\ Len(disk') \in Nat /\ (~handler => disk' = <<>>)
      /\ got' \in Seq(Nat) /\ Len(got') = 0
  BY <1>1, StreamFacts DEF StreamInv, CallInv
<1>3. /\ bytesLeft' \in 0..BufferSize /\ pending' \in BOOLEAN
      /\ packet' \in [at : {"nowhere", "handler", "port"}, arg2 : {0, 1}, res1 : -1..BufferSize]
      /\ packet'.at \in {"nowhere", "handler"} /\ packet'.arg2 = 0 /\ packet'.res1 = 0
      /\ packet'.at = "handler" => m = "MODE_READ" /\ handler
      /\ pending' <=> packet'.at # "nowhere"
      /\ m = "MODE_READ" => bytesLeft' = 0 /\ (handler => packet'.at = "handler")
  <2>1. 0 \in -1..BufferSize /\ 0 \in 0..BufferSize /\ BufferSize \in 0..BufferSize
    BY StreamFacts
  <2>2. handler \in BOOLEAN
    BY DEF StreamInv, StreamTypeOK
  <2>3. CASE m = "MODE_READ"
    <3>1. /\ bytesLeft' = 0 /\ pending' = handler
          /\ packet' = IF handler THEN [at |-> "handler", arg2 |-> 0, res1 |-> 0]
                       ELSE [at |-> "nowhere", arg2 |-> 0, res1 |-> 0]
      BY <2>3 DEF OpenAsync, Sent
    <3>. QED  BY <2>1, <2>2, <2>3, <3>1
  <2>4. CASE m # "MODE_READ"
    <3>1. /\ bytesLeft' = BufferSize /\ pending' = FALSE
          /\ packet' = [at |-> "nowhere", arg2 |-> 0, res1 |-> 0]
      BY <2>4 DEF OpenAsync
    <3>. QED  BY <2>1, <2>4, <3>1
  <2>. QED  BY <2>3, <2>4
<1>4. StreamTypeOK'
  <2>1. 0 \in 0..BufferSize
    BY StreamFacts
  <2>. QED  BY <1>1, <1>2, <1>3, <2>1, NoCallFacts DEF StreamInv, StreamTypeOK, Place
<1>5. CallInv'
  BY <1>1, <1>2, <1>3, NoCallFacts DEF CallInv, Reading, Writing
<1>6. ReadInv'
  <2>1. Came' = 0 /\ ~Failed'
    BY <1>3 DEF Came, Failed
  <2>2. SUFFICES ASSUME Reading'
                 PROVE  ReadInv'
    BY DEF ReadInv
  <2>3. bytesLeft' = 0 /\ (handler => packet'.at = "handler") /\ (~handler => Len(disk') = 0)
    BY <1>1, <1>2, <1>3, <2>2 DEF Reading
  <2>. QED  BY <1>1, <1>2, <1>3, <2>1, <2>3, StreamFacts DEF ReadInv
<1>7. WriteInv'
  BY <1>1, <1>3 DEF WriteInv, Writing
<1>. QED  BY <1>4, <1>5, <1>6, <1>7 DEF StreamInv

LEMMA CloseAsyncKeeps ==
  ASSUME StreamInv, CloseAsync
  PROVE  StreamInv'
<1>1. /\ mode # "closed" /\ call' = [op |-> "close", n |-> 0, retried |-> FALSE]
      /\ UNCHANGED <<mode, handler, disk, filepos, buffers, current, offset, bytesLeft,
                     pending, packet, given, got, result, errors>>
  BY DEF CloseAsync
<1>2. call' \in [op : {"none", "read", "write", "close"}, n : Nat, retried : BOOLEAN]
  BY <1>1
<1>3. StreamTypeOK'
  BY <1>1, <1>2 DEF StreamInv, StreamTypeOK, Place
<1>4. CallInv' /\ ReadInv' /\ WriteInv'
  BY <1>1 DEF StreamInv, CallInv, ReadInv, WriteInv, Reading, Writing, Came, Failed
<1>. QED  BY <1>3, <1>4 DEF StreamInv

\* What is left in the current buffer when the stream is closed.
LEMMA FilledIsSeq ==
  ASSUME StreamInv
  PROVE  Filled \in Seq(Nat) /\ Len(Filled) = BufferSize - bytesLeft
<1>1. /\ BufferSize - bytesLeft \in Nat /\ BufferSize \in Nat /\ bytesLeft \in Nat
      /\ buffers[current] \in [1..BufferSize -> Nat]
  BY StreamFacts
<1>2. Filled \in [1..BufferSize - bytesLeft -> Nat]
  BY <1>1 DEF Filled
<1>. QED  BY <1>1, <1>2, BufferIsSeq

LEMMA CloseAsyncEndsKeeps ==
  ASSUME StreamInv, NEW ok \in BOOLEAN, NEW fails \in BOOLEAN, CloseAsyncEnds(ok, fails)
  PROVE  StreamInv'
<1>1. /\ disk' = (IF ok /\ Writing /\ handler /\ ~fails THEN disk \o Filled ELSE disk)
      /\ result' \in {"saved", "lost"} /\ mode' = "closed" /\ call' = NoCall
      /\ pending' = FALSE /\ packet' = NowhereNow
      /\ UNCHANGED <<handler, filepos, buffers, current, offset, bytesLeft, given, got>>
  BY DEF CloseAsyncEnds, Filled
<1>2. errors' \in 0..MaxErrors
  <2>1. errors \in 0..MaxErrors /\ (fails => errors < MaxErrors) /\ MaxErrors \in Nat
    BY StreamFacts DEF StreamInv, StreamTypeOK, CloseAsyncEnds
  <2>2. errors' = IF fails THEN errors + 1 ELSE errors
    BY DEF CloseAsyncEnds
  <2>. QED  BY <2>1, <2>2
<1>3. disk' \in Seq(Nat)
  <2>1. disk \in Seq(Nat)
    BY StreamFacts
  <2>2. Filled \in Seq(Nat)
    BY FilledIsSeq
  <2>3. disk \o Filled \in Seq(Nat)
    BY <2>1, <2>2, ConcatFacts
  <2>. QED  BY <1>1, <2>1, <2>3
<1>4. /\ packet'.at = "nowhere" /\ packet'.res1 = packet.res1
      /\ packet' \in [at : {"nowhere", "handler", "port"}, arg2 : {0, 1}, res1 : -1..BufferSize]
  BY <1>1, PacketGone
<1>5. StreamTypeOK'
  BY <1>1, <1>2, <1>3, <1>4, NoCallFacts DEF StreamInv, StreamTypeOK, Place
<1>6. CallInv' /\ ReadInv' /\ WriteInv'
  BY <1>1, <1>4, NoCallFacts DEF StreamInv, CallInv, ReadInv, WriteInv, Reading, Writing
<1>. QED  BY <1>5, <1>6 DEF StreamInv

LEMMA NextKeeps ==
  ASSUME StreamInv, ~Retry, StreamNext
  PROVE  StreamInv'
<1>1. MaxCall \in Nat
  BY AsyncIOAssumption
<1>2. CASE Handler
  BY <1>2, HandlerFillsKeeps, HandlerWritesKeeps, HandlerFailsKeeps DEF Handler
<1>3. CASE \E m \in {"MODE_READ", "MODE_WRITE", "MODE_APPEND"} : OpenAsync(m)
  BY <1>3, OpenAsyncKeeps
<1>4. CASE \E n \in 1..MaxCall : ReadAsync(n) \/ WriteAsync(n)
  BY <1>1, <1>4, ReadAsyncKeeps, WriteAsyncKeeps
<1>5. CASE WaitPacketRetry \/ CallFails
  BY <1>5, WaitPacketRetryKeeps, CallFailsKeeps
<1>6. CASE ReadAsyncGoesOn \/ ReadAsyncEnds \/ WriteAsyncGoesOn
  BY <1>6, ReadAsyncGoesOnKeeps, ReadAsyncEndsKeeps, WriteAsyncGoesOnKeeps
<1>7. CASE CloseAsync \/ \E ok, fails \in BOOLEAN : CloseAsyncEnds(ok, fails)
  BY <1>7, CloseAsyncKeeps, CloseAsyncEndsKeeps
<1>. QED  BY <1>2, <1>3, <1>4, <1>5, <1>6, <1>7 DEF StreamNext, Owner

LEMMA StutterKeeps ==
  ASSUME StreamInv, UNCHANGED streamVars
  PROVE  StreamInv'
BY DEF StreamInv, StreamTypeOK, CallInv, ReadInv, WriteInv, Reading, Writing, Came, Failed,
       Place, streamVars

-----------------------------------------------------------------------------
(* What the plain file does meanwhile. *)

Opened == CASE mode = "closed" -> "closed" [] Reading -> "read" [] OTHER -> "write"
Contents == IF Writing /\ handler /\ ~Failed THEN disk \o Underway \o Filled ELSE disk

\* The plain file makes a step, or none.
PlainMoves == Plain!PlainNext \/ UNCHANGED <<Opened, Contents, got, Failed, result>>

LEMMA PlainMovesIsStep ==
  ASSUME PlainMoves
  PROVE  [Plain!PlainNext]_Plain!plainVars
BY DEF PlainMoves, Plain!plainVars, Opened, Contents

LEMMA IsOpen ==
  ASSUME Opened = "closed", Opened' \in {"read", "write"},
         Contents' = Contents \/ (Opened' = "write" /\ Contents' = <<>>),
         got' = <<>>, ~Failed', result' = "none"
  PROVE  PlainMoves
BY DEF PlainMoves, Plain!PlainNext, Plain!Open, Opened, Contents

\* More bytes follow, or none.
LEMMA IsWrite ==
  ASSUME Opened = "write", ~Failed, Contents \in Seq(Nat), Contents' \in Seq(Nat),
         Len(Contents) <= Len(Contents'), \A i \in 1..Len(Contents) : Contents'[i] = Contents[i],
         Opened' = Opened, Failed' = Failed, UNCHANGED <<got, result>>
  PROVE  PlainMoves
<1>. DEFINE a == Contents
            b == Contents'
<1>1. /\ a \in Seq(Nat) /\ b \in Seq(Nat) /\ Len(a) <= Len(b)
      /\ \A i \in 1..Len(a) : b[i] = a[i]
  OBVIOUS
<1>. HIDE DEF a, b
<1>2. SubSeq(b, 1, Len(a)) = a /\ (Len(a) = Len(b) => a = b)
  BY <1>1, PrefixFacts
<1>3. Len(b) > Len(a) \/ a = b
  <2>1. Len(a) \in Nat /\ Len(b) \in Nat
    BY <1>1
  <2>. QED  BY <1>1, <1>2, <2>1
<1>4. CASE a = b
  BY <1>4 DEF PlainMoves, a, b
<1>5. CASE Len(b) > Len(a)
  <2>1. Len(Contents') > Len(Contents) /\ SubSeq(Contents', 1, Len(Contents)) = Contents
    BY <1>2, <1>5 DEF a, b
  <2>. QED  BY <2>1 DEF PlainMoves, Plain!PlainNext, Plain!Write, Opened, Contents
<1>. QED  BY <1>3, <1>4, <1>5

LEMMA IsRead ==
  ASSUME Opened = "read", ~Failed, Len(got') <= Len(Contents),
         got' = SubSeq(Contents, 1, Len(got')), Len(got') >= Len(got),
         (result' = "eof" /\ Len(got') = Len(Contents)) \/ UNCHANGED result,
         Opened' = Opened, Contents' = Contents, Failed' = Failed
  PROVE  PlainMoves
BY DEF PlainMoves, Plain!PlainNext, Plain!Read, Opened, Contents

LEMMA IsFail ==
  ASSUME Opened # "closed", Failed', Opened' = Opened, UNCHANGED <<got, result>>
  PROVE  PlainMoves
BY DEF PlainMoves, Plain!PlainNext, Plain!Fail, Opened

LEMMA IsClose ==
  ASSUME Opened # "closed", Opened' = "closed", ~Failed', UNCHANGED got,
         (result' = "saved" /\ ~Failed /\ Contents' = Contents) \/ result' = "lost"
  PROVE  PlainMoves
BY DEF PlainMoves, Plain!PlainNext, Plain!Close, Opened, Contents

LEMMA ConcatEmpty ==
  ASSUME NEW a \in Seq(Nat)
  PROVE  a \o <<>> = a
<1>1. <<>> \in Seq(Nat) /\ Len(<<>>) = 0
  OBVIOUS
<1>. DEFINE b == a \o <<>>
<1>2. b \in Seq(Nat) /\ Len(b) = Len(a) + 0 /\ \A i \in 1..Len(a) : b[i] = a[i]
  BY <1>1, ConcatFacts
<1>. HIDE DEF b
<1>3. Len(a) \in Nat /\ Len(a) = Len(b) /\ Len(a) <= Len(b)
  BY <1>2
<1>4. a = b
  BY <1>2, <1>3, PrefixFacts
<1>. QED  BY <1>4 DEF b

\* When what is appended goes on, so does the whole.
LEMMA ConcatPrefix ==
  ASSUME NEW a \in Seq(Nat), NEW f \in Seq(Nat), NEW g \in Seq(Nat), Len(f) <= Len(g),
         \A i \in 1..Len(f) : g[i] = f[i]
  PROVE  /\ a \o f \in Seq(Nat) /\ a \o g \in Seq(Nat) /\ Len(a \o f) <= Len(a \o g)
         /\ \A i \in 1..Len(a \o f) : (a \o g)[i] = (a \o f)[i]
<1>1. /\ a \o f \in Seq(Nat) /\ Len(a \o f) = Len(a) + Len(f)
      /\ \A i \in 1..Len(a) : (a \o f)[i] = a[i]
      /\ \A i \in 1..Len(f) : (a \o f)[Len(a) + i] = f[i]
  BY ConcatFacts
<1>2. /\ a \o g \in Seq(Nat) /\ Len(a \o g) = Len(a) + Len(g)
      /\ \A i \in 1..Len(a) : (a \o g)[i] = a[i]
      /\ \A i \in 1..Len(g) : (a \o g)[Len(a) + i] = g[i]
  BY ConcatFacts
<1>. DEFINE b == a \o f
            c == a \o g
<1>3. /\ Len(b) = Len(a) + Len(f)
      /\ \A i \in 1..Len(a) : b[i] = a[i] /\ c[i] = a[i]
      /\ \A i \in 1..Len(f) : b[Len(a) + i] = f[i]
      /\ \A i \in 1..Len(g) : c[Len(a) + i] = g[i]
  BY <1>1, <1>2
<1>. HIDE DEF b, c
<1>4. Len(a) \in Nat /\ Len(f) \in Nat /\ Len(g) \in Nat
  OBVIOUS
<1>5. ASSUME NEW i \in 1..Len(b)
      PROVE  c[i] = b[i]
  <2>1. CASE i <= Len(a)
    BY <1>3, <1>4, <2>1
  <2>2. CASE i > Len(a)
    <3>. DEFINE j == i - Len(a)
    <3>1. j \in 1..Len(f) /\ j \in 1..Len(g) /\ i = Len(a) + j
      BY <1>3, <1>4, <2>2
    <3>. HIDE DEF j
    <3>2. b[Len(a) + j] = f[j] /\ c[Len(a) + j] = g[j] /\ f[j] = g[j]
      BY <1>3, <3>1
    <3>. QED  BY <3>1, <3>2
  <2>. QED  BY <1>4, <2>1, <2>2
<1>6. \A i \in 1..Len(a \o f) : (a \o g)[i] = (a \o f)[i]
  BY <1>5 DEF b, c
<1>7. Len(a \o f) <= Len(a \o g)
  BY <1>1, <1>2, <1>4
<1>. QED  BY <1>1, <1>2, <1>6, <1>7

LEMMA BuffersAreSeqs ==
  ASSUME StreamInv, NEW b \in {0, 1}
  PROVE  /\ buffers[b] \in Seq(Nat) /\ Len(buffers[b]) = BufferSize
         /\ [p \in Place |-> buffers[b][p]] = buffers[b]
<1>1. buffers[b] \in [1..BufferSize -> Nat] /\ BufferSize \in Nat /\ Place = 1..BufferSize
  BY StreamFacts
<1>. QED  BY <1>1, BufferIsSeq

LEMMA ContentsIsSeq ==
  ASSUME StreamInv
  PROVE  /\ Underway \in Seq(Nat) /\ disk \o Underway \in Seq(Nat) /\ Contents \in Seq(Nat)
<1>1. Underway \in Seq(Nat)
  <2>1. packet.arg2 \in {0, 1}
    BY StreamFacts
  <2>2. buffers[packet.arg2] \in Seq(Nat)
    BY <2>1, BuffersAreSeqs
  <2>. QED  BY <2>2 DEF Underway
<1>2. disk \in Seq(Nat)
  BY StreamFacts
<1>3. disk \o Underway \in Seq(Nat)
  BY <1>1, <1>2, ConcatFacts
<1>4. Filled \in Seq(Nat)
  BY FilledIsSeq
<1>5. (disk \o Underway) \o Filled \in Seq(Nat)
  BY <1>3, <1>4, ConcatFacts
<1>. QED  BY <1>1, <1>2, <1>3, <1>5 DEF Contents

\* The handler works behind the caller's back.
LEMMA HandlerFillsIsPlain ==
  ASSUME StreamInv, HandlerFills
  PROVE  PlainMoves
<1>1. Reading /\ pending /\ UNCHANGED <<mode, disk, pending, got, result>>
  BY DEF HandlerFills, StreamInv, CallInv
<1>2. UNCHANGED <<Opened, Contents, got, result>> /\ Failed' = Failed
  BY <1>1 DEF Opened, Contents, Reading, Writing, Failed
<1>. QED  BY <1>2 DEF PlainMoves

LEMMA HandlerWritesIsPlain ==
  ASSUME StreamInv, HandlerWrites
  PROVE  PlainMoves
<1>1. /\ packet.at = "handler" /\ Writing /\ packet' = [packet EXCEPT !.at = "port", !.res1 = BufferSize]
      /\ disk' = disk \o [p \in Place |-> buffers[packet.arg2][p]]
      /\ UNCHANGED <<mode, handler, buffers, current, bytesLeft, pending, got, result>>
  BY DEF HandlerWrites
<1>2. pending /\ handler
  BY <1>1 DEF StreamInv, CallInv
<1>3. packet'.at = "port" /\ packet'.res1 = BufferSize
  <2>1. BufferSize \in -1..BufferSize
    BY StreamFacts
  <2>. QED  BY <1>1, <2>1, PacketBack
<1>4. ~Failed /\ ~Failed' /\ Failed' = Failed /\ Filled' = Filled /\ Opened' = Opened
  BY <1>1, <1>2 DEF Failed, Filled, Opened, Reading
<1>5. Underway' = <<>> /\ Underway = buffers[packet.arg2]
  BY <1>1, <1>3, StreamFacts DEF Underway
<1>6. disk' = disk \o Underway
  <2>1. packet.arg2 \in {0, 1}
    BY StreamFacts
  <2>. QED  BY <1>1, <1>5, <2>1, BuffersAreSeqs
<1>7. disk' \o Underway' = disk'
  <2>1. disk' \in Seq(Nat)
    BY <1>6, ContentsIsSeq
  <2>. QED  BY <1>5, <2>1, ConcatEmpty
<1>8. Contents = (disk \o Underway) \o Filled
  BY <1>1, <1>2, <1>4 DEF Contents
<1>9. Contents' = (disk' \o Underway') \o Filled'
  BY <1>1, <1>2, <1>4 DEF Contents, Writing
<1>. QED  BY <1>1, <1>4, <1>6, <1>7, <1>8, <1>9 DEF PlainMoves

LEMMA HandlerFailsIsPlain ==
  ASSUME StreamInv, HandlerFails
  PROVE  PlainMoves
<1>1. /\ packet.at = "handler" /\ packet' = [packet EXCEPT !.at = "port", !.res1 = -1]
      /\ UNCHANGED <<mode, handler, disk, buffers, current, bytesLeft, pending, got, result>>
  BY DEF HandlerFails
<1>2. packet'.at = "port" /\ packet'.res1 = -1 /\ packet'.arg2 = packet.arg2
  <2>1. -1 \in -1..BufferSize
    BY StreamFacts
  <2>. QED  BY <1>1, <2>1, PacketBack
<1>3. Failed' = Failed /\ Filled' = Filled /\ Opened' = Opened /\ Underway' = Underway
  BY <1>1, <1>2 DEF StreamInv, CallInv, Failed, Filled, Opened, Reading, Underway
<1>. QED  BY <1>1, <1>3 DEF PlainMoves, Contents, Writing

LEMMA RetryIsPlain ==
  ASSUME StreamInv, ~Retry, WaitPacketRetry
  PROVE  PlainMoves
<1>1. Reading /\ pending /\ UNCHANGED <<mode, handler, disk, pending, got, result>>
  BY DEF WaitPacketRetry
<1>2. UNCHANGED <<Opened, Contents, got, result>> /\ Failed' = Failed
  BY <1>1 DEF Opened, Contents, Reading, Writing, Failed
<1>. QED  BY <1>2 DEF PlainMoves

LEMMA CallFailsIsPlain ==
  ASSUME StreamInv, CallFails
  PROVE  PlainMoves
<1>1. /\ call.op \in {"read", "write"} /\ Taken(FALSE)
      /\ packet' = NowhereNow /\ pending' = PendingAfter /\ UNCHANGED <<mode, got, result>>
  BY DEF CallFails
<1>2. mode # "closed" /\ ~call.retried /\ packet.res1 < 0
  BY <1>1, StreamFacts DEF StreamInv, CallInv, Taken, Reading, Writing
<1>3. ~pending' /\ packet'.res1 = packet.res1
  BY <1>1, <1>2, PacketGone DEF PendingAfter
<1>4. Failed' /\ Opened' = Opened /\ Opened # "closed"
  BY <1>1, <1>2, <1>3 DEF Failed, Opened, Reading
<1>. QED  BY <1>1, <1>4, IsFail

LEMMA CloseAsyncIsPlain ==
  ASSUME StreamInv, CloseAsync
  PROVE  PlainMoves
BY DEF CloseAsync, PlainMoves, Opened, Contents, Underway, Filled, Failed, Reading, Writing

LEMMA StutterIsPlain ==
  ASSUME UNCHANGED streamVars
  PROVE  PlainMoves
BY DEF streamVars, PlainMoves, Opened, Contents, Underway, Filled, Failed, Reading, Writing

LEMMA OpenAsyncIsPlain ==
  ASSUME StreamInv, NEW m \in {"MODE_READ", "MODE_WRITE", "MODE_APPEND"}, OpenAsync(m)
  PROVE  PlainMoves
<1>1. /\ mode = "closed" /\ mode' = m /\ disk' = (IF m = "MODE_WRITE" THEN <<>> ELSE disk)
      /\ got' = <<>> /\ result' = "none" /\ UNCHANGED <<handler, buffers>>
      /\ m # "MODE_READ" => bytesLeft' = BufferSize /\ packet' = [at |-> "nowhere", arg2 |-> 0, res1 |-> 0]
  BY DEF OpenAsync
<1>2. packet'.res1 = 0
  BY DEF OpenAsync, Sent
<1>3. ~Failed'
  BY <1>2 DEF Failed
<1>4. Opened = "closed" /\ Opened' = IF m = "MODE_READ" THEN "read" ELSE "write"
  BY <1>1 DEF Opened, Reading
<1>5. Contents = disk
  BY <1>1 DEF Contents, Writing
<1>6. Contents' = disk'
  <2>1. CASE m = "MODE_READ"
    BY <1>1, <2>1 DEF Contents, Writing
  <2>2. CASE m # "MODE_READ"
    <3>1. Underway' = <<>>
      BY <1>1, <2>2 DEF Underway
    <3>2. Filled' = <<>>
      <4>1. BufferSize - bytesLeft' = 0
        BY <1>1, <2>2, StreamFacts
      <4>2. Filled' = [p \in 1..0 |-> buffers'[current'][p]]
        BY <4>1 DEF Filled
      <4>. QED  BY <4>2
    <3>3. disk' \in Seq(Nat)
      BY <1>1, StreamFacts
    <3>4. (disk' \o Underway') \o Filled' = disk'
      BY <3>1, <3>2, <3>3, ConcatEmpty
    <3>. QED  BY <3>4 DEF Contents
  <2>. QED  BY <2>1, <2>2
<1>. QED  BY <1>1, <1>3, <1>4, <1>5, <1>6, IsOpen

\* The reader has the first bytes of the file.
LEMMA GotIsPrefix ==
  ASSUME StreamInv', Reading', disk' = disk, disk \in Seq(Nat)
  PROVE  Len(got') <= Len(disk) /\ got' = SubSeq(disk, 1, Len(got'))
<1>1. /\ filepos' = Len(got') + bytesLeft' + Came' /\ filepos' <= Len(disk)
      /\ \A i \in 1..Len(got') : disk[i] = got'[i]
  BY DEF StreamInv, ReadInv
<1>2. got' \in Seq(Nat) /\ bytesLeft' \in Nat
  BY DEF StreamInv, StreamTypeOK
<1>3. packet'.res1 \in Int
  BY AsyncIOAssumption DEF StreamInv, StreamTypeOK
<1>4. Came' \in Nat
  BY <1>3 DEF Came
<1>5. Len(got') <= Len(disk)
  <2>1. Len(got') \in Nat /\ Len(disk) \in Nat
    BY <1>2
  <2>. QED  BY <1>1, <1>2, <1>4, <2>1
<1>. DEFINE g == got'
<1>6. g \in Seq(Nat) /\ Len(g) <= Len(disk) /\ \A i \in 1..Len(g) : disk[i] = g[i]
  BY <1>1, <1>2, <1>5
<1>. HIDE DEF g
<1>7. SubSeq(disk, 1, Len(g)) = g
  BY <1>6, PrefixFacts
<1>. QED  BY <1>5, <1>7 DEF g

LEMMA ReadAsyncIsPlain ==
  ASSUME StreamInv, NEW n \in Nat, ReadAsync(n)
  PROVE  PlainMoves
<1>1. Reading /\ UNCHANGED <<mode, handler, disk, pending, packet, result>>
  BY DEF ReadAsync
<1>2. Opened = "read" /\ Opened' = Opened /\ Failed' = Failed /\ Contents = disk /\ Contents' = Contents
  BY <1>1 DEF Opened, Reading, Writing, Failed, Contents
<1>3. StreamInv' /\ Len(got) <= Len(got') /\ (bytesLeft = 0 => got' = got)
  BY ReadAsyncKeeps
<1>4. CASE Failed
  <2>1. bytesLeft = 0
    BY <1>1, <1>4 DEF StreamInv, ReadInv
  <2>. QED  BY <1>1, <1>2, <1>3, <2>1 DEF PlainMoves
<1>5. CASE ~Failed
  <2>1. Len(got') <= Len(disk) /\ got' = SubSeq(disk, 1, Len(got'))
    BY <1>1, <1>3, StreamFacts, GotIsPrefix DEF Reading
  <2>2. Len(got') >= Len(got)
    BY <1>3, StreamFacts DEF StreamInv, StreamTypeOK
  <2>. QED  BY <1>1, <1>2, <1>5, <2>1, <2>2, IsRead
<1>. QED  BY <1>4, <1>5

LEMMA ReadAsyncGoesOnIsPlain ==
  ASSUME StreamInv, ReadAsyncGoesOn
  PROVE  PlainMoves
<1>1. packet.res1 > 0 /\ pending' = TRUE /\ UNCHANGED <<mode, handler, disk, result>>
  BY DEF ReadAsyncGoesOn
<1>2. Reading
  BY ReadGoesOn
<1>3. ~Failed /\ ~Failed' /\ Failed' = Failed
  BY <1>1, StreamFacts DEF Failed
<1>4. Opened = "read" /\ Opened' = Opened /\ Contents = disk /\ Contents' = Contents
  BY <1>1, <1>2 DEF Opened, Reading, Writing, Contents
<1>5. StreamInv' /\ Len(got) <= Len(got')
  BY ReadAsyncGoesOnKeeps
<1>6. Len(got') <= Len(disk) /\ got' = SubSeq(disk, 1, Len(got'))
  BY <1>1, <1>2, <1>5, StreamFacts, GotIsPrefix DEF Reading
<1>7. Len(got') >= Len(got)
  BY <1>5, StreamFacts DEF StreamInv, StreamTypeOK
<1>. QED  BY <1>1, <1>3, <1>4, <1>6, <1>7, IsRead

LEMMA ReadAsyncEndsIsPlain ==
  ASSUME StreamInv, ReadAsyncEnds
  PROVE  PlainMoves
<1>1. /\ call.op = "read" /\ Taken(TRUE) /\ packet.res1 = 0 /\ packet' = NowhereNow /\ result' = "eof"
      /\ UNCHANGED <<mode, handler, disk, got>>
  BY DEF ReadAsyncEnds
<1>2. Reading /\ bytesLeft = 0 /\ packet.at # "handler"
  BY <1>1 DEF StreamInv, CallInv, Taken
<1>3. packet'.res1 = packet.res1
  BY <1>1, PacketGone
<1>4. ~Failed /\ ~Failed' /\ Failed' = Failed
  BY <1>1, <1>3 DEF Failed
<1>5. Opened = "read" /\ Opened' = Opened /\ Contents = disk /\ Contents' = Contents
  BY <1>1, <1>2 DEF Opened, Reading, Writing, Contents
<1>6. Len(got) = Len(disk)
  <2>1. Came = 0
    BY <1>1 DEF Came
  <2>2. filepos = Len(got) + bytesLeft + Came /\ filepos = Len(disk)
    BY <1>1, <1>2 DEF StreamInv, ReadInv
  <2>. QED  BY <1>2, <2>1, <2>2, StreamFacts
<1>7. StreamInv'
  BY ReadAsyncEndsKeeps
<1>8. Len(got') <= Len(disk) /\ got' = SubSeq(disk, 1, Len(got'))
  BY <1>1, <1>2, <1>7, StreamFacts, GotIsPrefix DEF Reading
<1>9. Len(got') >= Len(got)
  BY <1>1, StreamFacts
<1>. QED  BY <1>1, <1>4, <1>5, <1>6, <1>8, <1>9, IsRead

\* The used part of the current buffer grows.
LEMMA FilledGrows ==
  ASSUME StreamInv, current' = current, bytesLeft' \in Nat, bytesLeft' <= bytesLeft,
         buffers' \in [{0, 1} -> [Place -> Nat]],
         \A p \in 1..BufferSize - bytesLeft : buffers'[current][p] = buffers[current][p]
  PROVE  /\ Filled' \in Seq(Nat) /\ Len(Filled) <= Len(Filled')
         /\ \A p \in 1..Len(Filled) : Filled'[p] = Filled[p]
<1>1. /\ Filled \in Seq(Nat) /\ Len(Filled) = BufferSize - bytesLeft
      /\ BufferSize \in Nat /\ bytesLeft \in Nat /\ bytesLeft <= BufferSize /\ current \in {0, 1}
      /\ Place = 1..BufferSize
  BY FilledIsSeq, StreamFacts
<1>2. /\ BufferSize - bytesLeft' \in Nat /\ BufferSize - bytesLeft <= BufferSize - bytesLeft'
      /\ \A p \in 1..BufferSize - bytesLeft : p \in 1..BufferSize - bytesLeft'
  <2>1. /\ BufferSize \in Nat /\ bytesLeft \in Nat /\ bytesLeft <= BufferSize
        /\ bytesLeft' \in Nat /\ bytesLeft' <= bytesLeft
    BY <1>1
  <2>. DEFINE l == bytesLeft'
  <2>2. /\ BufferSize \in Nat /\ bytesLeft \in Nat /\ bytesLeft <= BufferSize
        /\ l \in Nat /\ l <= bytesLeft
    BY <2>1
  <2>. HIDE DEF l
  <2>3. /\ BufferSize - l \in Nat /\ BufferSize - bytesLeft <= BufferSize - l
        /\ \A p \in 1..BufferSize - bytesLeft : p \in 1..BufferSize - l
    BY <2>2
  <2>. QED  BY <2>3 DEF l
<1>3. Filled' = [p \in 1..BufferSize - bytesLeft' |-> buffers'[current][p]]
  BY DEF Filled
<1>4. Filled' \in [1..BufferSize - bytesLeft' -> Nat]
  <2>. DEFINE l == bytesLeft'
              c == buffers'[current]
  <2>1. c \in [1..BufferSize -> Nat] /\ BufferSize \in Nat /\ l \in Nat
    BY <1>1
  <2>2. Filled' = [p \in 1..BufferSize - l |-> c[p]]
    BY <1>3
  <2>. HIDE DEF l, c
  <2>3. \A p \in 1..BufferSize - l : p \in 1..BufferSize
    BY <2>1
  <2>4. \A p \in 1..BufferSize - l : c[p] \in Nat
    BY <2>1, <2>3
  <2>. QED  BY <2>2, <2>4 DEF l
<1>5. Filled' \in Seq(Nat) /\ Len(Filled') = BufferSize - bytesLeft'
  BY <1>2, <1>4, BufferIsSeq
<1>6. ASSUME NEW p \in 1..Len(Filled)
      PROVE  Filled'[p] = Filled[p]
  <2>1. p \in 1..BufferSize - bytesLeft /\ p \in 1..BufferSize - bytesLeft'
    BY <1>1, <1>2
  <2>2. Filled[p] = buffers[current][p]
    BY <2>1 DEF Filled
  <2>. QED  BY <1>3, <2>1, <2>2
<1>. QED  BY <1>1, <1>2, <1>5, <1>6

LEMMA WriteAsyncIsPlain ==
  ASSUME StreamInv, NEW n \in Nat, WriteAsync(n)
  PROVE  PlainMoves
<1>1. Writing /\ UNCHANGED <<mode, handler, disk, current, pending, packet, got, result>>
  BY DEF WriteAsync
<1>2. Opened = "write" /\ Opened' = Opened /\ Failed' = Failed /\ Writing'
  BY <1>1 DEF Opened, Reading, Writing, Failed
<1>3. CASE Failed \/ ~handler
  <2>1. Contents = disk /\ Contents' = disk
    BY <1>1, <1>2, <1>3 DEF Contents
  <2>. QED  BY <1>1, <1>2, <2>1 DEF PlainMoves
<1>4. CASE ~Failed /\ handler
  <2>1. CopyIn(current, bytesLeft, n)
    BY <1>4 DEF WriteAsync
  <2>2. /\ buffers' \in [{0, 1} -> [Place -> Nat]] /\ buffers'[1 - current] = buffers[1 - current]
        /\ \A p \in 1..BufferSize - bytesLeft : buffers'[current][p] = buffers[current][p]
        /\ bytesLeft' \in Nat /\ bytesLeft' = IF n <= bytesLeft THEN bytesLeft - n ELSE bytesLeft
    <3>1. current \in {0, 1} /\ bytesLeft \in Nat /\ bytesLeft <= BufferSize
      BY StreamFacts
    <3>. QED  BY <2>1, <3>1, CopyInFacts
  <2>3. bytesLeft' <= bytesLeft
    BY <2>2, StreamFacts
  <2>4. /\ Filled' \in Seq(Nat) /\ Len(Filled) <= Len(Filled')
        /\ \A p \in 1..Len(Filled) : Filled'[p] = Filled[p]
    BY <1>1, <2>2, <2>3, FilledGrows
  <2>5. Underway' = Underway
    <3>1. packet.at # "nowhere" => packet.arg2 = 1 - current
      BY <1>1 DEF StreamInv, WriteInv
    <3>. QED  BY <1>1, <2>2, <3>1 DEF Underway
  <2>. DEFINE a == disk \o Underway
              g == Filled'
  <2>6. Contents = a \o Filled /\ Contents' = a \o g
    BY <1>1, <1>2, <1>4, <2>5 DEF Contents
  <2>7. a \in Seq(Nat) /\ g \in Seq(Nat) /\ Filled \in Seq(Nat)
    BY <2>4, ContentsIsSeq, FilledIsSeq
  <2>8. Len(Filled) <= Len(g) /\ \A p \in 1..Len(Filled) : g[p] = Filled[p]
    BY <2>4
  <2>. HIDE DEF a, g
  <2>9. /\ a \o Filled \in Seq(Nat) /\ a \o g \in Seq(Nat) /\ Len(a \o Filled) <= Len(a \o g)
        /\ \A i \in 1..Len(a \o Filled) : (a \o g)[i] = (a \o Filled)[i]
    BY <2>7, <2>8, ConcatPrefix
  <2>10. /\ Contents \in Seq(Nat) /\ Contents' \in Seq(Nat) /\ Len(Contents) <= Len(Contents')
         /\ \A i \in 1..Len(Contents) : Contents'[i] = Contents[i]
    BY <2>6, <2>9
  <2>. QED  BY <1>1, <1>2, <1>4, <2>10, IsWrite
<1>. QED  BY <1>3, <1>4

LEMMA WriteAsyncGoesOnIsPlain ==
  ASSUME StreamInv, WriteAsyncGoesOn
  PROVE  PlainMoves
<1>1. /\ call.op = "write" /\ Taken(TRUE) /\ packet' = Sent(current) /\ pending' = TRUE
      /\ current' = 1 - current /\ CopyIn(1 - current, BufferSize, call.n)
      /\ UNCHANGED <<mode, handler, disk, got, result>>
  BY DEF WriteAsyncGoesOn
<1>2. Writing /\ handler /\ packet.at # "handler" /\ packet.res1 >= 0
  BY <1>1 DEF StreamInv, CallInv, Taken
<1>3. ~Failed /\ ~Failed' /\ Failed' = Failed
  BY <1>1, <1>2, StreamFacts DEF Failed
<1>4. Opened = "write" /\ Opened' = Opened /\ Writing'
  BY <1>1, <1>2 DEF Opened, Reading, Writing
<1>5. Underway = <<>>
  BY <1>2, StreamFacts DEF Underway
<1>6. buffers'[current] = buffers[current]
  <2>. DEFINE b == 1 - current
              n == call.n
  <2>1. b \in {0, 1} /\ BufferSize \in Nat /\ n \in Nat /\ BufferSize <= BufferSize
    BY StreamFacts
  <2>2. CopyIn(b, BufferSize, n)
    BY <1>1
  <2>. HIDE DEF b, n
  <2>3. buffers'[1 - b] = buffers[1 - b]
    BY <2>1, <2>2, CopyInFacts
  <2>4. 1 - b = current
    BY StreamFacts DEF b
  <2>. QED  BY <2>3, <2>4
<1>. DEFINE full == buffers[current]
            g == Filled'
            a == disk \o Filled
            b == disk \o full
<1>7. Underway' = full
  BY <1>1, <1>6 DEF Underway, Sent
<1>8. /\ disk \in Seq(Nat) /\ Filled \in Seq(Nat) /\ full \in Seq(Nat) /\ Len(Filled) <= Len(full)
      /\ \A p \in 1..Len(Filled) : full[p] = Filled[p]
  <2>1. /\ current \in {0, 1} /\ disk \in Seq(Nat) /\ bytesLeft \in Nat /\ BufferSize \in Nat
    BY StreamFacts
  <2>2. full \in Seq(Nat) /\ Len(full) = BufferSize
    BY <2>1, BuffersAreSeqs
  <2>3. Filled \in Seq(Nat) /\ Len(Filled) = BufferSize - bytesLeft
    BY FilledIsSeq
  <2>4. \A p \in 1..Len(Filled) : full[p] = Filled[p]
    BY <2>3 DEF Filled
  <2>5. Len(Filled) <= Len(full)
    BY <2>1, <2>2, <2>3
  <2>. QED  BY <2>1, <2>2, <2>3, <2>4, <2>5
<1>9. g \in Seq(Nat)
  <2>1. StreamInv'
    BY WriteAsyncGoesOnKeeps
  <2>2. /\ buffers'[current'] \in [1..BufferSize -> Nat]
        /\ BufferSize - bytesLeft' \in Nat
        /\ \A p \in 1..BufferSize - bytesLeft' : p \in 1..BufferSize
    <3>1. BufferSize \in Nat /\ bytesLeft' \in 0..BufferSize
      BY <2>1, AsyncIOAssumption DEF StreamInv, StreamTypeOK
    <3>2. current' \in {0, 1} /\ buffers' \in [{0, 1} -> [1..BufferSize -> Nat]]
      BY <2>1 DEF StreamInv, StreamTypeOK, Place
    <3>. DEFINE l == bytesLeft'
    <3>3. BufferSize \in Nat /\ l \in 0..BufferSize
      BY <3>1
    <3>. HIDE DEF l
    <3>4. BufferSize - l \in Nat /\ \A p \in 1..BufferSize - l : p \in 1..BufferSize
      BY <3>3
    <3>. QED  BY <3>2, <3>4 DEF l
  <2>3. g = [p \in 1..BufferSize - bytesLeft' |-> buffers'[current'][p]]
    BY DEF Filled
  <2>4. g \in [1..BufferSize - bytesLeft' -> Nat]
    <3>1. \A p \in 1..BufferSize - bytesLeft' : buffers'[current'][p] \in Nat
      BY <2>2
    <3>. QED  BY <2>3, <3>1
  <2>. HIDE DEF g
  <2>. QED  BY <2>2, <2>4, BufferIsSeq
<1>10. Contents = a /\ Contents' = b \o g
  <2>1. Contents = (disk \o <<>>) \o Filled
    BY <1>2, <1>3, <1>5 DEF Contents
  <2>2. disk \o <<>> = disk
    BY <1>8, ConcatEmpty
  <2>. QED  BY <1>1, <1>2, <1>3, <1>4, <1>7, <2>1, <2>2 DEF Contents
<1>. HIDE DEF full, g
<1>11. /\ a \in Seq(Nat) /\ b \in Seq(Nat) /\ Len(a) <= Len(b)
       /\ \A i \in 1..Len(a) : b[i] = a[i]
  BY <1>8, ConcatPrefix
<1>. HIDE DEF a, b
<1>12. /\ b \o g \in Seq(Nat) /\ Len(b) <= Len(b \o g)
       /\ \A i \in 1..Len(b) : (b \o g)[i] = b[i]
  <2>1. /\ b \o g \in Seq(Nat) /\ Len(b \o g) = Len(b) + Len(g)
        /\ \A i \in 1..Len(b) : (b \o g)[i] = b[i]
    BY <1>9, <1>11, ConcatFacts
  <2>2. Len(b) \in Nat /\ Len(g) \in Nat
    BY <1>9, <1>11
  <2>. QED  BY <2>1, <2>2
<1>. DEFINE c == b \o g
<1>13. c \in Seq(Nat) /\ Len(b) <= Len(c) /\ \A i \in 1..Len(b) : c[i] = b[i]
  BY <1>12
<1>. HIDE DEF c
<1>14. Len(a) <= Len(c) /\ \A i \in 1..Len(a) : c[i] = a[i]
  <2>1. Len(a) \in Nat /\ Len(b) \in Nat /\ Len(c) \in Nat
    BY <1>11, <1>13
  <2>2. \A i \in 1..Len(a) : i \in 1..Len(b)
    BY <1>11, <2>1
  <2>. QED  BY <1>11, <1>13, <2>1, <2>2
<1>15. /\ Contents \in Seq(Nat) /\ Contents' \in Seq(Nat) /\ Len(Contents) <= Len(Contents')
       /\ \A i \in 1..Len(Contents) : Contents'[i] = Contents[i]
  BY <1>10, <1>11, <1>13, <1>14 DEF c
<1>. QED  BY <1>1, <1>3, <1>4, <1>15, IsWrite

LEMMA CloseAsyncEndsIsPlain ==
  ASSUME StreamInv, NEW ok \in BOOLEAN, NEW fails \in BOOLEAN, CloseAsyncEnds(ok, fails)
  PROVE  PlainMoves
<1>1. /\ call.op = "close" /\ Taken(ok) /\ mode' = "closed" /\ UNCHANGED got
      /\ disk' = (IF ok /\ Writing /\ handler /\ ~fails THEN disk \o Filled ELSE disk)
      /\ result' = IF ok /\ ~fails THEN "saved" ELSE "lost"
  BY DEF CloseAsyncEnds, Filled
<1>2. /\ Opened # "closed" /\ Opened' = "closed" /\ ~Failed' /\ Contents' = disk'
  BY <1>1 DEF StreamInv, CallInv, Opened, Reading, Writing, Failed, Contents
<1>3. CASE ~(ok /\ ~fails)
  BY <1>1, <1>2, <1>3, IsClose
<1>4. CASE ok /\ ~fails
  <2>1. packet.at # "handler" /\ packet.res1 >= 0
    BY <1>1, <1>4 DEF StreamInv, CallInv, Taken
  <2>2. ~Failed /\ Underway = <<>>
    BY <2>1, StreamFacts DEF Failed, Underway
  <2>3. disk \o <<>> = disk
    BY StreamFacts, ConcatEmpty
  <2>4. Contents' = Contents
    BY <1>1, <1>2, <1>4, <2>2, <2>3 DEF Contents
  <2>. QED  BY <1>1, <1>2, <1>4, <2>2, <2>4, IsClose
<1>. QED  BY <1>3, <1>4

LEMMA NextIsPlain ==
  ASSUME StreamInv, ~Retry, StreamNext
  PROVE  PlainMoves
<1>1. MaxCall \in Nat
  BY AsyncIOAssumption
<1>2. CASE Handler
  BY <1>2, HandlerFillsIsPlain, HandlerWritesIsPlain, HandlerFailsIsPlain DEF Handler
<1>3. CASE \E m \in {"MODE_READ", "MODE_WRITE", "MODE_APPEND"} : OpenAsync(m)
  BY <1>3, OpenAsyncIsPlain
<1>4. CASE \E n \in 1..MaxCall : ReadAsync(n) \/ WriteAsync(n)
  BY <1>1, <1>4, ReadAsyncIsPlain, WriteAsyncIsPlain
<1>5. CASE WaitPacketRetry \/ CallFails
  BY <1>5, RetryIsPlain, CallFailsIsPlain
<1>6. CASE ReadAsyncGoesOn \/ ReadAsyncEnds \/ WriteAsyncGoesOn
  BY <1>6, ReadAsyncGoesOnIsPlain, ReadAsyncEndsIsPlain, WriteAsyncGoesOnIsPlain
<1>7. CASE CloseAsync \/ \E ok, fails \in BOOLEAN : CloseAsyncEnds(ok, fails)
  BY <1>7, CloseAsyncIsPlain, CloseAsyncEndsIsPlain
<1>. QED  BY <1>2, <1>3, <1>4, <1>5, <1>6, <1>7 DEF StreamNext, Owner

-----------------------------------------------------------------------------
(* The theorems.  A packet is sent again while the stream is open only when  *)
(* the user answers Retry.                                                   *)

\* What the caller, the buffers and the packet hold agrees with the file.
THEOREM StreamInvariant ==
  ASSUME ~Retry
  PROVE  StreamSpec => []StreamInv
<1>1. StreamInit => StreamInv
  BY InitKeeps
<1>2. StreamInv /\ [StreamNext]_streamVars => StreamInv'
  BY NextKeeps, StutterKeeps
<1>. QED  BY <1>1, <1>2, PTL DEF StreamSpec

\* Two buffers and a packet that is underway while the caller goes on implement
\* a plain file: what asyncio.c is for.
THEOREM StreamsArePlainFiles ==
  ASSUME ~Retry
  PROVE  StreamSpec => StreamIsPlainFile
<1>1. StreamInit => Plain!PlainInit
  BY DEF StreamInit, Plain!PlainInit, Failed
<1>2. StreamInv /\ [StreamNext]_streamVars => [Plain!PlainNext]_Plain!plainVars
  <2>1. ASSUME StreamInv, [StreamNext]_streamVars
        PROVE  PlainMoves
    BY <2>1, NextIsPlain, StutterIsPlain
  <2>. QED  BY <2>1, PlainMovesIsStep
<1>. QED  BY <1>1, <1>2, StreamInvariant, PTL DEF StreamSpec, StreamIsPlainFile, Plain!PlainSpec

=============================================================================
