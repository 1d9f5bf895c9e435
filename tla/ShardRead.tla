------------------------------ MODULE ShardRead ------------------------------
(***************************************************************************)
(* The files of the storage service (cmd/storage/main.go), between the     *)
(* client that writes one with a WriteShard stream (streamBytes of         *)
(* cmd/cindex-git) and the client that reads a range of one: cacheLoader   *)
(* of cmd/cindex-serve, with GetShardMetadata and a ReadShard stream.      *)
(* Nothing orders the two: opening a file to write truncates the one that  *)
(* is being read.                                                          *)
(***************************************************************************)
EXTENDS Integers, Sequences

CONSTANTS
  Bytes,        \* what a file is made of
  Before,       \* the contents the file may have before: a sequence, or Absent
  Sent,         \* what the writer sends
  blockSize,    \* the most bytes of a block, read
  maxBlockSize, \* the most bytes of a block, written
  MaxInt32,     \* the largest length of a blob
  Ranges,       \* the ranges asked for; length 0 asks for the whole file
  Absent, Nil

\* What the constants must satisfy.
ShardReadAssumption ==
  /\ blockSize \in Nat \ {0} /\ maxBlockSize \in Nat \ {0} /\ MaxInt32 \in Nat
  /\ Ranges \subseteq [start : Nat, length : Nat]
  /\ Sent \in Seq(Bytes) \ {Absent} /\ Before \ {Absent} \subseteq Seq(Bytes)
  /\ Nil \notin Bytes \cup {"ok", "error"}

VARIABLES
  old, file,    \* the file before, and now
  wpc, wrote,   \* the writer: where it is and how much it has written
  sum,          \* the sum of the answer to WriteShard, as the bytes summed
  pc,           \* the reader: "idle", "size", "open", "stream", "done", "failed"
  ask,          \* the range it loads
  pos, left,    \* the server: where it reads, the bytes remaining
  wire, ended,  \* the blocks under way, and how the stream ended
  body,         \* the bytes the loader has copied
  late          \* the read began after the write had ended

vars == <<old, file, wpc, wrote, sum, pc, ask, pos, left, wire, ended, body, late>>
writer == <<file, wpc, wrote, sum>>
reader == <<pc, ask, pos, left, wire, ended, body, late>>

Smaller(a, b) == IF a < b THEN a ELSE b
Length(f) == IF f = Absent THEN 0 ELSE Len(f)

Init ==
  /\ old \in Before /\ file = old
  /\ wpc = "idle" /\ wrote = 0 /\ sum = Nil
  /\ pc = "idle" /\ ask = [start |-> 0, length |-> 0]
  /\ pos = 0 /\ left = 0 /\ wire = <<>> /\ ended = Nil
  /\ body = <<>> /\ late = FALSE

-----------------------------------------------------------------------------
(***************************************************************************)
(* WriteShard and streamBytes.                                             *)
(***************************************************************************)
\* The first message names the shard; the file is created or truncated.
OpenTrunc ==
  /\ wpc = "idle"
  /\ wpc' = "write" /\ file' = <<>>
  /\ UNCHANGED <<old, wrote, sum, reader>>

\* One message of the stream, written at the offset of the descriptor.
WriteBlock ==
  /\ wpc = "write" /\ wrote < Len(Sent)
  /\ LET n == Smaller(maxBlockSize, Len(Sent) - wrote)
     IN  /\ file' = SubSeq(file, 1, wrote) \o SubSeq(Sent, wrote + 1, wrote + n)
                     \o SubSeq(file, wrote + n + 1, Len(file))
         /\ wrote' = wrote + n
  /\ UNCHANGED <<old, wpc, sum, reader>>

\* The client closed the stream: the answer has the sum of what came.
CloseWrite ==
  /\ wpc = "write" /\ wrote = Len(Sent)
  /\ wpc' = "done" /\ sum' = SubSeq(Sent, 1, wrote)
  /\ UNCHANGED <<old, file, wrote, reader>>

\* The client dies, a write fails, the stream breaks: no answer.
WriteFails ==
  /\ wpc = "write"
  /\ wpc' = "failed"
  /\ UNCHANGED <<old, file, wrote, sum, reader>>

-----------------------------------------------------------------------------
(***************************************************************************)
(* cacheLoader and ReadShard.                                              *)
(***************************************************************************)
\* A load for a range, or for the whole file, whose size is asked for first.
StartLoad(r) ==
  /\ pc = "idle"
  /\ ask' = r /\ pc' = IF r.length = 0 THEN "size" ELSE "open"
  /\ late' = (wpc = "done")
  /\ UNCHANGED <<old, writer, pos, left, wire, ended, body>>

\* The names the service refuses: an id that is not hexadecimal, such as
\* one that ends in ".raw", or another suffix.
RefusedName ==
  /\ pc \in {"size", "open"}
  /\ pc' = "failed"
  /\ UNCHANGED <<old, writer, ask, pos, left, wire, ended, body, late>>

\* GetShardMetadata and Size; a length of more than 31 bits is an error.
Size ==
  /\ pc = "size"
  /\ IF file = Absent \/ Length(file) > MaxInt32
     THEN pc' = "failed" /\ UNCHANGED ask
     ELSE pc' = "open" /\ ask' = [ask EXCEPT !.length = Len(file)]
  /\ UNCHANGED <<old, writer, pos, left, wire, ended, body, late>>

InBounds(r) == r.start + r.length <= Len(file)

\* ReadShard up to its loop: open, stat, the check of the bounds, seek.
OpenRead ==
  /\ pc = "open"
  /\ IF file = Absent \/ ~InBounds(ask)
     THEN pc' = "failed" /\ UNCHANGED <<pos, left>>
     ELSE pc' = "stream" /\ pos' = ask.start /\ left' = ask.length
  /\ UNCHANGED <<old, writer, ask, wire, ended, body, late>>

\* Mutant: the loop waits for the file to grow.
EndOfFileRetry(n) == IF n = 0 THEN "ok" ELSE Nil

\* How the loop ends when Read gives nothing: EOF with bytes remaining.
EndOfFile(n) == IF n = 0 THEN "ok" ELSE "error"

\* Mutant: every read is from the start of the range.
AdvanceNot(n) == pos

\* The file offset after a read of n bytes.
Advance(n) == pos + n

\* One iteration of the loop of ReadShard, or its end.
ReadBlock ==
  /\ pc = "stream" /\ ended = Nil
  /\ LET n == Smaller(Smaller(blockSize, left), IF pos < Len(file) THEN Len(file) - pos ELSE 0)
     IN  IF n = 0
         THEN ended' = EndOfFile(left) /\ UNCHANGED <<pos, left, wire>>
         ELSE /\ wire' = Append(wire, SubSeq(file, pos + 1, pos + n))
              /\ pos' = Advance(n) /\ left' = left - n
              /\ UNCHANGED ended
  /\ UNCHANGED <<old, writer, pc, ask, body, late>>

\* The connection breaks, or the caller gives up: the rest of the stream is
\* lost.
Break ==
  /\ pc = "stream" /\ ended # "error"
  /\ ended' = "error" /\ wire' = <<>>
  /\ UNCHANGED <<old, writer, pc, ask, pos, left, body, late>>

\* stream.Recv gives a block: what fits is copied.
Recv ==
  /\ pc = "stream" /\ wire # <<>>
  /\ body' = body \o SubSeq(Head(wire), 1, Smaller(Len(Head(wire)), ask.length - Len(body)))
  /\ wire' = Tail(wire)
  /\ UNCHANGED <<old, writer, pc, ask, pos, left, ended, late>>

\* len(body) == 0 where the stream ends.
Complete == Len(body) = ask.length

\* stream.Recv gives io.EOF or an error.
RecvEnd ==
  /\ pc = "stream" /\ wire = <<>> /\ ended # Nil
  /\ pc' = IF ended = "ok" /\ Complete THEN "done" ELSE "failed"
  /\ UNCHANGED <<old, writer, ask, pos, left, wire, ended, body, late>>

Next ==
  \/ OpenTrunc \/ WriteBlock \/ CloseWrite \/ WriteFails
  \/ \E r \in Ranges : StartLoad(r)
  \/ RefusedName \/ Size \/ OpenRead \/ ReadBlock \/ Break \/ Recv \/ RecvEnd

Serving == Size \/ OpenRead \/ ReadBlock \/ Recv \/ RecvEnd

\* The handlers and the stream go on; nobody has to write or to begin a load.
Spec ==
  /\ Init /\ [][Next]_vars
  /\ WF_vars(Serving)

-----------------------------------------------------------------------------
At(f, i) == IF i <= Length(f) THEN f[i] ELSE Nil

\* A load that succeeds has as many bytes as were asked for, each of them the
\* byte at its place in the file before or after the write: truncation under
\* way neither shortens a blob nor moves its bytes.
LoadInPlace ==
  pc = "done" =>
    /\ Len(body) = ask.length
    /\ \A i \in DOMAIN body : body[i] \in {At(old, ask.start + i), At(Sent, ask.start + i)} \ {Nil}

\* A load that begins after the write was answered and succeeds has the bytes
\* that were summed.
LoadIsSummed ==
  pc = "done" /\ late =>
    ask.start + ask.length <= Len(sum) /\ body = SubSeq(sum, ask.start + 1, ask.start + ask.length)

\* cacheLoader.Load gives the cache no wrong bytes: those of one place at two
\* times while the file is written again, those that were summed after it.
LoadExact == LoadInPlace /\ LoadIsSummed

\* A load ends, whatever happens to the file meanwhile.
LoadEnds == pc \notin {"idle"} ~> pc \in {"done", "failed"}
=============================================================================
