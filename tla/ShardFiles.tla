----------------------------- MODULE ShardFiles -----------------------------
(***************************************************************************)
(* What becomes of a shard: how it is written and queried (ShardFormat)    *)
(* and how its file is stored and loaded (ShardRead).  A behaviour is one  *)
(* of one of them, and program says of which.                              *)
(***************************************************************************)
CONSTANTS
  Base, NL, Bad, Contents, MaxLine, MaxFiles, MaxInlineRaw, Queries,          \* ShardFormat
  Bytes, Before, Sent, blockSize, maxBlockSize, MaxInt32, Ranges, Absent,     \* ShardRead
  Nil                                                                         \* both

VARIABLES
  program,               \* "format", "read" or another one
  seen, trigram, sparseTrigrams, denseTrigrams, lists, docs, raw, rawLength, shard,   \* ShardFormat
  old, file, wpc, wrote, sum, pc, ask, pos, left, wire, ended, body, late             \* ShardRead

Format == INSTANCE ShardFormat
Read == INSTANCE ShardRead

\* ShardFormat: posting lists, queries and ranges are exactly about the
\* documents.
ShardExact == program = "format" => Format!ShardExact

\* ShardRead: a load that succeeds has the right bytes.
LoadExact == program = "read" => Read!LoadExact
=============================================================================
