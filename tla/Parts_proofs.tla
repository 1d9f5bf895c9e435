---------------------------- MODULE Parts_proofs ----------------------------
(***************************************************************************)
(* The parts that stand alone: the sparse set, the load of a range from    *)
(* the storage service (ShardRead), the snippets of a match (Snippets) and *)
(* the flat shard format with its queries (ShardFormat).                   *)
(***************************************************************************)
EXTENDS SparseSet, ShardFiles, SnippetLines,
        TLAPS, SequenceTheorems, FiniteSetTheorems, WellFoundedInduction

-----------------------------------------------------------------------------
(***************************************************************************)
(* The sparse set answers membership and implements its abstract           *)
(* specification, for every capacity.                                      *)
(***************************************************************************)
\* The inductive invariant: the entry of every listed value points to it.
\* Nothing is said of the entries of values that are not listed.
Pointed == \A i \in 1..Len(dense) : sparse[dense[i]] = i - 1

SetInv == TypeOK /\ Pointed

\* Has(x) finds x exactly when it is listed: a listed value is pointed to,
\* and an entry that is believed was checked against dense.
LEMMA HasLemma ==
  ASSUME SetInv, NEW x \in Values
  PROVE  Has(x) <=> \E i \in 1..Len(dense) : dense[i] = x
<1>1. ASSUME Has(x) PROVE \E i \in 1..Len(dense) : dense[i] = x
  <2>1. sparse[x] \in Nat /\ Len(dense) \in Nat
    BY DEF SetInv, TypeOK
  <2>2. sparse[x] + 1 \in 1..Len(dense) /\ dense[sparse[x] + 1] = x
    BY <1>1, <2>1 DEF Has
  <2> QED BY <2>2
<1>2. ASSUME NEW i \in 1..Len(dense), dense[i] = x PROVE Has(x)
  <2>1. sparse[x] = i - 1
    BY <1>2 DEF SetInv, Pointed
  <2>2. Len(dense) \in Nat
    BY DEF SetInv, TypeOK
  <2>3. sparse[x] < Len(dense) /\ sparse[x] + 1 = i
    BY <2>1, <2>2
  <2> QED BY <2>3, <1>2 DEF Has
<1> QED BY <1>1, <1>2

LEMMA SetInvInit == Init => SetInv
<1> SUFFICES ASSUME Init PROVE SetInv
  OBVIOUS
<1>1. TypeOK BY MaxAssumption DEF Init, TypeOK, Values
<1>2. Pointed BY DEF Init, Pointed
<1> QED BY <1>1, <1>2 DEF SetInv

\* A value that is appended is given the position it is appended at; the
\* other entries are untouched, and none of the listed values is it.
LEMMA SetInvNext == SetInv /\ [Next]_vars => SetInv'
<1> SUFFICES ASSUME SetInv, [Next]_vars PROVE SetInv'
  OBVIOUS
<1> USE MaxAssumption
<1>1. CASE UNCHANGED vars
  BY <1>1 DEF vars, SetInv, TypeOK, Pointed, Values
<1>2. CASE Reset
  <2>1. TypeOK' BY <1>2 DEF Reset, SetInv, TypeOK, Values
  <2>2. Pointed' BY <1>2 DEF Reset, Pointed
  <2> QED BY <2>1, <2>2 DEF SetInv
<1>3. ASSUME NEW x \in Values, Add(x) PROVE SetInv'
  <2>1. CASE Has(x)
    BY <1>3, <2>1 DEF Add, vars, SetInv, TypeOK, Pointed, Values
  <2>2. CASE ~Has(x)
    <3>1. /\ dense' = Append(dense, x)
          /\ sparse' = [sparse EXCEPT ![x] = Len(dense)]
      BY <1>3, <2>2 DEF Add
    <3>2. dense \in Seq(Values) /\ Len(dense) \in Nat /\ sparse \in [Values -> Nat]
      BY DEF SetInv, TypeOK
    <3>3. TypeOK'
      BY <3>1, <3>2 DEF TypeOK
    <3>4. ASSUME NEW i \in 1..Len(dense') PROVE sparse'[dense'[i]] = i - 1
      <4>1. Len(dense') = Len(dense) + 1
        BY <3>1, <3>2
      <4>2. CASE i = Len(dense) + 1
        BY <4>2, <3>1, <3>2
      <4>3. CASE i # Len(dense) + 1
        <5>1. i \in 1..Len(dense) /\ dense'[i] = dense[i] /\ dense[i] \in Values
          BY <4>1, <4>3, <3>1, <3>2
        <5>2. dense[i] # x
          BY <5>1, <2>2, HasLemma
        <5>3. sparse[dense[i]] = i - 1
          BY <5>1 DEF SetInv, Pointed
        <5> QED BY <5>1, <5>2, <5>3, <3>1, <3>2
      <4> QED BY <4>2, <4>3
    <3>5. Pointed'
      BY <3>4 DEF Pointed
    <3> QED BY <3>3, <3>5 DEF SetInv
  <2> QED BY <2>1, <2>2
<1> QED BY <1>1, <1>2, <1>3 DEF Next

LEMMA SetInvAlways == Spec => []SetInv
BY SetInvInit, SetInvNext, PTL DEF Spec

\* Type correctness of the sparse set.
THEOREM SetTypeCorrect == Spec => []TypeOK
<1>1. SetInv => TypeOK BY DEF SetInv
<1> QED BY <1>1, SetInvAlways, PTL

\* Has answers membership although Reset leaves sparse as it is.
THEOREM HasCorrect == Spec => []HasIsMembership
<1>1. SetInv => HasIsMembership BY HasLemma DEF HasIsMembership
<1> QED BY <1>1, SetInvAlways, PTL

\* Add never lists a value twice.
THEOREM DenseCorrect == Spec => []DenseIsInjective
<1>1. SetInv => DenseIsInjective
  <2> SUFFICES ASSUME SetInv, NEW i \in 1..Len(dense), NEW j \in 1..Len(dense),
                      dense[i] = dense[j]
               PROVE  i = j
    BY DEF DenseIsInjective
  <2>1. sparse[dense[i]] = i - 1 /\ sparse[dense[j]] = j - 1
    BY DEF SetInv, Pointed
  <2>2. i - 1 = j - 1 BY <2>1
  <2> QED BY <2>2
<1> QED BY <1>1, SetInvAlways, PTL

\* The sparse set of the code is a set in insertion order: a step of Add
\* maps to the abstract Add because Has decides membership.
THEOREM SetRefines == Spec => ImplementsOrder
<1>1. Init => Abstract!Init
  BY DEF Init, Abstract!Init
<1>2. SetInv /\ [Next]_vars => [Abstract!Next]_dense
  <2> SUFFICES ASSUME SetInv, [Next]_vars PROVE [Abstract!Next]_dense
    OBVIOUS
  <2>1. CASE UNCHANGED vars
    BY <2>1 DEF vars
  <2>2. CASE Reset
    BY <2>2 DEF Reset, Abstract!Next, Abstract!Reset
  <2>3. ASSUME NEW x \in Values, Add(x) PROVE Abstract!Next
    <3>1. Has(x) <=> x \in Abstract!Members
      BY HasLemma DEF Abstract!Members
    <3>2. Abstract!Add(x)
      <4>1. CASE Has(x)
        BY <2>3, <3>1, <4>1 DEF Add, Abstract!Add, vars
      <4>2. CASE ~Has(x)
        BY <2>3, <3>1, <4>2 DEF Add, Abstract!Add
      <4> QED BY <4>1, <4>2
    <3> QED BY <3>2 DEF Abstract!Next, Values
  <2> QED BY <2>1, <2>2, <2>3 DEF Next
<1> QED BY <1>1, <1>2, SetInvAlways, PTL DEF Spec, ImplementsOrder, Abstract!Spec

-----------------------------------------------------------------------------
(***************************************************************************)
(* A load has the bytes of its places, of the file before or after the     *)
(* write, and of the file after it when it began after the write.          *)
(***************************************************************************)
\* The writer: the file is what it was, or what has been sent of the new one.
Copied ==
  /\ old \in Before /\ wrote \in 0..Len(Sent)
  /\ IF wpc = "idle" THEN file = old /\ wrote = 0 ELSE file = SubSeq(Sent, 1, wrote)
  /\ wpc = "done" => file = Sent /\ sum = Sent

\* A byte that may be at a place: of the file before or of the new one, and
\* of the new one where the load began after the write.
Fits(o, l, x, i) ==
  /\ x \in {Read!At(o, i), Read!At(Sent, i)} \ {Nil}
  /\ l => i <= Len(Sent) /\ x = Sent[i]
InPlace(o, l, s, from) ==
  s \in Seq(Bytes) /\ \A i \in 1..Len(s) : Fits(o, l, s[i], from + i)

\* The load: a stream is of a file that is there, and, where the load began
\* after the write, within the new one.
Asked ==
  /\ ask \in [start : Nat, length : Nat]
  /\ late \in BOOLEAN /\ (late => wpc = "done")
  /\ pc \in {"idle", "size", "open"} => body = <<>> /\ wire = <<>> /\ ended = Nil
  /\ pc = "stream" /\ wpc = "idle" => old # Absent
  /\ late /\ pc \in {"stream", "done"} => ask.start + ask.length <= Len(Sent)

\* The blocks under way follow what was copied, each at its place, up to
\* where the server reads; at[j] is how much of the range is before block j.
OnTheWire(at) ==
  /\ at[1] = Len(body) /\ at[Len(wire) + 1] = pos - ask.start
  /\ \A j \in 1..Len(wire) :
       at[j + 1] = at[j] + Len(wire[j]) /\ InPlace(old, late, wire[j], ask.start + at[j])

Streamed ==
  /\ left \in 0..ask.length /\ pos = ask.start + ask.length - left
  /\ wire \in Seq(Seq(Bytes)) /\ InPlace(old, late, body, ask.start)
  /\ \E at \in [1..Len(wire)+1 -> 0..ask.length] : OnTheWire(at)

\* The inductive invariant. After an error the blocks are of no use.
LoadInv ==
  /\ Copied /\ Asked
  /\ pc \in {"stream", "done"} /\ ended # "error" => Streamed
  /\ pc = "done" => ended # "error" /\ Len(body) = ask.length

-----------------------------------------------------------------------------
\* What is read of the file fits where it is read.
LEMMA FileFits ==
  ASSUME Read!ShardReadAssumption, Copied, Asked, wpc = "idle" => file # Absent
  PROVE  file \in Seq(Bytes) /\ \A i \in 1..Len(file) : Fits(old, late, file[i], i)
<1>1. Sent \in Seq(Bytes) /\ Sent # Absent /\ Nil \notin Bytes
  BY DEF Read!ShardReadAssumption
<1>2. CASE wpc = "idle"
  <2>1. file = old /\ old \in Seq(Bytes) /\ old # Absent /\ ~late
    BY <1>2 DEF Copied, Asked, Read!ShardReadAssumption
  <2>2. ASSUME NEW i \in 1..Len(file) PROVE Fits(old, late, file[i], i)
    <3>1. Read!At(old, i) = file[i] /\ file[i] \in Bytes
      BY <2>1 DEF Read!At, Read!Length
    <3> QED BY <1>1, <2>1, <3>1 DEF Fits
  <2> QED BY <2>1, <2>2
<1>3. CASE wpc # "idle"
  <2>1. file = SubSeq(Sent, 1, wrote) /\ wrote \in 0..Len(Sent) /\ Len(Sent) \in Nat
    BY <1>1, <1>3 DEF Copied
  <2>2. /\ file \in Seq(Bytes) /\ Len(file) = wrote
        /\ \A i \in 1..wrote : file[i] = Sent[i]
    BY <1>1, <2>1
  <2>3. ASSUME NEW i \in 1..Len(file) PROVE Fits(old, late, file[i], i)
    <3>1. i \in 1..Len(Sent) /\ file[i] = Sent[i] /\ Sent[i] \in Bytes
      BY <1>1, <2>1, <2>2
    <3>2. Read!At(Sent, i) = Sent[i]
      BY <1>1, <3>1 DEF Read!At, Read!Length
    <3> QED BY <1>1, <3>1, <3>2 DEF Fits
  <2> QED BY <2>2, <2>3
<1> QED BY <1>2, <1>3

\* A part of what fits fits where it is.
LEMMA PartFits ==
  ASSUME NEW o, NEW l, NEW s, NEW a \in Nat \ {0}, NEW b \in Nat, NEW t,
         InPlace(o, l, s, 0), a <= b + 1, b <= Len(s), t = SubSeq(s, a, b)
  PROVE  InPlace(o, l, t, a - 1) /\ Len(t) = b - a + 1
<1>1. s \in Seq(Bytes) /\ Len(s) \in Nat
  BY DEF InPlace
<1>2. \A i \in a..b : s[i] \in Bytes
  BY <1>1
<1>3. t \in Seq(Bytes) /\ Len(t) = b - a + 1 /\ \A i \in 1..b - a + 1 : t[i] = s[(a - 1) + i]
  BY <1>1, <1>2
<1>4. ASSUME NEW i \in 1..Len(t) PROVE Fits(o, l, t[i], (a - 1) + i)
  <2>1. (a - 1) + i \in 1..Len(s) /\ 0 + ((a - 1) + i) = (a - 1) + i
    BY <1>1, <1>3
  <2>2. Fits(o, l, s[(a - 1) + i], (a - 1) + i)
    BY <2>1 DEF InPlace
  <2> QED BY <1>3, <2>1, <2>2
<1> QED BY <1>3, <1>4 DEF InPlace

\* What fits next to each other fits together.
LEMMA TogetherFit ==
  ASSUME NEW o, NEW l, NEW s, NEW t, NEW from \in Nat,
         InPlace(o, l, s, from), InPlace(o, l, t, from + Len(s))
  PROVE  InPlace(o, l, s \o t, from) /\ Len(s \o t) = Len(s) + Len(t)
<1>1. s \in Seq(Bytes) /\ t \in Seq(Bytes) /\ Len(s) \in Nat /\ Len(t) \in Nat
  BY DEF InPlace
<1> DEFINE u == s \o t
<1>2. /\ u \in Seq(Bytes) /\ Len(u) = Len(s) + Len(t)
      /\ \A i \in 1..Len(s) + Len(t) : u[i] = IF i <= Len(s) THEN s[i] ELSE t[i - Len(s)]
  BY <1>1, ConcatProperties
<1> HIDE DEF u
<1>3. ASSUME NEW i \in 1..Len(u) PROVE Fits(o, l, u[i], from + i)
  <2>1. CASE i <= Len(s)
    <3>1. i \in 1..Len(s)
      BY <1>1, <1>2, <2>1
    <3> QED BY <1>2, <2>1, <3>1 DEF InPlace
  <2>2. CASE ~(i <= Len(s))
    <3>1. i - Len(s) \in 1..Len(t) /\ (from + Len(s)) + (i - Len(s)) = from + i
      BY <1>1, <1>2, <2>2
    <3>2. Fits(o, l, t[i - Len(s)], (from + Len(s)) + (i - Len(s)))
      BY <3>1 DEF InPlace
    <3> QED BY <1>2, <2>2, <3>1, <3>2
  <2> QED BY <2>1, <2>2
<1>4. InPlace(o, l, u, from)
  BY <1>2, <1>3 DEF InPlace
<1> QED BY <1>2, <1>4 DEF u

-----------------------------------------------------------------------------
\* Before the writer and the load have begun.
LEMMA LoadInit ==
  ASSUME Read!ShardReadAssumption, Read!Init
  PROVE  LoadInv
<1>1. Len(Sent) \in Nat
  BY DEF Read!ShardReadAssumption
<1>2. Copied
  BY <1>1 DEF Read!Init, Copied
<1>3. Asked
  BY DEF Read!Init, Asked
<1> QED BY <1>2, <1>3 DEF Read!Init, LoadInv

\* What the writer does the reader does not see until it reads.
LEMMA ReaderKept ==
  ASSUME LoadInv, UNCHANGED <<old, Read!reader>>, Copied',
         late => wpc' = "done", wpc' = "idle" => wpc = "idle"
  PROVE  LoadInv'
<1>1. UNCHANGED <<old, pc, ask, pos, left, wire, ended, body, late>>
  BY DEF Read!reader
<1>2. Asked'
  BY <1>1 DEF LoadInv, Asked
<1>3. Streamed => Streamed'
  BY <1>1 DEF Streamed, OnTheWire
<1> QED BY <1>1, <1>2, <1>3 DEF LoadInv

\* The file is the part of Sent that has been written.
LEMMA WriterSteps ==
  ASSUME Read!ShardReadAssumption, LoadInv,
         Read!OpenTrunc \/ Read!WriteBlock \/ Read!CloseWrite \/ Read!WriteFails
  PROVE  LoadInv'
<1>1. Sent \in Seq(Bytes) /\ Len(Sent) \in Nat /\ maxBlockSize \in Nat \ {0}
  BY DEF Read!ShardReadAssumption
<1>2. Copied /\ Asked /\ wrote \in 0..Len(Sent)
  BY DEF LoadInv, Copied
<1>3. CASE Read!OpenTrunc
  <2>1. SubSeq(Sent, 1, 0) = <<>>
    BY <1>1, SubSeqEmpty
  <2>2. Copied'
    BY <1>1, <1>2, <1>3, <2>1 DEF Read!OpenTrunc, Copied
  <2> QED BY <1>2, <1>3, <2>2, ReaderKept DEF Read!OpenTrunc, Asked
<1>4. CASE Read!WriteBlock
  <2> DEFINE n == Read!Smaller(maxBlockSize, Len(Sent) - wrote)
  <2>1. n \in Nat /\ wrote + n \in 0..Len(Sent)
    BY <1>1, <1>2, <1>4 DEF Read!WriteBlock, Read!Smaller
  <2>2. /\ file' = SubSeq(file, 1, wrote) \o SubSeq(Sent, wrote + 1, wrote + n)
                     \o SubSeq(file, wrote + n + 1, Len(file))
        /\ wrote' = wrote + n
    BY <1>4 DEF Read!WriteBlock
  <2> HIDE DEF n
  <2>3. file = SubSeq(Sent, 1, wrote)
    BY <1>2, <1>4 DEF Copied, Read!WriteBlock
  <2>4. file \in Seq(Bytes) /\ Len(file) = wrote
    BY <1>1, <1>2, <2>3
  <2>5. SubSeq(file, 1, wrote) = file
    BY <2>4, SubSeqFull
  <2>6. SubSeq(file, wrote + n + 1, Len(file)) = <<>>
    BY <1>2, <2>1, <2>4, SubSeqEmpty
  <2>7. file' = SubSeq(Sent, 1, wrote + n)
    <3>1. file \o SubSeq(Sent, wrote + 1, wrote + n) = SubSeq(Sent, 1, wrote + n)
      BY <1>1, <1>2, <2>1, <2>3
    <3>2. SubSeq(Sent, 1, wrote + n) \in Seq(Bytes)
      BY <1>1, <2>1
    <3> QED BY <2>2, <2>5, <2>6, <3>1, <3>2, ConcatEmptySeq
  <2>8. Copied'
    BY <1>2, <1>4, <2>1, <2>2, <2>7 DEF Read!WriteBlock, Copied
  <2> QED BY <1>2, <1>4, <2>8, ReaderKept DEF Read!WriteBlock, Asked
<1>5. CASE Read!CloseWrite
  <2>1. SubSeq(Sent, 1, Len(Sent)) = Sent
    BY <1>1, SubSeqFull
  <2>2. Copied'
    BY <1>2, <1>5, <2>1 DEF Read!CloseWrite, Copied
  <2> QED BY <1>2, <1>5, <2>2, ReaderKept DEF Read!CloseWrite, Asked
<1>6. CASE Read!WriteFails
  <2>1. Copied'
    BY <1>2, <1>6 DEF Read!WriteFails, Copied
  <2> QED BY <1>2, <1>6, <2>1, ReaderKept DEF Read!WriteFails, Asked
<1> QED BY <1>3, <1>4, <1>5, <1>6

\* Before the stream, and where a load fails, nothing has been copied.
LEMMA LoadStarts ==
  ASSUME Read!ShardReadAssumption, LoadInv,
         (\E r \in Ranges : Read!StartLoad(r)) \/ Read!RefusedName \/ Read!Size
  PROVE  LoadInv'
<1>1. Ranges \subseteq [start : Nat, length : Nat]
  BY DEF Read!ShardReadAssumption
<1>2. Copied /\ Asked
  BY DEF LoadInv
<1>3. ASSUME NEW r \in Ranges, Read!StartLoad(r) PROVE LoadInv'
  <2>1. Copied' /\ pc' \in {"size", "open"}
    BY <1>2, <1>3 DEF Read!StartLoad, Read!writer, Copied
  <2>2. Asked'
    BY <1>1, <1>2, <1>3, <2>1 DEF Read!StartLoad, Read!writer, Asked
  <2> QED BY <2>1, <2>2 DEF LoadInv
<1>4. CASE Read!RefusedName
  <2>1. Copied' /\ Asked'
    BY <1>2, <1>4 DEF Read!RefusedName, Read!writer, Copied, Asked
  <2> QED BY <1>4, <2>1 DEF LoadInv, Read!RefusedName
<1>5. CASE Read!Size
  <2>1. Copied' /\ pc' \in {"open", "failed"}
    BY <1>2, <1>5 DEF Read!Size, Read!writer, Copied
  <2>2. CASE pc' = "failed"
    <3>1. Asked'
      BY <1>2, <1>5, <2>2 DEF Read!Size, Read!writer, Asked
    <3> QED BY <2>1, <2>2, <3>1 DEF LoadInv
  <2>3. CASE pc' = "open"
    <3>1. file # Absent
      BY <1>5, <2>3 DEF Read!Size
    <3>2. Len(file) \in Nat
      BY <1>2, <3>1, FileFits
    <3>3. Asked'
      BY <1>2, <1>5, <2>3, <3>2 DEF Read!Size, Read!writer, Asked
    <3> QED BY <2>1, <2>3, <3>3 DEF LoadInv
  <2> QED BY <2>1, <2>2, <2>3
<1> QED BY <1>3, <1>4, <1>5

\* A stream begins with nothing of the range read; a load after the write
\* finds the new file, and the check of the bounds is about that one.
LEMMA StreamOpens ==
  ASSUME Read!ShardReadAssumption, LoadInv, Read!OpenRead
  PROVE  LoadInv'
<1>1. Copied /\ Asked /\ ask.start \in Nat /\ ask.length \in Nat
  BY DEF LoadInv, Asked
<1>2. Copied' /\ pc' \in {"stream", "failed"} /\ body = <<>> /\ wire = <<>>
  BY <1>1 DEF Read!OpenRead, Read!writer, Copied, Asked
<1>3. Asked'
  <2>1. CASE pc' = "failed"
    BY <1>1, <1>2, <2>1 DEF Read!OpenRead, Read!writer, Asked
  <2>2. CASE pc' = "stream"
    <3>1. file # Absent /\ ask.start + ask.length <= Len(file)
      BY <2>2 DEF Read!OpenRead, Read!InBounds
    <3>2. late => file = Sent
      BY <1>1 DEF Copied, Asked
    <3>3. wpc = "idle" => old # Absent
      BY <1>1, <3>1 DEF Copied
    <3> QED BY <1>1, <1>2, <2>2, <3>1, <3>2, <3>3 DEF Read!OpenRead, Read!writer, Asked
  <2> QED BY <1>2, <2>1, <2>2
<1>4. ASSUME pc' = "stream" PROVE Streamed'
  <2>1. /\ pos' = ask.start /\ left' = ask.length
        /\ UNCHANGED <<old, late, ask, body, wire>>
    BY <1>4 DEF Read!OpenRead
  <2>2. InPlace(old, late, body, ask.start)
    BY <1>2 DEF InPlace
  <2> DEFINE at == [j \in 1..1 |-> 0]
  <2>3. at \in [1..Len(wire) + 1 -> 0..ask.length]
    BY <1>1, <1>2
  <2>4. OnTheWire(at)'
    BY <1>1, <1>2, <2>1 DEF OnTheWire
  <2> QED BY <1>1, <1>2, <2>1, <2>2, <2>3, <2>4 DEF Streamed
<1> QED BY <1>2, <1>3, <1>4 DEF LoadInv

\* A block is sent: it is at its place, and what is left gets shorter by it.
LEMMA BlockSent ==
  ASSUME Read!ShardReadAssumption, LoadInv, Read!ReadBlock
  PROVE  LoadInv'
<1>1. Copied /\ Asked /\ Streamed /\ pc = "stream" /\ pc' = pc
  BY DEF LoadInv, Read!ReadBlock, Read!ShardReadAssumption
<1>2. Copied' /\ Asked'
  BY <1>1 DEF Read!ReadBlock, Read!writer, Copied, Asked
<1>3. UNCHANGED <<old, late, ask, body>>
  BY DEF Read!ReadBlock
<1> PICK n : n = Read!Smaller(Read!Smaller(blockSize, left),
                              IF pos < Len(file) THEN Len(file) - pos ELSE 0)
  OBVIOUS
<1>4. CASE n = 0
  <2>1. Streamed'
    BY <1>1, <1>3, <1>4 DEF Read!ReadBlock, Streamed, OnTheWire
  <2> QED BY <1>1, <1>2, <2>1 DEF LoadInv
<1>5. CASE n # 0
  <2>1. /\ wire' = Append(wire, SubSeq(file, pos + 1, pos + n))
        /\ pos' = pos + n /\ left' = left - n
    BY <1>5 DEF Read!ReadBlock, Read!Advance
  <2>2. wpc = "idle" => file # Absent
    BY <1>1 DEF Copied, Asked
  <2>3. file \in Seq(Bytes) /\ InPlace(old, late, file, 0) /\ Len(file) \in Nat
    <3>1. \A i \in 1..Len(file) : 0 + i = i
      OBVIOUS
    <3> QED BY <1>1, <2>2, <3>1, FileFits DEF InPlace
  <2> PICK start \in Nat, length \in Nat : ask.start = start /\ ask.length = length
    BY <1>1 DEF Asked
  <2>4. /\ left \in Nat /\ left <= length /\ pos = start + (length - left) /\ pos \in Nat
        /\ wire \in Seq(Seq(Bytes)) /\ Len(wire) \in Nat
    <3>1. left \in 0..length /\ pos = start + length - left /\ wire \in Seq(Seq(Bytes))
      BY <1>1 DEF Streamed
    <3> QED BY <3>1
  <2>5. n \in Nat /\ n <= left /\ pos + n <= Len(file)
    <3>1. blockSize \in Nat
      BY DEF Read!ShardReadAssumption
    <3>2. pos < Len(file)
      BY <1>5, <2>3, <2>4, <3>1 DEF Read!Smaller
    <3> PICK f \in Nat, b \in Nat : f = Len(file) /\ b = blockSize
      BY <2>3, <3>1
    <3>3. n = Read!Smaller(Read!Smaller(b, left), f - pos)
      BY <3>2
    <3>4. n \in Nat /\ n <= left /\ n <= f - pos
      BY <2>4, <3>2, <3>3 DEF Read!Smaller
    <3> QED BY <2>4, <3>4
  <2> DEFINE block == SubSeq(file, pos + 1, pos + n)
  <2>6. InPlace(old, late, block, pos) /\ Len(block) = n
    <3> DEFINE a == pos + 1
               b == pos + n
    <3>1. a \in Nat \ {0} /\ b \in Nat /\ a <= b + 1 /\ b <= Len(file)
      BY <2>3, <2>4, <2>5
    <3>2. a - 1 = pos /\ b - a + 1 = n
      BY <2>4, <2>5
    <3>3. block = SubSeq(file, a, b)
      OBVIOUS
    <3> HIDE DEF a, b, block
    <3>4. InPlace(old, late, block, a - 1) /\ Len(block) = b - a + 1
      BY <2>3, <3>1, <3>3, PartFits, Zenon
    <3> QED BY <3>2, <3>4
  <2>7. block \in Seq(Bytes)
    BY <2>6 DEF InPlace
  <2>8. PICK at \in [1..Len(wire) + 1 -> 0..length] : OnTheWire(at)
    BY <1>1 DEF Streamed
  <2>9. /\ wire' = Append(wire, block) /\ wire' \in Seq(Seq(Bytes)) /\ Len(wire') = Len(wire) + 1
        /\ wire'[Len(wire) + 1] = block /\ \A j \in 1..Len(wire) : wire'[j] = wire[j]
    <3> HIDE DEF block
    <3>1. wire' = Append(wire, block)
      BY <2>1 DEF block
    <3> QED BY <2>4, <2>7, <3>1
  <2> HIDE DEF block
  <2> PICK to : to = [j \in 1..Len(wire) + 2 |->
                        IF j <= Len(wire) + 1 THEN at[j] ELSE (pos - start) + n]
    OBVIOUS
  <2>10. at[1] = Len(body) /\ at[Len(wire) + 1] = pos - start
    BY <2>8 DEF OnTheWire
  <2>11. (pos - start) + n \in 0..length
    BY <2>4, <2>5
  <2>12. to \in [1..Len(wire') + 1 -> 0..length]
    BY <2>4, <2>8, <2>9, <2>11
  <2>13. to[1] = Len(body') /\ to[Len(wire') + 1] = pos' - ask'.start
    <3>1. /\ 1 \in 1..Len(wire) + 2 /\ Len(wire) + 2 \in 1..Len(wire) + 2
          /\ ~(Len(wire) + 2 <= Len(wire) + 1)
      BY <2>4
    <3>2. to[1] = at[1] /\ to[Len(wire) + 2] = (pos - start) + n
      BY <2>4, <3>1
    <3>3. (pos - start) + n = (pos + n) - start
      BY <2>4, <2>5
    <3>4. body' = body /\ pos' = pos + n /\ ask'.start = start
      BY <1>3, <2>1
    <3>5. Len(wire') + 1 = Len(wire) + 2
      BY <2>4, <2>9
    <3> QED BY <2>10, <3>2, <3>3, <3>4, <3>5
  <2>14. ASSUME NEW j \in 1..Len(wire')
         PROVE  /\ to[j + 1] = to[j] + Len(wire'[j])
                /\ InPlace(old', late', wire'[j], ask'.start + to[j])
    <3>1. CASE j <= Len(wire)
      <4>1. j \in 1..Len(wire) /\ j \in 1..Len(wire) + 2 /\ j + 1 \in 1..Len(wire) + 2
            /\ j <= Len(wire) + 1 /\ j + 1 <= Len(wire) + 1
        <5>1. j \in Nat /\ 1 <= j /\ j <= Len(wire) /\ Len(wire) \in Nat
          BY <2>4, <2>9, <3>1
        <5> QED BY <5>1
      <4>2. to[j] = at[j] /\ to[j + 1] = at[j + 1] /\ wire'[j] = wire[j]
        BY <2>9, <4>1
      <4> QED BY <1>3, <2>8, <4>1, <4>2 DEF OnTheWire
    <3>2. CASE ~(j <= Len(wire))
      <4>1. /\ j = Len(wire) + 1 /\ j \in 1..Len(wire) + 2 /\ j + 1 \in 1..Len(wire) + 2
            /\ j <= Len(wire) + 1 /\ ~(j + 1 <= Len(wire) + 1)
        BY <2>4, <2>9, <3>2
      <4>2. to[j] = pos - start /\ to[j + 1] = (pos - start) + n
        BY <2>10, <4>1
      <4>3. start + (pos - start) = pos
        BY <2>4
      <4> QED BY <1>3, <2>6, <2>9, <4>1, <4>2, <4>3
    <3> QED BY <3>1, <3>2
  <2>15. OnTheWire(to)'
    BY <2>13, <2>14 DEF OnTheWire
  <2>16. left' \in 0..length /\ pos' = start + length - left'
    <3>1. \A L \in Nat : n \in Nat /\ n <= L /\ L <= length => L - n \in 0..length
      OBVIOUS
    <3>2. left' \in 0..length
      BY <2>1, <2>4, <2>5, <3>1
    <3>3. ASSUME NEW L \in Nat, NEW p \in Nat, n \in Nat, p = start + (length - L)
          PROVE  p + n = start + length - (L - n)
      BY <3>3
    <3>4. pos' = start + length - left'
      <4>1. pos' = pos + n /\ left' = left - n /\ n \in Nat /\ left \in Nat /\ pos \in Nat
        BY <2>1, <2>4, <2>5
      <4>2. pos + n = start + length - (left - n)
        BY <2>4, <4>1, <3>3
      <4> QED BY <4>1, <4>2
    <3> QED BY <3>2, <3>4
  <2>17. InPlace(old', late', body', ask'.start)
    BY <1>1, <1>3 DEF Streamed
  <2>18. Streamed'
    BY <1>3, <2>9, <2>12, <2>15, <2>16, <2>17 DEF Streamed
  <2> QED BY <1>1, <1>2, <2>18 DEF LoadInv
<1> QED BY <1>4, <1>5

\* A block is copied: it is the next one, and there is room for all of it.
LEMMA BlockCopied ==
  ASSUME Read!ShardReadAssumption, LoadInv, Read!Recv
  PROVE  LoadInv'
<1>1. /\ Copied /\ Asked /\ pc = "stream" /\ pc' = pc /\ wire # <<>>
      /\ ask.start \in Nat /\ ask.length \in Nat
  BY DEF LoadInv, Read!Recv, Asked
<1>2. Copied' /\ Asked'
  BY <1>1 DEF Read!Recv, Read!writer, Copied, Asked
<1>3. UNCHANGED <<old, late, ask, pos, left, ended>>
  BY DEF Read!Recv
<1>4. ASSUME ended # "error" PROVE Streamed'
  <2>1. Streamed /\ wire \in Seq(Seq(Bytes))
    BY <1>1, <1>4 DEF LoadInv, Streamed
  <2>2. PICK at \in [1..Len(wire) + 1 -> 0..ask.length] : OnTheWire(at)
    BY <2>1 DEF Streamed
  <2> DEFINE block == wire[1]
  <2>3. /\ Head(wire) = block /\ Len(wire) \in Nat \ {0} /\ Tail(wire) \in Seq(Seq(Bytes))
        /\ Len(Tail(wire)) = Len(wire) - 1
        /\ \A j \in 1..Len(wire) - 1 : Tail(wire)[j] = wire[j + 1]
    BY <1>1, <2>1
  <2>4. /\ at[1] = Len(body) /\ at[2] = at[1] + Len(block)
        /\ InPlace(old, late, block, ask.start + Len(body))
    <3>1. 1 \in 1..Len(wire) /\ 1 + 1 = 2
      BY <2>3
    <3>2. at[1] = Len(body)
      BY <2>2 DEF OnTheWire
    <3>3. at[1 + 1] = at[1] + Len(wire[1]) /\ InPlace(old, late, wire[1], ask.start + at[1])
      BY <2>2, <3>1 DEF OnTheWire
    <3> QED BY <3>1, <3>2, <3>3
  <2>5. block \in Seq(Bytes) /\ Len(block) \in Nat /\ body \in Seq(Bytes) /\ Len(body) \in Nat
    BY <2>1, <2>4 DEF InPlace, Streamed
  <2>6. at[2] <= ask.length
    BY <2>2, <2>3
  <2> HIDE DEF block
  <2>7. Read!Smaller(Len(block), ask.length - Len(body)) = Len(block)
    BY <1>1, <2>4, <2>5, <2>6 DEF Read!Smaller
  <2>8. body' = body \o block /\ wire' = Tail(wire)
    BY <2>3, <2>5, <2>7, SubSeqFull DEF Read!Recv
  <2>9. InPlace(old, late, body', ask.start) /\ Len(body') = at[2]
    <3>1. InPlace(old, late, body, ask.start)
      BY <2>1 DEF Streamed
    <3>2. /\ InPlace(old, late, body \o block, ask.start)
          /\ Len(body \o block) = Len(body) + Len(block)
      BY <1>1, <2>4, <3>1, TogetherFit
    <3> QED BY <2>4, <2>8, <3>2
  <2> PICK to : to = [j \in 1..Len(wire) |-> at[j + 1]]
    OBVIOUS
  <2>10. to \in [1..Len(wire') + 1 -> 0..ask.length]
    BY <2>2, <2>3, <2>8
  <2>11. to[1] = Len(body') /\ to[Len(wire') + 1] = pos' - ask'.start
    BY <1>3, <2>2, <2>3, <2>8, <2>9 DEF OnTheWire
  <2>12. ASSUME NEW j \in 1..Len(wire')
         PROVE  /\ to[j + 1] = to[j] + Len(wire'[j])
                /\ InPlace(old', late', wire'[j], ask'.start + to[j])
    <3>1. /\ j + 1 \in 1..Len(wire) /\ wire'[j] = wire[j + 1]
          /\ to[j] = at[j + 1] /\ to[j + 1] = at[(j + 1) + 1]
      BY <2>3, <2>8
    <3> QED BY <1>3, <2>2, <3>1 DEF OnTheWire
  <2>13. OnTheWire(to)'
    BY <2>11, <2>12 DEF OnTheWire
  <2> QED BY <1>3, <2>1, <2>3, <2>8, <2>9, <2>10, <2>13 DEF Streamed
<1> QED BY <1>1, <1>2, <1>3, <1>4 DEF LoadInv

\* The stream breaks or comes to its end: only a whole body is a success.
LEMMA StreamEnds ==
  ASSUME Read!ShardReadAssumption, LoadInv, Read!Break \/ Read!RecvEnd
  PROVE  LoadInv'
<1>1. Copied /\ Asked
  BY DEF LoadInv
<1>2. CASE Read!Break
  <2>1. Copied' /\ Asked' /\ ended' = "error" /\ pc' = "stream"
    BY <1>1, <1>2 DEF Read!Break, Read!writer, Copied, Asked
  <2> QED BY <2>1 DEF LoadInv
<1>3. CASE Read!RecvEnd
  <2>1. Copied' /\ Asked'
    BY <1>1, <1>3 DEF Read!RecvEnd, Read!writer, Copied, Asked
  <2>2. Streamed => Streamed'
    BY <1>3 DEF Read!RecvEnd, Streamed, OnTheWire
  <2> QED BY <1>3, <2>1, <2>2 DEF LoadInv, Read!RecvEnd, Read!Complete
<1> QED BY <1>2, <1>3

\* Every step keeps the invariant.
LEMMA LoadNext ==
  ASSUME Read!ShardReadAssumption, LoadInv, [Read!Next]_(Read!vars)
  PROVE  LoadInv'
<1>1. CASE UNCHANGED Read!vars
  <2>1. UNCHANGED <<file, wpc, wrote, sum, old, Read!reader>>
    BY <1>1 DEF Read!vars, Read!reader
  <2>2. Copied'
    BY <2>1 DEF LoadInv, Copied
  <2> QED BY <2>1, <2>2, ReaderKept DEF LoadInv, Asked
<1> QED BY <1>1, WriterSteps, LoadStarts, StreamOpens, BlockSent, BlockCopied, StreamEnds
        DEF Read!Next

\* A body that is complete is of the places asked for.
LEMMA LoadIsExact ==
  ASSUME Read!ShardReadAssumption, LoadInv
  PROVE  Read!LoadExact
<1> SUFFICES ASSUME pc = "done" PROVE Read!LoadExact
  BY DEF Read!LoadExact, Read!LoadInPlace, Read!LoadIsSummed
<1>1. /\ Copied /\ Asked /\ Len(body) = ask.length /\ InPlace(old, late, body, ask.start)
      /\ ask.start \in Nat /\ ask.length \in Nat /\ Sent \in Seq(Bytes)
  BY DEF LoadInv, Asked, Streamed, Read!ShardReadAssumption
<1>2. body \in Seq(Bytes) /\ DOMAIN body = 1..Len(body)
  BY <1>1 DEF InPlace
<1>3. Read!LoadInPlace
  BY <1>1, <1>2 DEF Read!LoadInPlace, InPlace, Fits
<1>4. ASSUME late
      PROVE  /\ ask.start + ask.length <= Len(sum)
             /\ body = SubSeq(sum, ask.start + 1, ask.start + ask.length)
  <2>1. sum = Sent /\ ask.start + ask.length <= Len(Sent) /\ Len(Sent) \in Nat
    BY <1>1, <1>4 DEF Copied, Asked
  <2>2. \A i \in 1..Len(body) : body[i] = Sent[ask.start + i]
    BY <1>1, <1>4 DEF InPlace, Fits
  <2> DEFINE part == SubSeq(Sent, ask.start + 1, ask.start + ask.length)
  <2>3. /\ part \in Seq(Bytes) /\ Len(part) = ask.length
        /\ \A i \in 1..ask.length : part[i] = Sent[ask.start + i]
    <3> PICK s \in Nat, l \in Nat : s = ask.start /\ l = ask.length
      BY <1>1
    <3>1. \A i \in s + 1 .. s + l : Sent[i] \in Bytes
      BY <1>1, <2>1
    <3> DEFINE q == SubSeq(Sent, s + 1, s + l)
    <3>2. /\ q \in Seq(Bytes) /\ Len(q) = IF s + 1 <= s + l THEN (s + l) - (s + 1) + 1 ELSE 0
          /\ \A i \in 1..(s + l) - (s + 1) + 1 : q[i] = Sent[(s + 1) + i - 1]
      BY <3>1, SubSeqProperties
    <3> HIDE DEF q
    <3>3. (s + l) - (s + 1) + 1 = l /\ Len(q) = l
      BY <3>2
    <3>4. ASSUME NEW i \in 1..l PROVE q[i] = Sent[s + i]
      <4>1. q[i] = Sent[(s + 1) + i - 1]
        BY <3>2, <3>3
      <4>2. (s + 1) + i - 1 = s + i
        OBVIOUS
      <4> QED BY <4>1, <4>2
    <3> QED BY <3>2, <3>3, <3>4 DEF q
  <2> HIDE DEF part
  <2>4. body = part
    <3>1. Len(body) = Len(part) /\ \A i \in 1..Len(body) : body[i] = part[i]
      BY <1>1, <2>2, <2>3
    <3> QED BY <1>2, <2>3, <3>1, SeqEqual
  <2> QED BY <2>1, <2>4 DEF part
<1> QED BY <1>3, <1>4 DEF Read!LoadExact, Read!LoadIsSummed

\* cacheLoader.Load gives the cache no wrong bytes, whoever writes the file
\* meanwhile, for files, blocks and ranges of every length.
THEOREM LoadsAreExact ==
  ASSUME Read!ShardReadAssumption
  PROVE  Read!Spec => [](Read!LoadExact /\ LoadExact)
<1>1. Read!Init => LoadInv
  BY LoadInit
<1>2. LoadInv /\ [Read!Next]_(Read!vars) => LoadInv'
  BY LoadNext
<1>3. LoadInv => Read!LoadExact /\ LoadExact
  BY LoadIsExact DEF LoadExact
<1> QED BY <1>1, <1>2, <1>3, PTL DEF Read!Spec

-----------------------------------------------------------------------------
(***************************************************************************)
(* A snippet has the lines of its match and their number.                  *)
(***************************************************************************)
\* The Cardinality that Snippets counts with is the one of the library.
LEMMA SameCardinality == \A S : Lines!Cardinality(S) = Cardinality(S)
BY DEF Lines!Cardinality, Cardinality

\* Offsets that are not empty have a first one, and below a bound a last one.
LEMMA FirstExists ==
  ASSUME NEW S \in SUBSET Nat, S # {}
  PROVE  Lines!Min(S) \in S /\ \A y \in S : Lines!Min(S) <= y
<1> DEFINE R == OpToRel(<, Nat)
<1>1. \E x \in S : \A y \in S : ~(<<y, x>> \in R)
  BY NatLessThanWellFounded, WFMin
<1>2. PICK x \in S : \A y \in S : ~(y < x)
  BY <1>1 DEF OpToRel
<1>3. \A y \in S : x <= y
  BY <1>2
<1> QED BY <1>3 DEF Lines!Min

\* The last one is the least in the distance to the bound.
LEMMA LastExists ==
  ASSUME NEW S \in SUBSET Nat, S # {}, NEW n \in Nat, \A y \in S : y <= n
  PROVE  Lines!Max(S) \in S /\ \A y \in S : Lines!Max(S) >= y
<1> DEFINE R == OpToRel(<, Nat)
           D == {d \in Nat : \E x \in S : d = n - x}
<1>1. D \subseteq Nat /\ D # {}
  <2>1. PICK x \in S : TRUE
    OBVIOUS
  <2>2. n - x \in Nat
    OBVIOUS
  <2> QED BY <2>1, <2>2
<1>2. \E d \in D : \A k \in D : ~(<<k, d>> \in R)
  <2> HIDE DEF D
  <2> QED BY <1>1, NatLessThanWellFounded, WFMin
<1>3. PICK d \in D : \A k \in D : ~(k < d)
  BY <1>1, <1>2 DEF OpToRel
<1>4. PICK x \in S : d = n - x
  OBVIOUS
<1>5. \A y \in S : x >= y
  BY <1>3, <1>4
<1> QED BY <1>5 DEF Lines!Max

-----------------------------------------------------------------------------
\* The newlines of a part are finitely many offsets of it.
LEMMA NewlinesFinite ==
  ASSUME NEW t, NEW a \in Nat, NEW b \in Nat
  PROVE  /\ Lines!Newlines(t, a, b) \in SUBSET Nat
         /\ IsFiniteSet(Lines!Newlines(t, a, b)) /\ Cardinality(Lines!Newlines(t, a, b)) \in Nat
<1>1. Lines!Newlines(t, a, b) \subseteq a..b-1 /\ a..b-1 \subseteq Nat
  BY DEF Lines!Newlines
<1>2. IsFiniteSet(a..b-1)
  BY FS_Interval
<1>3. IsFiniteSet(Lines!Newlines(t, a, b))
  BY <1>1, <1>2, FS_Subset
<1> QED BY <1>1, <1>3, FS_CardinalityType

\* They are counted part by part.
LEMMA NewlinesAdd ==
  ASSUME NEW t, NEW a \in Nat, NEW b \in Nat, NEW c \in Nat, a <= b, b <= c
  PROVE  Cardinality(Lines!Newlines(t, a, c))
           = Cardinality(Lines!Newlines(t, a, b)) + Cardinality(Lines!Newlines(t, b, c))
<1> DEFINE L == Lines!Newlines(t, a, b)
           R == Lines!Newlines(t, b, c)
<1>1. Lines!Newlines(t, a, c) = L \cup R /\ L \cap R = {}
  BY DEF Lines!Newlines
<1>2. IsFiniteSet(L) /\ IsFiniteSet(R) /\ Cardinality(L) \in Nat /\ Cardinality(R) \in Nat
  BY NewlinesFinite
<1>3. Cardinality(L \cup R) = Cardinality(L) + Cardinality(R) - Cardinality(L \cap R)
  BY <1>2, FS_Union
<1>4. Cardinality(L \cap R) = 0
  BY <1>1, FS_EmptySet
<1> HIDE DEF L, R
<1>5. Cardinality(L \cup R) = Cardinality(L) + Cardinality(R)
  BY <1>2, <1>3, <1>4
<1> QED BY <1>1, <1>5 DEF L, R

\* The start of the block that an offset is in.
LEMMA BlockBounds ==
  ASSUME NEW B \in Nat \ {0}, NEW x \in Nat, NEW y \in Nat, x <= y
  PROVE  /\ x \div B \in Nat /\ (x \div B) * B <= x /\ x \div B <= y \div B
         /\ (x \div B # 0 => (x \div B) * B \in Nat \ {0})
         /\ (x \div B = 0 => (x \div B) * B = 0)
<1>1. x \div B \in Nat
  OBVIOUS
<1>2. (x \div B) * B <= x
  OBVIOUS
<1>3. x \div B <= y \div B
  OBVIOUS
<1>4. \A q \in Nat : (q # 0 => q * B \in Nat \ {0}) /\ (q = 0 => q * B = 0)
  OBVIOUS
<1> QED BY <1>1, <1>2, <1>3, <1>4

\* What a snippet shows.
Shown(t, s, p) ==
  /\ s.start = 0 \/ t[s.start] = "nl"
  /\ s.end = Len(t) \/ t[s.end] = "nl"
  /\ Lines!Newlines(t, s.start, p[1]) = {}
  /\ <<s.start + s.match[1], s.start + s.match[2]>> = p
  /\ p[2] <= s.end
Numbered(t, s, p) ==
  LET from == p[1]
      block == (from \div BlockSize) * BlockSize
      atNewline == block > 0 /\ t[block] = "nl"
  IN  s.firstLine = Lines!LineOf(t, from) - (IF atNewline THEN 1 ELSE 0)

\* The lines start after the last newline before the match.
LEMMA StartOfLine ==
  ASSUME NEW t, NEW from \in Nat
  PROVE  /\ Lines!LineStart(t, from) \in Nat /\ Lines!LineStart(t, from) <= from
         /\ Lines!LineStart(t, from) = 0 \/ t[Lines!LineStart(t, from)] = "nl"
         /\ Lines!Newlines(t, Lines!LineStart(t, from), from) = {}
<1> DEFINE S == Lines!Newlines(t, 0, from)
<1>1. S \in SUBSET Nat /\ \A i \in S : i < from /\ i <= from /\ t[i + 1] = "nl"
  BY DEF Lines!Newlines
<1>2. CASE S = {}
  <2>1. Lines!LineStart(t, from) = 0
    BY <1>2 DEF Lines!LineStart
  <2> QED BY <1>2, <2>1
<1>3. CASE S # {}
  <2> DEFINE m == Lines!Max(S)
  <2>1. m \in S /\ \A y \in S : m >= y
    <3> HIDE DEF S
    <3> QED BY <1>1, <1>3, LastExists
  <2>2. Lines!LineStart(t, from) = m + 1
    BY <1>3 DEF Lines!LineStart
  <2> HIDE DEF m
  <2>3. m + 1 \in Nat /\ m + 1 <= from /\ t[m + 1] = "nl"
    BY <1>1, <2>1
  <2>4. Lines!Newlines(t, m + 1, from) = {}
    <3>1. ASSUME NEW i \in Lines!Newlines(t, m + 1, from) PROVE FALSE
      <4>1. i \in S /\ i >= m + 1 /\ i \in Nat
        BY <2>3 DEF Lines!Newlines
      <4> QED BY <1>1, <2>1, <4>1
    <3> QED BY <3>1
  <2> QED BY <2>2, <2>3, <2>4
<1> QED BY <1>2, <1>3

\* They end with the first newline that is not before the end of the match.
LEMMA EndOfLine ==
  ASSUME NEW t, NEW to \in Nat, Len(t) \in Nat, to <= Len(t)
  PROVE  /\ Lines!LineEnd(t, to) = Len(t) \/ t[Lines!LineEnd(t, to)] = "nl"
         /\ to <= Lines!LineEnd(t, to)
<1> DEFINE S == Lines!Newlines(t, to, Len(t))
<1>1. S \in SUBSET Nat /\ \A i \in S : to <= i /\ t[i + 1] = "nl"
  BY DEF Lines!Newlines
<1>2. CASE S = {}
  BY <1>2 DEF Lines!LineEnd
<1>3. CASE S # {}
  <2> DEFINE m == Lines!Min(S)
  <2>1. m \in S
    <3> HIDE DEF S
    <3> QED BY <1>1, <1>3, FirstExists
  <2>2. Lines!LineEnd(t, to) = m + 1
    BY <1>3 DEF Lines!LineEnd
  <2> HIDE DEF m
  <2>3. m \in Nat /\ to <= m + 1 /\ t[m + 1] = "nl"
    BY <1>1, <2>1
  <2> QED BY <2>2, <2>3
<1> QED BY <1>2, <1>3

\* The record of the block before counts the newlines up to its last byte,
\* without that one.
LEMMA LineNumber ==
  ASSUME NEW t, NEW from \in Nat, Len(t) \in Nat, from <= Len(t), BlockSize \in Nat \ {0}
  PROVE  LET block == (from \div BlockSize) * BlockSize
             atNewline == block > 0 /\ t[block] = "nl"
         IN  Lines!FirstLine(t, from) = Lines!LineOf(t, from) - (IF atNewline THEN 1 ELSE 0)
<1> DEFINE k == from \div BlockSize
           block == k * BlockSize
<1>1. /\ k \in Nat /\ block \in Nat /\ block <= from /\ k <= Len(t) \div BlockSize
      /\ k # 0 => block \in Nat \ {0}
      /\ k = 0 => block = 0
  BY BlockBounds
<1>2. Lines!LineOf(t, from) = Cardinality(Lines!Newlines(t, 0, from)) + 1
  BY SameCardinality DEF Lines!LineOf
<1>3. CASE k = 0
  <2>1. Lines!FirstLine(t, from) = Cardinality(Lines!Newlines(t, 0, from)) + 1
    BY <1>1, <1>3, SameCardinality DEF Lines!FirstLine
  <2>2. Cardinality(Lines!Newlines(t, 0, from)) \in Nat
    BY NewlinesFinite
  <2> QED BY <1>1, <1>2, <1>3, <2>1, <2>2
<1>4. CASE k # 0
  <2> DEFINE last == Lines!Newlines(t, block - 1, block)
  <2>1. k \in 1..(Len(t) \div BlockSize)
    <3>1. Len(t) \div BlockSize \in Nat
      BY BlockBounds
    <3> HIDE DEF k
    <3> QED BY <1>1, <1>4, <3>1
  <2>2. Lines!BlockToLine(t)[k] = Cardinality(Lines!Newlines(t, 0, block - 1)) + 1
    BY <2>1, SameCardinality DEF Lines!BlockToLine, Lines!LineOf
  <2>3. Lines!FirstLine(t, from)
          = Cardinality(Lines!Newlines(t, block, from))
              + (Cardinality(Lines!Newlines(t, 0, block - 1)) + 1)
    BY <1>4, <2>2, SameCardinality DEF Lines!FirstLine
  <2> HIDE DEF block, k
  <2>4. block \in Nat \ {0} /\ block - 1 \in Nat /\ block > 0
    BY <1>1, <1>4
  <2>5. Cardinality(last) = IF t[block] = "nl" THEN 1 ELSE 0
    <3>1. last = IF t[block] = "nl" THEN {block - 1} ELSE {}
      BY <2>4 DEF Lines!Newlines
    <3> QED BY <3>1, FS_EmptySet, FS_Singleton
  <2>6. /\ Cardinality(Lines!Newlines(t, 0, block))
             = Cardinality(Lines!Newlines(t, 0, block - 1)) + Cardinality(last)
        /\ Cardinality(Lines!Newlines(t, 0, from))
             = Cardinality(Lines!Newlines(t, 0, block))
                 + Cardinality(Lines!Newlines(t, block, from))
    BY <1>1, <2>4, NewlinesAdd
  <2>7. /\ Cardinality(Lines!Newlines(t, 0, block - 1)) \in Nat
        /\ Cardinality(Lines!Newlines(t, block, from)) \in Nat
    BY <2>4, NewlinesFinite
  <2> HIDE DEF last
  <2>8. Lines!FirstLine(t, from)
          = Lines!LineOf(t, from) - (IF block > 0 /\ t[block] = "nl" THEN 1 ELSE 0)
    BY <1>2, <2>3, <2>4, <2>5, <2>6, <2>7
  <2> QED BY <2>8 DEF block, k
<1> QED BY <1>3, <1>4

\* A snippet is that of its match.
LEMMA SnippetShown ==
  ASSUME NEW t, Len(t) \in Nat, NEW p \in Lines!Ranges(t), BlockSize \in Nat \ {0}
  PROVE  Shown(t, Lines!Snippet(t, p), p) /\ Numbered(t, Lines!Snippet(t, p), p)
<1> PICK from \in 0..Len(t), to \in 0..Len(t) : p = <<from, to>>
  BY DEF Lines!Ranges
<1>1. from \in Nat /\ to \in Nat /\ from <= Len(t) /\ to <= Len(t) /\ p[1] = from /\ p[2] = to
  OBVIOUS
<1> DEFINE start == Lines!LineStart(t, from)
           end == Lines!LineEnd(t, to)
           first == Lines!FirstLine(t, from)
<1>2. /\ start \in Nat /\ start <= from
      /\ start = 0 \/ t[start] = "nl"
      /\ Lines!Newlines(t, start, from) = {}
  BY <1>1, StartOfLine
<1>3. (end = Len(t) \/ t[end] = "nl") /\ to <= end
  BY <1>1, EndOfLine
<1>4. Numbered(t, [firstLine |-> first], p)
  BY <1>1, LineNumber DEF Numbered
<1>5. Lines!Snippet(t, p)
        = [start |-> start, end |-> end, firstLine |-> first,
           match |-> <<from - start, to - start>>]
  BY <1>1 DEF Lines!Snippet
<1> HIDE DEF start, end, first
<1>6. start + (from - start) = from /\ start + (to - start) = to
  BY <1>1, <1>2
<1>7. Shown(t, Lines!Snippet(t, p), p)
  BY <1>1, <1>2, <1>3, <1>5, <1>6 DEF Shown
<1>8. Numbered(t, Lines!Snippet(t, p), p)
  BY <1>4, <1>5 DEF Numbered
<1> QED BY <1>7, <1>8

\* The inductive invariant: each snippet is that of its match.
SnippetsInv ==
  /\ Len(text) \in Nat
  /\ matches \in Seq(Lines!Ranges(text))
  /\ snippets \in Seq({Lines!Snippet(text, p) : p \in Lines!Ranges(text)})
  /\ Len(snippets) <= Len(matches)
  /\ \A i \in 1..Len(snippets) : snippets[i] = Lines!Snippet(text, matches[i])

\* The texts and the matches there are at the start stay.
LEMMA SnippetsInit ==
  ASSUME Lines!SnippetsAssumption, Lines!Init
  PROVE  SnippetsInv
<1>1. PICK n \in 0..MaxLength : text \in [1..n -> {"nl", "c"}]
  BY DEF Lines!Init, Lines!Texts
<1>2. PICK k \in 0..MaxMatches : matches \in [1..k -> Lines!Ranges(text)]
  BY DEF Lines!Init
<1>3. n \in Nat /\ k \in Nat
  BY DEF Lines!SnippetsAssumption
<1>4. text \in Seq({"nl", "c"}) /\ matches \in Seq(Lines!Ranges(text))
  BY <1>1, <1>2, <1>3
<1> QED BY <1>4 DEF Lines!Init, SnippetsInv

\* Each round adds the snippet of the next match.
LEMMA SnippetsNext ==
  ASSUME SnippetsInv, [Lines!Next]_(Lines!vars)
  PROVE  SnippetsInv'
<1>1. CASE UNCHANGED Lines!vars
  BY <1>1 DEF Lines!vars, SnippetsInv
<1>2. CASE Lines!BuildSnippet
  <2> DEFINE S == {Lines!Snippet(text, p) : p \in Lines!Ranges(text)}
             k == Len(snippets) + 1
             new == Lines!Snippet(text, matches[k])
  <2>1. /\ Len(text) \in Nat /\ matches \in Seq(Lines!Ranges(text)) /\ snippets \in Seq(S)
        /\ k \in 1..Len(matches) /\ Len(matches) \in Nat /\ Len(snippets) \in Nat
    BY <1>2 DEF SnippetsInv, Lines!BuildSnippet
  <2>2. new \in S
    BY <2>1
  <2>3. snippets' = Append(snippets, new) /\ UNCHANGED <<text, matches>>
    BY <1>2 DEF Lines!BuildSnippet
  <2> HIDE DEF S, new
  <2>4. /\ snippets' \in Seq(S) /\ Len(snippets') = k
        /\ \A i \in 1..k : snippets'[i] = IF i = k THEN new ELSE snippets[i]
    BY <2>1, <2>2, <2>3
  <2>5. \A i \in 1..k : snippets'[i] = Lines!Snippet(text, matches[i])
    BY <2>1, <2>4 DEF SnippetsInv, new
  <2> QED BY <2>1, <2>3, <2>4, <2>5 DEF SnippetsInv, S
<1> QED BY <1>1, <1>2 DEF Lines!Next

\* Snippets: buildSnippets shows the lines of every match, and numbers them
\* but for the case of a block that begins on a new line.
THEOREM SnippetsAreExact ==
  ASSUME Lines!SnippetsAssumption
  PROVE  Lines!Spec => [](Lines!SnippetsExact /\ SnippetsExact)
<1>1. Lines!Init => SnippetsInv
  BY SnippetsInit
<1>2. SnippetsInv /\ [Lines!Next]_(Lines!vars) => SnippetsInv'
  BY SnippetsNext
<1>3. SnippetsInv => Lines!SnippetsExact /\ SnippetsExact
  <2> SUFFICES ASSUME SnippetsInv, NEW i \in 1..Len(snippets)
               PROVE  /\ Shown(text, snippets[i], matches[i])
                      /\ Numbered(text, snippets[i], matches[i])
    BY DEF SnippetsExact, Lines!SnippetsExact, Lines!LinesHoldTheMatch, Lines!FirstLineUnlessBoundary,
           Shown, Numbered
  <2>1. /\ Len(text) \in Nat /\ matches[i] \in Lines!Ranges(text)
        /\ snippets[i] = Lines!Snippet(text, matches[i])
    BY DEF SnippetsInv
  <2> QED BY <2>1, SnippetShown DEF Lines!SnippetsAssumption
<1> QED BY <1>1, <1>2, <1>3, PTL DEF Lines!Spec

-----------------------------------------------------------------------------
(***************************************************************************)
(* Loops.  A loop is a function of the number of rounds it has run.        *)
(***************************************************************************)
\* Induction over the rounds, for the set of rounds of which something holds.
LEMMA Rounds ==
  ASSUME NEW n \in Nat, NEW S, 0 \in S, \A i \in 1..n : i - 1 \in S => i \in S
  PROVE  \A i \in 0..n : i \in S
<1> DEFINE B == {i \in 0..n : i \notin S}
           R == OpToRel(<, Nat)
<1> SUFFICES ASSUME B # {} PROVE FALSE
  OBVIOUS
<1>1. PICK x \in B : \A y \in B : ~(<<y, x>> \in R)
  <2>1. B \subseteq Nat
    OBVIOUS
  <2> HIDE DEF B
  <2> QED BY <2>1, NatLessThanWellFounded, WFMin
<1>2. x \in 1..n /\ x - 1 \in 0..n /\ x - 1 \in Nat /\ x \in Nat /\ x - 1 < x
  <2>1. x \in 0..n /\ x # 0
    BY <1>1
  <2> QED BY <2>1
<1>3. x - 1 \notin B
  BY <1>1, <1>2 DEF OpToRel
<1> QED BY <1>1, <1>2, <1>3

\* f is a run of k rounds.
Run(S, base, step, k, f) ==
  f \in [0..k -> S] /\ f[0] = base /\ \A i \in 1..k : f[i] = step[i][f[i-1]]

\* A loop that starts with base and does step in each round has a run.
LEMMA LoopExists ==
  ASSUME NEW S, NEW base \in S, NEW n \in Nat, NEW step \in [1..n -> [S -> S]]
  PROVE  \E f : Run(S, base, step, n, f)
<1> DEFINE T == {k \in 0..n : \E f : Run(S, base, step, k, f)}
<1>1. 0 \in T
  <2>1. Run(S, base, step, 0, [i \in 0..0 |-> base])
    BY DEF Run
  <2> QED BY <2>1
<1>2. ASSUME NEW k \in 1..n, k - 1 \in T PROVE k \in T
  <2>1. PICK f : Run(S, base, step, k - 1, f)
    BY <1>2
  <2> DEFINE g == [i \in 0..k |-> IF i = k THEN step[k][f[k-1]] ELSE f[i]]
  <2>2. k - 1 \in 0..k-1 /\ f[k-1] \in S /\ step[k][f[k-1]] \in S
    BY <2>1 DEF Run
  <2>3. g \in [0..k -> S] /\ g[0] = base
    BY <2>1, <2>2 DEF Run
  <2>4. ASSUME NEW i \in 1..k PROVE g[i] = step[i][g[i-1]]
    <3>1. CASE i = k
      BY <3>1, <2>2
    <3>2. CASE i # k
      <4>1. i \in 1..k-1 /\ i - 1 \in 0..k /\ i - 1 # k
        BY <3>2
      <4>2. g[i] = f[i] /\ g[i-1] = f[i-1]
        BY <3>2, <4>1
      <4>3. f[i] = step[i][f[i-1]]
        BY <2>1, <4>1 DEF Run
      <4> QED BY <4>2, <4>3
    <3> QED BY <3>1, <3>2
  <2>5. Run(S, base, step, k, g)
    BY <2>3, <2>4 DEF Run
  <2> QED BY <2>5
<1>3. n \in T
  <2> HIDE DEF T
  <2> QED BY <1>1, <1>2, Rounds, n \in 0..n
<1> QED BY <1>3

-----------------------------------------------------------------------------
(***************************************************************************)
(* The trigrams of a file.                                                 *)
(***************************************************************************)
LEMMA FormatRange == \A f : Format!Range(f) = {f[i] : i \in DOMAIN f}
BY DEF Format!Range

LEMMA DigitBound ==
  ASSUME NEW b \in Nat \ {0}, NEW m \in Nat \ {0}, NEW x \in 0..m-1, NEW y \in 0..b-1
  PROVE  m * b \in Nat \ {0} /\ x * b + y \in 0..(m * b)-1
<1>1. x * b \in Nat /\ m * b \in Nat
  OBVIOUS
<1>2. (m - 1 - x) * b >= 0
  OBVIOUS
<1>3. (m - 1 - x) * b = m * b - b - x * b
  OBVIOUS
<1>4. x * b + y >= 0 /\ x * b + b <= m * b
  BY <1>1, <1>2, <1>3
<1> QED BY <1>1, <1>4

LEMMA TokIsTrigram ==
  ASSUME Format!ShardFormatAssumption, NEW c \in Seq(0..Base-1), NEW i \in 3..Len(c)
  PROVE  Format!Tok(c, i) \in Format!Trigrams
<1>1. Base \in Nat \ {0}
  BY DEF Format!ShardFormatAssumption
<1>2. i \in Nat /\ i-2 \in 1..Len(c) /\ i-1 \in 1..Len(c) /\ i \in 1..Len(c)
  OBVIOUS
<1>3. c[i-2] \in 0..Base-1 /\ c[i-1] \in 0..Base-1 /\ c[i] \in 0..Base-1
  BY <1>2, ElementOfSeq
<1>4. Base * Base \in Nat \ {0} /\ c[i-2] * Base + c[i-1] \in 0..(Base*Base)-1
  BY <1>1, <1>3, DigitBound
<1>5. (c[i-2] * Base + c[i-1]) * Base + c[i] \in 0..((Base*Base)*Base)-1
  BY <1>1, <1>3, <1>4, DigitBound
<1> QED BY <1>5 DEF Format!Tok, Format!Trigrams

\* Add lists a trigram that is not listed.
LEMMA AddedLists ==
  ASSUME NEW S, NEW order \in Seq(S), NEW x \in S
  PROVE  /\ Format!Added(order, x) \in Seq(S)
         /\ Range(Format!Added(order, x)) = Range(order) \cup {x}
<1>1. CASE x \in Range(order)
  BY <1>1, FormatRange DEF Format!Added, Range
<1>2. CASE x \notin Range(order)
  <2>1. Format!Added(order, x) = Append(order, x)
    BY <1>2, FormatRange DEF Format!Added, Range
  <2>2. Append(order, x) = order \o <<x>> /\ <<x>> \in Seq(S) /\ Range(<<x>>) = {x}
    BY DEF Range
  <2>3. Range(order \o <<x>>) = Range(order) \cup Range(<<x>>)
    <3>1. <<x>> \in Seq(S)
      OBVIOUS
    <3> QED BY <3>1, RangeConcatenation, Zenon
  <2> QED BY <2>1, <2>2, <2>3
<1> QED BY <1>1, <1>2

\* What computeTrigrams leaves in the set that was reset: the trigrams of the
\* bytes it scanned.
LEMMA TrigramsComputed ==
  ASSUME Format!ShardFormatAssumption, NEW c \in Seq(0..Base-1), Format!Scanned(c) = Len(c)
  PROVE  /\ Format!Scan(c) \in Seq(Format!Trigrams)
         /\ Range(Format!Scan(c)) = {Format!Tok(c, i) : i \in 3..Len(c)}
<1> DEFINE n == Len(c)
           S == Seq(Format!Trigrams)
           Eq(scan) == scan = [i \in 0..n |-> IF i < 3 THEN <<>>
                                              ELSE Format!Added(scan[i-1], Format!Tok(c, i))]
           scan == CHOOSE f : Eq(f)
           step == [i \in 1..n |-> [s \in S |-> IF i < 3 THEN <<>>
                                                ELSE Format!Added(s, Format!Tok(c, i))]]
<1>1. n \in Nat /\ <<>> \in S
  OBVIOUS
<1>2. step \in [1..n -> [S -> S]]
  <2>1. ASSUME NEW i \in 1..n, NEW s \in S, ~(i < 3) PROVE Format!Added(s, Format!Tok(c, i)) \in S
    BY <2>1, TokIsTrigram, AddedLists
  <2> QED BY <1>1, <2>1
<1>3. PICK g : Run(S, <<>>, step, n, g)
  <2> HIDE DEF S, step, n
  <2> QED BY <1>1, <1>2, LoopExists
<1>4. Eq(g)
  <2>1. ASSUME NEW i \in 1..n
        PROVE  g[i] = IF i < 3 THEN <<>> ELSE Format!Added(g[i-1], Format!Tok(c, i))
    <3> HIDE DEF S
    <3>1. i - 1 \in 0..n /\ g[i-1] \in S /\ g[i] = step[i][g[i-1]]
      BY <1>1, <1>3 DEF Run
    <3> QED BY <3>1
  <2> QED BY <1>3, <2>1 DEF Run
<1>5. Eq(scan)
  <2> HIDE DEF Eq
  <2> QED BY <1>4
<1>6. Format!Scan(c) = scan[n]
  BY DEF Format!Scan, Format!ComputeTrigrams, Format!StartSet
<1> HIDE DEF scan
<1> HIDE DEF S
<1> DEFINE Holds(i) == scan[i] \in S /\ Range(scan[i]) = {Format!Tok(c, j) : j \in 3..i}
           T == {i \in 0..n : Holds(i)}
<1>7. ASSUME NEW i \in 0..n, i < 3 PROVE Holds(i)
  <2>1. scan[i] = <<>>
    BY <1>5, <1>7
  <2>2. Range(<<>>) = {} /\ {Format!Tok(c, j) : j \in 3..i} = {}
    BY <1>7 DEF Range
  <2> QED BY <1>1, <2>1, <2>2
<1>8. ASSUME NEW i \in 1..n, Holds(i - 1), ~(i < 3) PROVE Holds(i)
  <2>1. scan[i] = Format!Added(scan[i-1], Format!Tok(c, i))
    BY <1>5, <1>8
  <2>2. Format!Tok(c, i) \in Format!Trigrams
    BY <1>8, TokIsTrigram
  <2>3. scan[i] \in S /\ Range(scan[i]) = Range(scan[i-1]) \cup {Format!Tok(c, i)}
    <3>1. scan[i-1] \in Seq(Format!Trigrams)
      BY <1>8 DEF S
    <3>2. PICK r : r = scan[i-1]
      OBVIOUS
    <3>3. PICK t : t = Format!Tok(c, i)
      OBVIOUS
    <3>4. r \in Seq(Format!Trigrams) /\ t \in Format!Trigrams
      BY <2>2, <3>1, <3>2, <3>3
    <3>5. /\ Format!Added(r, t) \in Seq(Format!Trigrams)
          /\ Range(Format!Added(r, t)) = Range(r) \cup {t}
      BY <3>4, AddedLists
    <3> QED BY <2>1, <3>2, <3>3, <3>5 DEF S
  <2>4. 3..i = (3..i-1) \cup {i}
    BY <1>8
  <2>5. {Format!Tok(c, j) : j \in 3..i} = {Format!Tok(c, j) : j \in 3..i-1} \cup {Format!Tok(c, i)}
    BY <2>4
  <2> QED BY <1>8, <2>3, <2>5
<1>9. n \in T
  <2> HIDE DEF Holds
  <2>1. 0 \in T
    BY <1>1, <1>7
  <2>2. ASSUME NEW i \in 1..n, i - 1 \in T PROVE i \in T
    BY <1>7, <1>8, <2>2
  <2> HIDE DEF T, n
  <2> QED BY <1>1, <2>1, <2>2, Rounds, n \in 0..n
<1> QED BY <1>6, <1>9 DEF S

-----------------------------------------------------------------------------
(***************************************************************************)
(* The posting lists of the writer.                                        *)
(***************************************************************************)
Writers ==
  {w \in [dense : Seq(Format!Trigrams), lists : Seq(SUBSET Nat), sparse : [Format!Trigrams -> Nat]] :
     Len(w.lists) = Len(w.dense)}

\* The lists of a writer are exactly about documents with the trigrams has:
\* every listed trigram is pointed to, its list has the documents that have
\* it, and every trigram of a document is listed.  Nothing is said of the
\* slots of other trigrams.
Listed(w, has) ==
  /\ w \in Writers
  /\ \A j \in 1..Len(w.dense) : w.sparse[w.dense[j]] = j - 1
  /\ \A j \in 1..Len(w.dense) : w.lists[j] = {id \in DOMAIN has : w.dense[j] \in has[id]}
  /\ \A id \in DOMAIN has : \A t \in has[id] : \E j \in 1..Len(w.dense) : w.dense[j] = t

LEMMA WriterFields ==
  ASSUME NEW w \in Writers
  PROVE  /\ w.dense \in Seq(Format!Trigrams) /\ w.lists \in Seq(SUBSET Nat)
         /\ w.sparse \in [Format!Trigrams -> Nat]
         /\ Len(w.dense) \in Nat /\ Len(w.lists) = Len(w.dense)
         /\ \A j \in 1..Len(w.dense) : w.dense[j] \in Format!Trigrams /\ w.lists[j] \in SUBSET Nat
BY DEF Writers

\* u is the writer w with a slot for t, or with the document in the slot of t.
SlotAdded(w, t, id, u) ==
  /\ u \in Writers
  /\ Len(u.dense) = Len(w.dense) + 1
  /\ u.dense[Len(w.dense) + 1] = t /\ u.lists[Len(w.dense) + 1] = {id}
  /\ \A j \in 1..Len(w.dense) : u.dense[j] = w.dense[j] /\ u.lists[j] = w.lists[j]
  /\ u.sparse[t] = Len(w.dense)
  /\ \A x \in Format!Trigrams : x # t => u.sparse[x] = w.sparse[x]

SlotUsed(w, t, id, u) ==
  /\ u \in Writers
  /\ u.dense = w.dense /\ u.sparse = w.sparse
  /\ w.sparse[t] + 1 \in 1..Len(w.dense) /\ w.dense[w.sparse[t] + 1] = t
  /\ \A j \in 1..Len(w.dense) :
              u.lists[j] = IF j = w.sparse[t] + 1 THEN w.lists[j] \cup {id} ELSE w.lists[j]

\* A trigram without a slot gets the next one.
LEMMA SlotIsNew ==
  ASSUME NEW w \in Writers, NEW t \in Format!Trigrams, NEW id, id \in Nat, Format!NewSlot(w, t),
         NEW u, u = Format!AddTrigram(w, t, id)
  PROVE  SlotAdded(w, t, id, u)
<1>1. u = [dense |-> Append(w.dense, t), lists |-> Append(w.lists, {id}),
           sparse |-> [w.sparse EXCEPT ![t] = Len(w.dense)]]
  BY DEF Format!AddTrigram
<1>2. /\ w.dense \in Seq(Format!Trigrams) /\ w.lists \in Seq(SUBSET Nat)
      /\ w.sparse \in [Format!Trigrams -> Nat]
      /\ Len(w.dense) \in Nat /\ Len(w.lists) = Len(w.dense)
  BY WriterFields
<1>3. u.dense = Append(w.dense, t) /\ u.lists = Append(w.lists, {id})
      /\ u.sparse = [w.sparse EXCEPT ![t] = Len(w.dense)]
  BY <1>1
<1>4. u.dense \in Seq(Format!Trigrams) /\ u.lists \in Seq(SUBSET Nat)
      /\ Len(u.dense) = Len(w.dense) + 1 /\ Len(u.lists) = Len(w.dense) + 1
  BY <1>2, <1>3
<1>5. u.sparse \in [Format!Trigrams -> Nat]
  BY <1>2, <1>3
<1>6. u \in Writers
  BY <1>1, <1>3, <1>4, <1>5 DEF Writers
<1>7. /\ u.dense[Len(w.dense) + 1] = t /\ u.lists[Len(w.dense) + 1] = {id}
      /\ \A j \in 1..Len(w.dense) : u.dense[j] = w.dense[j] /\ u.lists[j] = w.lists[j]
  BY <1>2, <1>3
<1>8. u.sparse[t] = Len(w.dense) /\ \A x \in Format!Trigrams : x # t => u.sparse[x] = w.sparse[x]
  BY <1>2, <1>3
<1> QED BY <1>4, <1>6, <1>7, <1>8 DEF SlotAdded

\* A trigram with a slot is listed there.
LEMMA SlotIsKept ==
  ASSUME NEW w \in Writers, NEW t \in Format!Trigrams, NEW id, id \in Nat, ~Format!NewSlot(w, t),
         NEW u, u = Format!AddTrigram(w, t, id)
  PROVE  SlotUsed(w, t, id, u)
<1>1. /\ w.dense \in Seq(Format!Trigrams) /\ w.lists \in Seq(SUBSET Nat)
      /\ w.sparse \in [Format!Trigrams -> Nat]
      /\ Len(w.dense) \in Nat /\ Len(w.lists) = Len(w.dense)
  BY WriterFields
<1>2. w.sparse[t] + 1 \in 1..Len(w.dense) /\ w.dense[w.sparse[t] + 1] = t
  BY <1>1 DEF Format!NewSlot
<1>3. PICK k : k = w.sparse[t] + 1
  OBVIOUS
<1>4. u = [w EXCEPT !.lists[k] = @ \cup {id}]
  BY <1>3 DEF Format!AddTrigram
<1>5. w = [dense |-> w.dense, lists |-> w.lists, sparse |-> w.sparse]
  BY DEF Writers
<1>6. u.dense = w.dense /\ u.sparse = w.sparse /\ u.lists = [w.lists EXCEPT ![k] = @ \cup {id}]
      /\ u = [dense |-> u.dense, lists |-> u.lists, sparse |-> u.sparse]
  BY <1>4, <1>5
<1>7. k \in 1..Len(w.lists) /\ w.lists[k] \cup {id} \in SUBSET Nat
  BY <1>1, <1>2, <1>3
<1>8. u.lists \in Seq(SUBSET Nat) /\ Len(u.lists) = Len(w.dense)
  BY <1>1, <1>6, <1>7, ExceptSeq
<1>9. u \in Writers
  BY <1>1, <1>6, <1>8 DEF Writers
<1>10. \A j \in 1..Len(w.dense) : u.lists[j] = IF j = k THEN w.lists[j] \cup {id} ELSE w.lists[j]
  <2>1. DOMAIN w.lists = 1..Len(w.dense)
    BY <1>1
  <2> QED BY <1>6, <1>7, <2>1
<1> QED BY <1>2, <1>3, <1>6, <1>9, <1>10 DEF SlotUsed

\* A round of addTrigrams: the document d has the trigram from now on.
LEMMA TrigramAdded ==
  ASSUME NEW w, NEW has, Listed(w, has), DOMAIN has \subseteq Nat,
         NEW d \in DOMAIN has, NEW t \in Format!Trigrams
  PROVE  Listed(Format!AddTrigram(w, t, d), [has EXCEPT ![d] = @ \cup {t}])
<1> DEFINE more == [has EXCEPT ![d] = @ \cup {t}]
           n == Len(w.dense)
<1>1. PICK u : u = Format!AddTrigram(w, t, d)
  OBVIOUS
<1>2. w \in Writers /\ d \in Nat
  BY DEF Listed
<1>3. /\ n \in Nat /\ \A j \in 1..n : w.dense[j] \in Format!Trigrams
      /\ \A j \in 1..n : w.sparse[w.dense[j]] = j - 1
      /\ \A j \in 1..n : w.lists[j] = {id \in DOMAIN has : w.dense[j] \in has[id]}
      /\ \A id \in DOMAIN has : \A x \in has[id] : \E j \in 1..n : w.dense[j] = x
      /\ w.sparse[t] \in Nat
  BY <1>2, WriterFields DEF Listed
<1>4. DOMAIN more = DOMAIN has /\ more[d] = has[d] \cup {t}
      /\ \A id \in DOMAIN has : id # d => more[id] = has[id]
  OBVIOUS
<1> HIDE DEF more
<1>5. CASE Format!NewSlot(w, t)
  <2>1. /\ u \in Writers
        /\ Len(u.dense) = n + 1
        /\ u.dense[n + 1] = t /\ u.lists[n + 1] = {d}
        /\ \A j \in 1..n : u.dense[j] = w.dense[j] /\ u.lists[j] = w.lists[j]
        /\ u.sparse[t] = n
        /\ \A x \in Format!Trigrams : x # t => u.sparse[x] = w.sparse[x]
    <3>1. w \in Writers /\ t \in Format!Trigrams /\ d \in Nat /\ Format!NewSlot(w, t)
          /\ u = Format!AddTrigram(w, t, d)
      BY <1>1, <1>2, <1>5
    <3>2. SlotAdded(w, t, d, u)
      BY <3>1, SlotIsNew
    <3> QED BY <3>2 DEF SlotAdded
  <2>2. \A j \in 1..n : w.dense[j] # t
    <3> SUFFICES ASSUME NEW j \in 1..n, w.dense[j] = t PROVE FALSE
      OBVIOUS
    <3>1. w.sparse[t] = j - 1
      BY <1>3
    <3>2. w.sparse[t] < n /\ w.sparse[t] + 1 = j
      BY <1>3, <3>1
    <3> QED BY <1>5, <3>1, <3>2 DEF Format!NewSlot
  <2>3. \A id \in DOMAIN has : t \notin has[id]
    BY <1>3, <2>2
  <2>4. ASSUME NEW j \in 1..n+1
        PROVE  u.sparse[u.dense[j]] = j - 1 /\ u.lists[j] = {id \in DOMAIN has : u.dense[j] \in more[id]}
    <3>1. CASE j = n + 1
      <4>1. u.dense[j] = t /\ u.lists[j] = {d} /\ u.sparse[t] = n
        BY <2>1, <3>1
      <4>2. {id \in DOMAIN has : t \in more[id]} = {d}
        BY <1>4, <2>3
      <4> QED BY <1>3, <3>1, <4>1, <4>2
    <3>2. CASE j # n + 1
      <4>1. j \in 1..n
        BY <1>3, <3>2
      <4>2. u.dense[j] = w.dense[j] /\ u.lists[j] = w.lists[j] /\ w.dense[j] # t
        BY <2>1, <2>2, <4>1
      <4>3. u.sparse[w.dense[j]] = j - 1
        BY <1>3, <2>1, <4>1, <4>2
      <4>4. \A id \in DOMAIN has : w.dense[j] \in more[id] <=> w.dense[j] \in has[id]
        BY <1>4, <4>2
      <4>5. w.lists[j] = {id \in DOMAIN has : w.dense[j] \in more[id]}
        BY <1>3, <4>1, <4>4
      <4> QED BY <4>2, <4>3, <4>5
    <3> QED BY <3>1, <3>2
  <2>5. ASSUME NEW id \in DOMAIN has, NEW x \in more[id] PROVE \E j \in 1..n+1 : u.dense[j] = x
    <3>1. CASE x = t
      BY <1>3, <2>1, <3>1
    <3>2. CASE x # t
      <4>1. x \in has[id]
        BY <1>4, <3>2
      <4>2. PICK j \in 1..n : w.dense[j] = x
        BY <1>3, <4>1
      <4>3. u.dense[j] = x /\ j \in 1..n+1
        BY <1>3, <2>1, <4>2
      <4> QED BY <4>3
    <3> QED BY <3>1, <3>2
  <2> QED BY <1>1, <1>4, <2>1, <2>4, <2>5 DEF Listed
<1>6. CASE ~Format!NewSlot(w, t)
  <2>1. PICK k : k = w.sparse[t] + 1
    OBVIOUS
  <2>2. /\ u \in Writers
        /\ u.dense = w.dense /\ u.sparse = w.sparse
        /\ k \in 1..n /\ w.dense[k] = t
        /\ \A j \in 1..n : u.lists[j] = IF j = k THEN w.lists[j] \cup {d} ELSE w.lists[j]
    <3>1. w \in Writers /\ t \in Format!Trigrams /\ d \in Nat /\ ~Format!NewSlot(w, t)
          /\ u = Format!AddTrigram(w, t, d)
      BY <1>1, <1>2, <1>6
    <3>2. SlotUsed(w, t, d, u)
      BY <3>1, SlotIsKept
    <3> QED BY <2>1, <3>2 DEF SlotUsed
  <2>3. ASSUME NEW j \in 1..n PROVE u.lists[j] = {id \in DOMAIN has : w.dense[j] \in more[id]}
    <3>1. CASE j = k
      <4>1. u.lists[j] = {id \in DOMAIN has : t \in has[id]} \cup {d}
        BY <1>3, <2>2, <3>1
      <4>2. {id \in DOMAIN has : t \in more[id]} = {id \in DOMAIN has : t \in has[id]} \cup {d}
        BY <1>4
      <4> QED BY <2>2, <3>1, <4>1, <4>2
    <3>2. CASE j # k
      <4>1. w.dense[j] # t
        BY <1>3, <2>1, <2>2, <3>2
      <4>2. \A id \in DOMAIN has : w.dense[j] \in more[id] <=> w.dense[j] \in has[id]
        BY <1>4, <4>1
      <4> QED BY <1>3, <2>2, <3>2, <4>2
    <3> QED BY <3>1, <3>2
  <2>4. ASSUME NEW id \in DOMAIN has, NEW x \in more[id] PROVE \E j \in 1..n : w.dense[j] = x
    BY <1>3, <1>4, <2>2
  <2>5. \A j \in 1..n : u.sparse[u.dense[j]] = j - 1
    BY <1>3, <2>2
  <2> QED BY <1>1, <1>4, <2>2, <2>3, <2>4, <2>5 DEF Listed
<1> QED BY <1>5, <1>6 DEF more

LEMMA AddTrigramType ==
  ASSUME NEW w \in Writers, NEW t \in Format!Trigrams, NEW id, id \in Nat
  PROVE  Format!AddTrigram(w, t, id) \in Writers
<1>1. PICK u : u = Format!AddTrigram(w, t, id)
  OBVIOUS
<1>2. CASE Format!NewSlot(w, t)
  BY <1>1, <1>2, SlotIsNew DEF SlotAdded
<1>3. CASE ~Format!NewSlot(w, t)
  BY <1>1, <1>3, SlotIsKept DEF SlotUsed
<1> QED BY <1>1, <1>2, <1>3

\* One document more, d, that has the trigrams of the set.
OneMore(more, has, d, set) ==
  /\ DOMAIN more = DOMAIN has \cup {d} /\ more[d] = set
  /\ \A id \in DOMAIN has : more[id] = has[id]

\* addTrigrams gives the new document d the trigrams of the set, in whatever
\* order they are.
LEMMA TrigramsAdded ==
  ASSUME NEW has, DOMAIN has \subseteq Nat, Listed(Format!Writer, has),
         NEW d, d \in Nat, d \notin DOMAIN has, NEW order \in Seq(Format!Trigrams),
         NEW more, OneMore(more, has, d, Range(order))
  PROVE  Listed(Format!AddTrigrams(order, d), more)
<1> DEFINE n == Len(order)
           Eq(f) == f = [i \in 0..n |-> IF i = 0 THEN Format!Writer
                                        ELSE Format!AddTrigram(f[i-1], order[i], d)]
           add == CHOOSE f : Eq(f)
           step == [i \in 1..n |-> [w \in Writers |-> Format!AddTrigram(w, order[i], d)]]
           upto(i) == [id \in DOMAIN has \cup {d} |->
                         IF id = d THEN {order[k] : k \in 1..i} ELSE has[id]]
<1>1. n \in Nat /\ Format!Writer \in Writers /\ \A i \in 1..n : order[i] \in Format!Trigrams
  BY DEF Listed
<1>2. step \in [1..n -> [Writers -> Writers]]
  <2>1. ASSUME NEW i \in 1..n, NEW w \in Writers PROVE Format!AddTrigram(w, order[i], d) \in Writers
    BY <1>1, AddTrigramType
  <2> QED BY <2>1
<1>3. PICK g : Run(Writers, Format!Writer, step, n, g)
  <2> HIDE DEF step, n
  <2> QED BY <1>1, <1>2, LoopExists
<1>4. Eq(g)
  <2>1. ASSUME NEW i \in 1..n PROVE g[i] = Format!AddTrigram(g[i-1], order[i], d)
    <3>1. i - 1 \in 0..n /\ g[i-1] \in Writers /\ g[i] = step[i][g[i-1]]
      <4> HIDE DEF step
      <4> QED BY <1>1, <1>3 DEF Run
    <3> QED BY <3>1
  <2>2. g[0] = Format!Writer /\ g \in [0..n -> Writers]
    BY <1>3 DEF Run
  <2> QED BY <2>1, <2>2
<1>5. Eq(add)
  <2> HIDE DEF Eq
  <2> QED BY <1>4
<1>6. Format!AddTrigrams(order, d) = add[n]
  BY DEF Format!AddTrigrams
<1> HIDE DEF add
<1>7. add[0] = Format!Writer /\ \A i \in 1..n : add[i] = Format!AddTrigram(add[i-1], order[i], d)
  BY <1>1, <1>5
<1> DEFINE T == {i \in 0..n : Listed(add[i], upto(i))}
<1>8. Listed(add[0], upto(0))
  <2>1. DOMAIN upto(0) = DOMAIN has \cup {d} /\ upto(0)[d] = {} /\ \A id \in DOMAIN has : upto(0)[id] = has[id]
    <3>1. 1..0 = {}
      OBVIOUS
    <3> QED BY <3>1
  <2>2. PICK w : w = Format!Writer
    OBVIOUS
  <2>3. PICK start : start = upto(0)
    OBVIOUS
  <2>4. Listed(w, has) /\ DOMAIN start = DOMAIN has \cup {d} /\ start[d] = {}
        /\ \A id \in DOMAIN has : start[id] = has[id]
    BY <2>1, <2>2, <2>3
  <2>5. Listed(w, start)
    <3>1. ASSUME NEW x PROVE {id \in DOMAIN has : x \in has[id]} = {id \in DOMAIN start : x \in start[id]}
      BY <2>4
    <3>2. ASSUME NEW id \in DOMAIN start, NEW t \in start[id] PROVE \E j \in 1..Len(w.dense) : w.dense[j] = t
      <4>1. id \in DOMAIN has /\ t \in has[id]
        BY <2>4
      <4> QED BY <2>4, <4>1 DEF Listed
    <3> QED BY <2>4, <3>1, <3>2 DEF Listed
  <2> QED BY <1>7, <2>2, <2>3, <2>5
<1>9. ASSUME NEW i \in 1..n, Listed(add[i-1], upto(i-1)) PROVE Listed(add[i], upto(i))
  <2>1. PICK w : w = add[i-1]
    OBVIOUS
  <2>2. PICK h : h = upto(i-1)
    OBVIOUS
  <2>3. PICK t : t = order[i]
    OBVIOUS
  <2>4. DOMAIN h = DOMAIN has \cup {d}
    BY <2>2
  <2>5. Listed(w, h) /\ DOMAIN h \subseteq Nat /\ d \in DOMAIN h /\ t \in Format!Trigrams
    BY <1>1, <1>9, <2>1, <2>2, <2>3, <2>4
  <2>6. Listed(Format!AddTrigram(w, t, d), [h EXCEPT ![d] = @ \cup {t}])
    BY <2>5, TrigramAdded
  <2>7. [h EXCEPT ![d] = @ \cup {t}] = upto(i)
    <3>1. 1..i = (1..i-1) \cup {i}
      OBVIOUS
    <3>2. {order[k] : k \in 1..i} = {order[k] : k \in 1..i-1} \cup {t}
      BY <2>3, <3>1
    <3> QED BY <2>2, <3>2
  <2> QED BY <1>7, <2>1, <2>3, <2>6, <2>7
<1>10. n \in T
  <2>1. 0 \in T
    BY <1>1, <1>8
  <2> HIDE DEF upto
  <2>2. ASSUME NEW i \in 1..n, i - 1 \in T PROVE i \in T
    BY <1>9, <2>2
  <2> HIDE DEF T, n
  <2> QED BY <1>1, <2>1, <2>2, Rounds, n \in 0..n
<1>11. DOMAIN upto(n) = DOMAIN more /\ \A id \in DOMAIN more : upto(n)[id] = more[id]
  <2>1. Range(order) = {order[k] : k \in 1..n}
    BY RangeEquality
  <2> QED BY <2>1 DEF OneMore
<1>12. Listed(add[n], upto(n))
  <2> HIDE DEF upto
  <2> QED BY <1>10
<1>13. Listed(add[n], more)
  <2>1. PICK w, h : w = add[n] /\ h = upto(n)
    OBVIOUS
  <2>2. Listed(w, h) /\ DOMAIN h = DOMAIN more /\ \A id \in DOMAIN more : h[id] = more[id]
    BY <1>11, <1>12, <2>1
  <2>3. Listed(w, more)
    <3>1. \A x : {id \in DOMAIN h : x \in h[id]} = {id \in DOMAIN more : x \in more[id]}
      BY <2>2
    <3> QED BY <2>2, <3>1 DEF Listed
  <2> QED BY <2>1, <2>3
<1> QED BY <1>6, <1>13

-----------------------------------------------------------------------------
(***************************************************************************)
(* The order in which the trigrams are flushed.                            *)
(***************************************************************************)
LEMMA FormatCardinality == \A S : Format!Cardinality(S) = Cardinality(S)
BY DEF Format!Cardinality, Cardinality

\* Below(s, j) are the positions of a sequence of numbers with less than is at j.
Below(s, j) == {k \in DOMAIN s : s[k] < s[j]}

\* The numbers of a sequence without duplicates have different ranks, so that
\* every rank up to its length is that of one of them.
LEMMA Ranks ==
  ASSUME NEW s \in Seq(Nat), \A j, k \in 1..Len(s) : s[j] = s[k] => j = k
  PROVE  \E rank \in [1..Len(s) -> 1..Len(s)] :
           /\ \A j \in 1..Len(s) : Cardinality(Below(s, j)) = rank[j] - 1
           /\ \A j, k \in 1..Len(s) : s[j] < s[k] => rank[j] < rank[k]
           /\ \A j, k \in 1..Len(s) : rank[j] = rank[k] => j = k
           /\ \A i \in 1..Len(s) : \E j \in 1..Len(s) : rank[j] = i
<1> DEFINE n == Len(s)
<1>1. n \in Nat /\ DOMAIN s = 1..n /\ \A j \in 1..n : s[j] \in Nat
  OBVIOUS
<1>2. IsFiniteSet(1..n) /\ Cardinality(1..n) = n
  <2>1. 1 \in Int /\ n \in Int
    BY <1>1
  <2>2. IsFiniteSet(1..n) /\ Cardinality(1..n) = IF 1 > n THEN 0 ELSE n - 1 + 1
    BY ONLY <2>1, FS_Interval
  <2> QED BY <1>1, <2>2
<1>3. ASSUME NEW j \in 1..n
      PROVE  IsFiniteSet(Below(s, j)) /\ Cardinality(Below(s, j)) \in 0..n-1
  <2>1. Below(s, j) \in SUBSET (1..n) /\ j \notin Below(s, j)
    BY <1>1 DEF Below
  <2>2. /\ IsFiniteSet(Below(s, j)) /\ Cardinality(Below(s, j)) <= n
        /\ n = Cardinality(Below(s, j)) => 1..n = Below(s, j)
    BY <1>2, <2>1, FS_Subset
  <2>3. Cardinality(Below(s, j)) \in Nat
    BY <2>2, FS_CardinalityType
  <2> QED BY <1>1, <2>1, <2>2, <2>3
<1>4. ASSUME NEW j \in 1..n, NEW k \in 1..n, s[j] < s[k]
      PROVE  Cardinality(Below(s, j)) < Cardinality(Below(s, k))
  <2>1. Below(s, j) \in SUBSET Below(s, k) /\ j \in Below(s, k) /\ j \notin Below(s, j)
    BY <1>1, <1>4 DEF Below
  <2>2. /\ IsFiniteSet(Below(s, k))
        /\ Cardinality(Below(s, j)) \in Nat /\ Cardinality(Below(s, k)) \in Nat
    BY <1>1, <1>3
  <2>3. /\ Cardinality(Below(s, j)) <= Cardinality(Below(s, k))
        /\ Cardinality(Below(s, k)) = Cardinality(Below(s, j)) => Below(s, k) = Below(s, j)
    BY <2>1, <2>2, FS_Subset
  <2> QED BY <2>1, <2>2, <2>3
<1> DEFINE rank == [j \in 1..n |-> Cardinality(Below(s, j)) + 1]
<1>5. rank \in Injection(1..n, 1..n)
  <2>1. rank \in [1..n -> 1..n]
    BY <1>1, <1>3
  <2>2. ASSUME NEW j \in 1..n, NEW k \in 1..n, rank[j] = rank[k] PROVE j = k
    <3>1. Cardinality(Below(s, j)) = Cardinality(Below(s, k))
      BY <1>3, <2>2
    <3>2. ~(s[j] < s[k]) /\ ~(s[k] < s[j])
      <4>1. Cardinality(Below(s, j)) \in Int /\ Cardinality(Below(s, k)) \in Int
        BY <1>3
      <4>2. ~(Cardinality(Below(s, j)) < Cardinality(Below(s, k)))
            /\ ~(Cardinality(Below(s, k)) < Cardinality(Below(s, j)))
        BY <3>1, <4>1
      <4> QED BY <1>4, <4>2
    <3>3. s[j] = s[k]
      BY <1>1, <3>2
    <3> QED BY <3>3
  <2> HIDE DEF rank
  <2> QED BY <2>1, <2>2 DEF Injection, IsInjective
<1>6. rank \in Surjection(1..n, 1..n)
  <2> HIDE DEF rank
  <2> QED BY <1>2, <1>5, FS_Injection
<1>7. ASSUME NEW j \in 1..n PROVE rank[j] \in 1..n /\ Cardinality(Below(s, j)) = rank[j] - 1
  <2>1. rank[j] = Cardinality(Below(s, j)) + 1 /\ Cardinality(Below(s, j)) \in 0..n-1
    BY <1>3
  <2> HIDE DEF rank
  <2> QED BY <1>1, <2>1
<1>8. ASSUME NEW j \in 1..n, NEW k \in 1..n, s[j] < s[k] PROVE rank[j] < rank[k]
  <2>1. rank[j] = Cardinality(Below(s, j)) + 1 /\ Cardinality(Below(s, j)) \in 0..n-1
    BY <1>3
  <2>2. rank[k] = Cardinality(Below(s, k)) + 1 /\ Cardinality(Below(s, k)) \in 0..n-1
    BY <1>3
  <2>3. Cardinality(Below(s, j)) < Cardinality(Below(s, k))
    BY <1>4, <1>8
  <2> HIDE DEF rank
  <2> QED BY <2>1, <2>2, <2>3
<1> HIDE DEF rank
<1> QED BY <1>5, <1>6, <1>7, <1>8 DEF Injection, IsInjective, Surjection

\* p is the order of a sequence: a permutation of its positions, along which
\* its numbers rise.
Sorts(p, s) ==
  /\ p \in [1..Len(s) -> 1..Len(s)]
  /\ \A i, k \in 1..Len(s) : i < k => s[p[i]] < s[p[k]]
  /\ \A j \in 1..Len(s) : \E i \in 1..Len(s) : p[i] = j

LEMMA RanksSort ==
  ASSUME NEW s \in Seq(Nat), \A j, k \in 1..Len(s) : s[j] = s[k] => j = k,
         NEW p, p = [i \in DOMAIN s |-> CHOOSE j \in DOMAIN s : Cardinality(Below(s, j)) = i - 1]
  PROVE  Sorts(p, s)
<1> DEFINE n == Len(s)
           card(j) == Cardinality(Below(s, j))
<1>1. n \in Nat /\ DOMAIN s = 1..n /\ \A j \in 1..n : s[j] \in Nat
  OBVIOUS
<1>2. PICK rank \in [1..n -> 1..n] :
           /\ \A j \in 1..n : Cardinality(Below(s, j)) = rank[j] - 1
           /\ \A j, k \in 1..n : s[j] < s[k] => rank[j] < rank[k]
           /\ \A j, k \in 1..n : rank[j] = rank[k] => j = k
           /\ \A i \in 1..n : \E j \in 1..n : rank[j] = i
  BY Ranks
<1>3. \A i, j \in 1..n : card(j) = i - 1 <=> rank[j] = i
  <2> SUFFICES ASSUME NEW i \in 1..n, NEW j \in 1..n PROVE card(j) = i - 1 <=> rank[j] = i
    OBVIOUS
  <2>1. card(j) = rank[j] - 1 /\ rank[j] \in 1..n
    BY <1>2
  <2> QED BY <1>1, <2>1
<1>4. ASSUME NEW i \in 1..n PROVE p[i] \in 1..n /\ rank[p[i]] = i
  <2>1. p[i] = CHOOSE j \in 1..n : card(j) = i - 1
    BY <1>1
  <2>2. \E j \in 1..n : card(j) = i - 1
    BY <1>2, <1>3
  <2> HIDE DEF card
  <2>3. p[i] \in 1..n /\ card(p[i]) = i - 1
    BY <2>1, <2>2
  <2> QED BY <1>3, <2>3
<1>5. ASSUME NEW i \in 1..n, NEW k \in 1..n, i < k PROVE s[p[i]] < s[p[k]]
  <2>1. PICK a, b : a = p[i] /\ b = p[k]
    OBVIOUS
  <2>2. a \in 1..n /\ b \in 1..n /\ rank[a] = i /\ rank[b] = k /\ s[a] \in Nat /\ s[b] \in Nat
    BY <1>1, <1>4, <2>1
  <2>3. a # b /\ ~(rank[b] < rank[a])
    BY <1>1, <1>5, <2>2
  <2>4. ~(s[b] < s[a]) /\ s[a] # s[b]
    BY <1>2, <2>2, <2>3
  <2>5. s[a] < s[b]
    BY <2>2, <2>4
  <2> QED BY <2>1, <2>5
<1>6. ASSUME NEW j \in 1..n PROVE \E i \in 1..n : p[i] = j
  <2>1. rank[j] \in 1..n
    BY <1>2
  <2>2. p[rank[j]] \in 1..n /\ rank[p[rank[j]]] = rank[j]
    BY <1>4, <2>1
  <2>3. p[rank[j]] = j
    BY <1>2, <2>2
  <2> QED BY <2>1, <2>3
<1>7. p \in [1..n -> 1..n]
  BY <1>1, <1>4
<1> QED BY <1>5, <1>6, <1>7 DEF Sorts

\* flushPostingLists sorts the positions.
LEMMA FlushSorts ==
  ASSUME denseTrigrams \in Seq(Nat),
         \A j, k \in 1..Len(denseTrigrams) : denseTrigrams[j] = denseTrigrams[k] => j = k
  PROVE  Sorts(Format!FlushOrder, denseTrigrams)
<1>1. Format!FlushOrder =
        [i \in DOMAIN denseTrigrams |->
           CHOOSE j \in DOMAIN denseTrigrams : Cardinality(Below(denseTrigrams, j)) = i - 1]
  BY DEF Format!FlushOrder, Below, Format!Cardinality, Cardinality
<1> QED BY <1>1, RanksSort

-----------------------------------------------------------------------------
(***************************************************************************)
(* The raw data.                                                           *)
(***************************************************************************)
\* Pieces that begin where the one before ends; the last place is the end.
Adjoin(start, pieces) ==
  /\ start \in [1..Len(pieces)+1 -> Nat]
  /\ start[1] = 0
  /\ \A i \in 1..Len(pieces) : start[i+1] = start[i] + Len(pieces[i])

\* The first i pieces are found in s at their places.
Placed(s, start, pieces, i) ==
  /\ Len(s) = start[i+1]
  /\ \A k \in 1..i : /\ start[k] + Len(pieces[k]) <= Len(s)
                     /\ \A x \in 1..Len(pieces[k]) : s[start[k] + x] = pieces[k][x]

\* One piece more behind the others.
LEMMA PlacedMore ==
  ASSUME NEW S, NEW pieces \in Seq(Seq(S)), NEW start, Adjoin(start, pieces),
         NEW i \in 1..Len(pieces), NEW s \in Seq(S), Placed(s, start, pieces, i - 1)
  PROVE  s \o pieces[i] \in Seq(S) /\ Placed(s \o pieces[i], start, pieces, i)
<1>1. PICK p : p = pieces[i]
  OBVIOUS
<1>2. PICK u : u = s \o p
  OBVIOUS
<1>3. p \in Seq(S) /\ i \in 1..Len(pieces) /\ Len(pieces) \in Nat /\ i + 1 \in 1..Len(pieces)+1
  BY <1>1
<1>4. start[i] \in Nat /\ start[i+1] = start[i] + Len(p) /\ Len(s) = start[i]
  BY <1>1, <1>3 DEF Adjoin, Placed
<1>5. /\ u \in Seq(S) /\ Len(u) = Len(s) + Len(p)
      /\ \A x \in 1..Len(s) : u[x] = s[x]
      /\ \A x \in 1..Len(p) : u[Len(s) + x] = p[x]
  BY <1>2, <1>3
<1>6. ASSUME NEW k \in 1..i
      PROVE  /\ start[k] + Len(pieces[k]) <= Len(u)
             /\ \A x \in 1..Len(pieces[k]) : u[start[k] + x] = pieces[k][x]
  <2>1. CASE k = i
    BY <1>1, <1>3, <1>4, <1>5, <2>1
  <2>2. CASE k # i
    <3>1. k \in 1..i-1 /\ k \in 1..Len(pieces)
      BY <1>3, <2>2
    <3>2. PICK m : m = Len(pieces[k])
      OBVIOUS
    <3>3. PICK a : a = start[k]
      OBVIOUS
    <3>4. m \in Nat /\ a \in Nat
      <4>1. pieces[k] \in Seq(S)
        BY <3>1
      <4>2. start \in [1..Len(pieces)+1 -> Nat] /\ k \in 1..Len(pieces)+1
        <5>1. k \in 1..Len(pieces)+1
          BY <3>1, <1>3
        <5> QED BY <5>1 DEF Adjoin
      <4> QED BY <3>2, <3>3, <4>1, <4>2
    <3>5. a + m <= Len(s) /\ \A x \in 1..m : s[a + x] = pieces[k][x]
      BY <3>1, <3>2, <3>3 DEF Placed
    <3>6. ASSUME NEW x \in 1..m PROVE u[a + x] = pieces[k][x]
      <4>1. a + x \in 1..Len(s)
        BY <3>4, <3>5
      <4> QED BY <1>5, <3>5, <4>1
    <3>7. a + m <= Len(u)
      BY <1>3, <1>5, <3>4, <3>5
    <3> QED BY <3>2, <3>3, <3>6, <3>7
  <2> QED BY <2>1, <2>2
<1>7. Len(u) = start[i+1]
  BY <1>4, <1>5
<1> QED BY <1>1, <1>2, <1>5, <1>6, <1>7 DEF Placed

\* flatRaw has every piece at its place.
LEMMA FlatPlaces ==
  ASSUME NEW S, NEW pieces \in Seq(Seq(S)), NEW start, Adjoin(start, pieces)
  PROVE  /\ Format!Flat(pieces) \in Seq(S)
         /\ Placed(Format!Flat(pieces), start, pieces, Len(pieces))
<1> DEFINE n == Len(pieces)
           Q == Seq(S)
           Eq(f) == f = [i \in 0..n |-> IF i = 0 THEN <<>> ELSE f[i-1] \o pieces[i]]
           flat == CHOOSE f : Eq(f)
           step == [i \in 1..n |-> [s \in Q |-> s \o pieces[i]]]
<1>1. n \in Nat /\ <<>> \in Q /\ \A i \in 1..n : pieces[i] \in Q
  OBVIOUS
<1>2. step \in [1..n -> [Q -> Q]]
  <2>1. ASSUME NEW i \in 1..n, NEW s \in Q PROVE s \o pieces[i] \in Q
    <3>1. pieces[i] \in Seq(S)
      OBVIOUS
    <3> QED BY <3>1
  <2> HIDE DEF Q, n
  <2> QED BY <2>1
<1> HIDE DEF Q
<1>3. PICK g : Run(Q, <<>>, step, n, g)
  <2> HIDE DEF step, n
  <2> QED BY <1>1, <1>2, LoopExists
<1>4. Eq(g)
  <2>1. ASSUME NEW i \in 1..n PROVE g[i] = g[i-1] \o pieces[i]
    <3>1. i - 1 \in 0..n /\ g[i-1] \in Q /\ g[i] = step[i][g[i-1]]
      <4> HIDE DEF step, n
      <4> QED BY <1>1, <1>3 DEF Run
    <3> HIDE DEF n
    <3> QED BY <3>1
  <2>2. g[0] = <<>> /\ g \in [0..n -> Q]
    BY <1>3 DEF Run
  <2> HIDE DEF n
  <2> QED BY <1>1, <2>1, <2>2
<1>5. Eq(flat)
  <2> HIDE DEF Eq
  <2> QED BY <1>4
<1>6. Format!Flat(pieces) = flat[n]
  BY DEF Format!Flat
<1>7. flat[0] = <<>> /\ \A i \in 1..n : flat[i] = flat[i-1] \o pieces[i]
  <2> HIDE DEF flat, n
  <2> QED BY <1>1, <1>5
<1> HIDE DEF flat
<1> DEFINE Holds(i) == flat[i] \in Q /\ Placed(flat[i], start, pieces, i)
           T == {i \in 0..n : Holds(i)}
<1>8. Holds(0)
  <2>1. start[0 + 1] = 0
    BY DEF Adjoin
  <2>2. Placed(<<>>, start, pieces, 0)
    BY <2>1 DEF Placed
  <2> QED BY <1>1, <1>7, <2>2
<1>9. ASSUME NEW i \in 1..n, Holds(i - 1) PROVE Holds(i)
  <2>1. PICK s : s = flat[i-1]
    OBVIOUS
  <2>2. s \in Seq(S) /\ Placed(s, start, pieces, i - 1)
    BY <1>9, <2>1 DEF Q
  <2>3. s \o pieces[i] \in Seq(S) /\ Placed(s \o pieces[i], start, pieces, i)
    BY <2>2, PlacedMore
  <2> QED BY <1>7, <2>1, <2>3 DEF Q
<1>10. n \in T
  <2> HIDE DEF Holds
  <2>1. 0 \in T
    BY <1>1, <1>8
  <2>2. ASSUME NEW i \in 1..n, i - 1 \in T PROVE i \in T
    BY <1>9, <2>2
  <2> HIDE DEF T, n
  <2> QED BY <1>1, <2>1, <2>2, Rounds, n \in 0..n
<1> QED BY <1>6, <1>10 DEF Q

\* So the range of a piece cuts it out.
LEMMA PlacedCut ==
  ASSUME NEW S, NEW pieces \in Seq(Seq(S)), NEW start, Adjoin(start, pieces),
         NEW s \in Seq(S), Placed(s, start, pieces, Len(pieces)), NEW i \in 1..Len(pieces)
  PROVE  SubSeq(s, start[i] + 1, start[i] + Len(pieces[i])) = pieces[i]
<1>1. PICK p : p = pieces[i]
  OBVIOUS
<1>2. PICK a : a = start[i] + 1
  OBVIOUS
<1>3. PICK b : b = start[i] + Len(p)
  OBVIOUS
<1>4. PICK c : c = SubSeq(s, a, b)
  OBVIOUS
<1>5. p \in Seq(S) /\ Len(p) \in Nat /\ start[i] \in Nat
  <2>1. pieces[i] \in Seq(S) /\ Len(pieces) \in Nat /\ i \in 1..Len(pieces)+1
    OBVIOUS
  <2>2. start[i] \in Nat
    BY <2>1 DEF Adjoin
  <2> QED BY <1>1, <2>1, <2>2
<1>6. a \in Nat /\ a > 0 /\ b \in Nat /\ b - a + 1 = Len(p) /\ b <= Len(s)
  <2>1. start[i] + Len(p) <= Len(s)
    <3>1. PICK m : m = Len(pieces)
      OBVIOUS
    <3>2. i \in 1..m /\ Placed(s, start, pieces, m)
      BY <3>1
    <3> QED BY <1>1, <3>2 DEF Placed
  <2>2. PICK m : m = Len(p)
    OBVIOUS
  <2>3. PICK d : d = start[i]
    OBVIOUS
  <2>4. m \in Nat /\ d \in Nat /\ a = d + 1 /\ b = d + m
    BY <1>2, <1>3, <1>5, <2>2, <2>3
  <2>5. b <= Len(s)
    BY <2>1, <2>2, <2>3, <2>4
  <2>6. a \in Nat /\ a > 0 /\ b \in Nat /\ b - a + 1 = m
    BY <2>4
  <2> QED BY <2>2, <2>5, <2>6
<1>7. \A x \in 1..Len(p) : s[a + x - 1] = p[x]
  <2> SUFFICES ASSUME NEW x \in 1..Len(p) PROVE s[a + x - 1] = p[x]
    OBVIOUS
  <2>1. a + x - 1 = start[i] + x
    BY <1>2, <1>5
  <2>2. s[start[i] + x] = p[x]
    BY <1>1 DEF Placed
  <2> QED BY <2>1, <2>2
<1>8. \A x \in a..b : s[x] \in S
  BY <1>6
<1>9. c \in Seq(S) /\ Len(c) = Len(p) /\ \A x \in 1..Len(p) : c[x] = s[a + x - 1]
  <2>1. /\ c \in Seq(S) /\ Len(c) = IF a <= b THEN b - a + 1 ELSE 0
        /\ \A x \in 1..b-a+1 : c[x] = s[a + x - 1]
    BY <1>4, <1>6, <1>8, SubSeqProperties
  <2> QED BY <1>5, <1>6, <2>1
<1>10. c = p
  BY <1>5, <1>7, <1>9, SeqEqual
<1> QED BY <1>1, <1>2, <1>3, <1>4, <1>10

-----------------------------------------------------------------------------
(***************************************************************************)
(* Reading.                                                                *)
(***************************************************************************)
Rising(s) == \A i, k \in 1..Len(s) : i < k => s[i] < s[k]

\* The list at t, if t is among the positions behind lower up to upper.
FoundIn(ts, ls, t, lower, upper, list) ==
  \/ \E h \in lower+1..upper : ts[h] = t /\ list = ls[h]
  \/ list = {} /\ \A h \in lower+1..upper : ts[h] # t

\* What bisecting at h comes to.
Halves(ts, ls, t, lower, upper, h) ==
  /\ h \in lower..upper-1 /\ h \in 0..Len(ts) /\ h + 1 \in 0..Len(ts)
  /\ \A list : FoundIn(ts, ls, t, lower, upper, list) <=>
       IF ts[h + 1] = t THEN list = ls[h + 1]
       ELSE IF ts[h + 1] < t THEN FoundIn(ts, ls, t, h + 1, upper, list)
       ELSE FoundIn(ts, ls, t, lower, h, list)

\* One bisection.
LEMMA Bisect ==
  ASSUME NEW ts \in Seq(Nat), Rising(ts), NEW ls, NEW t \in Nat,
         NEW lower, NEW upper, lower \in 0..Len(ts), upper \in 0..Len(ts), lower < upper,
         NEW h, h = (lower + upper) \div 2
  PROVE  Halves(ts, ls, t, lower, upper, h)
<1>2. h \in lower..upper-1 /\ h \in 0..Len(ts) /\ h + 1 \in 0..Len(ts) /\ h \in Nat
  <2>1. lower \in Nat /\ upper \in Nat /\ Len(ts) \in Nat
    OBVIOUS
  <2>2. h \in Int /\ 2 * h <= lower + upper /\ lower + upper <= 2 * h + 1
    BY <2>1
  <2> QED BY <2>1, <2>2
<1>3. h + 1 \in lower+1..upper /\ h + 1 \in 1..Len(ts)
  BY <1>2
<1>4. PICK m : m = h + 1
  OBVIOUS
<1>5. m \in Nat /\ m \in lower+1..upper /\ m \in 1..Len(ts) /\ ts[m] \in Nat
  BY <1>3, <1>4
<1>6. \A k \in lower+1..upper : k \in 1..Len(ts) /\ ts[k] \in Nat
  OBVIOUS
<1>7. \A k \in lower+1..upper : (k < m => ts[k] < ts[m]) /\ (k > m => ts[m] < ts[k])
  BY <1>5, <1>6 DEF Rising
<1>8. ASSUME NEW list
      PROVE FoundIn(ts, ls, t, lower, upper, list) <=>
              IF ts[m] = t THEN list = ls[m]
              ELSE IF ts[m] < t THEN FoundIn(ts, ls, t, m, upper, list)
              ELSE FoundIn(ts, ls, t, lower, h, list)
  <2>1. CASE ts[m] = t
    <3>1. \A k \in lower+1..upper : ts[k] = t => k = m
      BY <1>5, <1>6, <1>7, <2>1
    <3> QED BY <1>5, <2>1, <3>1 DEF FoundIn
  <2>2. CASE ts[m] < t
    <3>1. \A k \in lower+1..upper : ts[k] = t => k \in m+1..upper
      BY <1>5, <1>6, <1>7, <2>2
    <3>2. \A k \in m+1..upper : k \in lower+1..upper
      BY <1>5
    <3>3. ts[m] # t
      BY <1>5, <2>2
    <3> QED BY <2>2, <3>1, <3>2, <3>3 DEF FoundIn
  <2>3. CASE ts[m] # t /\ ~(ts[m] < t)
    <3>1. \A k \in lower+1..upper : ts[k] = t => k \in lower+1..h
      <4> SUFFICES ASSUME NEW k \in lower+1..upper, ts[k] = t PROVE k \in lower+1..h
        OBVIOUS
      <4>1. k # m /\ ~(k > m)
        BY <1>5, <1>6, <1>7, <2>3
      <4> QED BY <1>2, <1>4, <4>1
    <3>2. \A k \in lower+1..h : k \in lower+1..upper
      BY <1>2
    <3> QED BY <2>3, <3>1, <3>2 DEF FoundIn
  <2> QED BY <2>1, <2>2, <2>3
<1> QED BY <1>2, <1>4, <1>8 DEF Halves

\* FindTrigram returns the list at its trigram.
LEMMA TrigramFound ==
  ASSUME shard.trigrams \in Seq(Nat), Rising(shard.trigrams), NEW t \in Nat
  PROVE  FoundIn(shard.trigrams, shard.lists, t, 0, Len(shard.trigrams), Format!FindTrigram(t))
<1> DEFINE n == Len(shard.trigrams)
           Step(f, lower, upper) ==
             LET h == (lower + upper) \div 2
             IN  IF lower >= upper THEN {}
                 ELSE IF shard.trigrams[h + 1] = t THEN shard.lists[h + 1]
                 ELSE IF shard.trigrams[h + 1] < t THEN f[h + 1][upper]
                 ELSE f[lower][h]
           Eq(f) == f = [lower \in 0..n |-> [upper \in 0..n |-> Step(f, lower, upper)]]
           find == CHOOSE f : Eq(f)
           Is(lower, upper, list) == FoundIn(shard.trigrams, shard.lists, t, lower, upper, list)
           g == [lower \in 0..n |-> [upper \in 0..n |-> CHOOSE list : Is(lower, upper, list)]]
<1>1. n \in Nat
  OBVIOUS
<1>2. ASSUME NEW lower, NEW upper, lower \in 0..n, upper \in 0..n
      PROVE  /\ \E list : Is(lower, upper, list)
             /\ \A l1, l2 : Is(lower, upper, l1) /\ Is(lower, upper, l2) => l1 = l2
  <2>1. \A h, k \in lower+1..upper : shard.trigrams[h] = t /\ shard.trigrams[k] = t => h = k
    <3> SUFFICES ASSUME NEW h \in lower+1..upper, NEW k \in lower+1..upper,
                        shard.trigrams[h] = t, shard.trigrams[k] = t
                 PROVE  h = k
      OBVIOUS
    <3>1. h \in 1..n /\ k \in 1..n /\ h \in Int /\ k \in Int
      BY <1>1, <1>2
    <3>2. ~(h < k) /\ ~(k < h)
      BY <3>1 DEF Rising
    <3> QED BY <3>1, <3>2
  <2> QED BY <2>1 DEF FoundIn
<1>3. ASSUME NEW lower, NEW upper, lower \in 0..n, upper \in 0..n
      PROVE  Is(lower, upper, g[lower][upper])
  BY <1>2, <1>3
<1>4. ASSUME NEW f, NEW lower, NEW upper, lower \in 0..n, upper \in 0..n,
             \A l, u \in 0..n : u - l < upper - lower => Is(l, u, f[l][u])
      PROVE  Is(lower, upper, Step(f, lower, upper))
  <2>1. CASE lower >= upper
    <3>1. Step(f, lower, upper) = {}
      BY <2>1
    <3>2. lower + 1..upper = {}
      BY <1>1, <1>4, <2>1
    <3> QED BY <3>1, <3>2 DEF FoundIn
  <2>2. CASE lower < upper
    <3>1. PICK h : h = (lower + upper) \div 2
      OBVIOUS
    <3>2. /\ h \in lower..upper-1 /\ h \in 0..n /\ h + 1 \in 0..n
          /\ \A list : Is(lower, upper, list) <=>
               IF shard.trigrams[h + 1] = t THEN list = shard.lists[h + 1]
               ELSE IF shard.trigrams[h + 1] < t THEN Is(h + 1, upper, list)
               ELSE Is(lower, h, list)
      <4>1. Halves(shard.trigrams, shard.lists, t, lower, upper, h)
        <5> HIDE DEF Step, Is
        <5> QED BY <1>4, <2>2, <3>1, Bisect
      <4> QED BY <4>1 DEF Halves
    <3>3. h - lower < upper - lower /\ upper - (h + 1) < upper - lower
      BY <1>1, <1>4, <2>2, <3>2
    <3>4. Is(h + 1, upper, f[h + 1][upper]) /\ Is(lower, h, f[lower][h])
      BY <1>4, <3>2, <3>3
    <3>5. ~(lower >= upper)
      BY <1>1, <1>4, <2>2
    <3>6. Step(f, lower, upper) =
            IF shard.trigrams[h + 1] = t THEN shard.lists[h + 1]
            ELSE IF shard.trigrams[h + 1] < t THEN f[h + 1][upper]
            ELSE f[lower][h]
      BY <3>1, <3>5
    <3> HIDE DEF Is, Step
    <3> QED BY <3>2, <3>4, <3>6
  <2> QED BY <1>1, <1>4, <2>1, <2>2
<1>5. Eq(g)
  <2>1. ASSUME NEW lower, NEW upper, lower \in 0..n, upper \in 0..n
        PROVE  g[lower][upper] = Step(g, lower, upper)
    <3> HIDE DEF g, Is, Step, n
    <3>1. \A l, u \in 0..n : u - l < upper - lower => Is(l, u, g[l][u])
      BY <1>3
    <3>2. Is(lower, upper, Step(g, lower, upper))
      BY <1>4, <2>1, <3>1
    <3> QED BY <1>2, <1>3, <2>1, <3>2
  <2>2. g = [lower \in 0..n |-> [upper \in 0..n |-> g[lower][upper]]]
    OBVIOUS
  <2> HIDE DEF Step, Is, n
  <2>3. [lower \in 0..n |-> [upper \in 0..n |-> g[lower][upper]]]
          = [lower \in 0..n |-> [upper \in 0..n |-> Step(g, lower, upper)]]
    <3> HIDE DEF g
    <3> QED BY <2>1
  <2> HIDE DEF g
  <2> QED BY <2>2, <2>3
<1>6. Eq(find)
  <2> HIDE DEF Eq
  <2> QED BY <1>5
<1>7. Format!FindTrigram(t) = find[0][n]
  BY DEF Format!FindTrigram
<1> HIDE DEF find
<1> DEFINE T == {d \in 0..n+1 : \A l, u \in 0..n : u - l < d => Is(l, u, find[l][u])}
<1>8. ASSUME NEW lower, NEW upper, lower \in 0..n, upper \in 0..n
      PROVE  find[lower][upper] = Step(find, lower, upper)
  <2> HIDE DEF Step, n
  <2>1. find[lower] = [u \in 0..n |-> Step(find, lower, u)]
    BY <1>6, <1>8
  <2> QED BY <1>8, <2>1
<1>9. 0 \in T
  <2>1. ASSUME NEW l \in 0..n, NEW u \in 0..n, u - l < 0 PROVE Is(l, u, find[l][u])
    <3>1. l >= u /\ l + 1..u = {}
      BY <1>1, <2>1
    <3>2. find[l][u] = {}
      BY <1>8, <3>1
    <3> QED BY <3>1, <3>2 DEF FoundIn
  <2> QED BY <1>1, <2>1
<1>10. ASSUME NEW d \in 1..n+1, d - 1 \in T PROVE d \in T
  <2>1. ASSUME NEW l \in 0..n, NEW u \in 0..n, u - l < d PROVE Is(l, u, find[l][u])
    <3>1. ASSUME NEW l1 \in 0..n, NEW u1 \in 0..n, u1 - l1 < u - l
          PROVE  Is(l1, u1, find[l1][u1])
      <4>1. u1 - l1 < d - 1
        BY <1>1, <2>1, <3>1
      <4> HIDE DEF Is, n
      <4> QED BY <1>10, <4>1
    <3> HIDE DEF Is, Step, n
    <3>2. Is(l, u, Step(find, l, u))
      BY <1>4, <3>1
    <3> QED BY <1>8, <3>2
  <2> HIDE DEF Is, n
  <2> QED BY <1>1, <2>1
<1>11. n + 1 \in T
  <2>1. n + 1 \in Nat /\ n + 1 \in 0..n+1
    BY <1>1
  <2> HIDE DEF T, n
  <2> QED BY <1>9, <1>10, <2>1, Rounds
<1>12. Is(0, n, find[0][n])
  <2>1. 0 \in 0..n /\ n \in 0..n /\ n - 0 < n + 1
    BY <1>1
  <2> HIDE DEF Is, n
  <2> QED BY <1>11, <2>1
<1> QED BY <1>7, <1>12

\* The trigrams of the documents, and the pieces and places of the raw data.
DocTrigrams(ds) == [id \in 0..Len(ds)-1 |-> LET c == ds[id + 1].content
                                            IN  {Format!Tok(c, i) : i \in 3..Len(c)}]
Pieces(ds) == [i \in 1..Len(ds) |-> Format!Inner(ds[i].content)]
Starts(ds, end) == [i \in 1..Len(ds)+1 |-> IF i = Len(ds) + 1 THEN end ELSE ds[i].start]

\* The documents and their places: each begins where the one before ends.
DocsKept ==
  /\ docs \in Seq([content : Contents, start : Nat, length : Nat])
  /\ seen \in Nat /\ Len(docs) <= seen /\ seen <= MaxFiles
  /\ \A i \in 1..Len(docs) : docs[i].length = Len(Format!Inner(docs[i].content))
  /\ Adjoin(Starts(docs, rawLength), Pieces(docs))

\* A shard has every list at its trigram, the trigrams in order, and the raw
\* data, or its hashes, at the places the documents name.
Laid(sh, ds, pieces, inShard, rw) ==
  /\ sh.trigrams \in Seq(Format!Trigrams) /\ Rising(sh.trigrams)
  /\ \A h \in 1..Len(sh.trigrams) :
       sh.lists[h] = {id \in DOMAIN DocTrigrams(ds) : sh.trigrams[h] \in DocTrigrams(ds)[id]}
  /\ \A id \in DOMAIN DocTrigrams(ds) : \A t \in DocTrigrams(ds)[id] :
       \E h \in 1..Len(sh.trigrams) : sh.trigrams[h] = t
  /\ \A i \in 1..Len(ds) :
       /\ sh.docs[i].start = ds[i].start /\ sh.docs[i].length = ds[i].length
       /\ ~inShard => sh.docs[i].sha256 = pieces[i]
  /\ IF inShard THEN sh.raw = Format!Flat(pieces) ELSE sh.raw = Nil /\ rw = pieces

FormatInv ==
  /\ Listed(Format!Writer, DocTrigrams(docs))
  /\ DocsKept
  /\ shard = Nil => raw = Pieces(docs)
  /\ shard # Nil => Laid(shard, docs, Pieces(docs), Format!Inline, raw)

-----------------------------------------------------------------------------
LEMMA DocFields ==
  ASSUME DocsKept
  PROVE  /\ Len(docs) \in Nat
         /\ \A i \in 1..Len(docs) : docs[i].content \in Contents /\ docs[i].start \in Nat
<1>1. docs \in Seq([content : Contents, start : Nat, length : Nat])
  BY DEF DocsKept
<1>2. \A i \in 1..Len(docs) : docs[i] \in [content : Contents, start : Nat, length : Nat]
  <2>1. PICK S : S = [content : Contents, start : Nat, length : Nat]
    OBVIOUS
  <2> QED BY <1>1, <2>1, ElementOfSeq
<1> QED BY <1>1, <1>2

LEMMA InnerPiece ==
  ASSUME Format!ShardFormatAssumption, NEW c \in Contents
  PROVE  /\ Format!Inner(c) \in Seq(0..Base) /\ Len(Format!Inner(c)) \in Nat
         /\ c \in Seq(0..Base-1)
<1>1. c \in Seq(0..Base-1) /\ Base \in Nat \ {0}
  BY DEF Format!ShardFormatAssumption
<1>2. \A i \in 1..Len(c) : c[i] \in 0..Base
  <2>1. \A i \in 1..Len(c) : c[i] \in 0..Base-1
    BY <1>1, ElementOfSeq
  <2> QED BY <1>1, <2>1
<1>3. c \in Seq(0..Base)
  <2>1. c \in [1..Len(c) -> 0..Base] /\ Len(c) \in Nat
    BY <1>1, <1>2
  <2> QED BY <2>1, SeqDef
<1>4. <<Base>> \in Seq(0..Base)
  BY <1>1
<1> QED BY <1>1, <1>3, <1>4 DEF Format!Inner

LEMMA FormatInit == ASSUME Format!ShardFormatAssumption, Format!Init PROVE FormatInv
<1>1. /\ Base \in Nat \ {0} /\ MaxFiles \in Nat
      /\ Base * Base * Base - 1 \in Nat
  <2>1. Base \in Nat \ {0} /\ MaxFiles \in Nat
    BY DEF Format!ShardFormatAssumption
  <2>2. Base * Base \in Nat \ {0}
    BY <2>1
  <2>3. Base * Base * Base \in Nat \ {0}
    BY <2>1, <2>2
  <2> QED BY <2>1, <2>3
<1>2. /\ docs = <<>> /\ raw = <<>> /\ rawLength = 0 /\ seen = 0 /\ shard = Nil
      /\ denseTrigrams = <<>> /\ lists = <<>> /\ sparseTrigrams = [t \in Format!Trigrams |-> 0]
  BY DEF Format!Init
<1>3. Len(docs) = 0 /\ 1..Len(docs) = {} /\ DocTrigrams(docs) = [id \in {} |-> {}] /\ Pieces(docs) = <<>>
  BY <1>2 DEF DocTrigrams, Pieces
<1>4. Format!Writer \in Writers /\ Len(Format!Writer.dense) = 0
  BY <1>2 DEF Format!Writer, Writers
<1>5. Listed(Format!Writer, DocTrigrams(docs))
  BY <1>3, <1>4 DEF Listed
<1>6. Adjoin(Starts(docs, rawLength), Pieces(docs))
  BY <1>2, <1>3 DEF Adjoin, Starts
<1>7. DocsKept
  BY <1>1, <1>2, <1>3, <1>6 DEF DocsKept
<1> QED BY <1>2, <1>3, <1>5, <1>7 DEF FormatInv

\* A file that is passed over or refused leaves the writer's lists alone.
LEMMA KeepsFormat ==
  ASSUME FormatInv, seen \in Nat, shard = Nil,
         seen' = seen + 1, seen < MaxFiles, MaxFiles \in Nat,
         UNCHANGED <<sparseTrigrams, denseTrigrams, lists, docs, raw, rawLength, shard>>
  PROVE  FormatInv'
<1>1. Listed(Format!Writer, DocTrigrams(docs))'
  BY DEF FormatInv, Format!Writer
<1>2. DocsKept'
  BY DEF FormatInv, DocsKept
<1>3. (raw = Pieces(docs))' /\ (shard = Nil)'
  BY DEF FormatInv
<1> QED BY <1>1, <1>2, <1>3 DEF FormatInv

\* A document is added.
LEMMA AddKeepsFormat ==
  ASSUME Format!ShardFormatAssumption, FormatInv, NEW f \in Format!Files, Format!AddObject(f)
  PROVE  FormatInv'
<1> DEFINE c == f.content
           d == Len(docs)
           order == Format!Scan(c)
           w == Format!AddTrigrams(order, d)
           doc == [content |-> c, start |-> rawLength, length |-> Len(Format!Inner(c))]
<1>1. c \in Contents /\ MaxFiles \in Nat
  BY DEF Format!Files, Format!ShardFormatAssumption
<1>2. c \in Seq(0..Base-1) /\ Format!Inner(c) \in Seq(0..Base) /\ Len(Format!Inner(c)) \in Nat
  BY <1>1, InnerPiece
<1>3. /\ DocsKept /\ Listed(Format!Writer, DocTrigrams(docs)) /\ raw = Pieces(docs)
      /\ d \in Nat /\ docs \in Seq([content : Contents, start : Nat, length : Nat])
      /\ Adjoin(Starts(docs, rawLength), Pieces(docs)) /\ seen \in Nat
  BY DEF FormatInv, DocsKept, Format!AddObject, Format!Yields
<1>4. /\ Format!Scanned(c) = Len(c) /\ shard = Nil /\ shard' = Nil
      /\ seen' = seen + 1 /\ seen < MaxFiles
      /\ trigram' = order /\ raw' = Append(raw, Format!Inner(c))
      /\ rawLength' = rawLength + Len(Format!Inner(c)) /\ docs' = Append(docs, doc)
      /\ sparseTrigrams' = w.sparse /\ denseTrigrams' = w.dense /\ lists' = w.lists
  BY DEF Format!AddObject, Format!Yields, Format!RangeStart
<1> HIDE DEF order, w, c
<1>5. order \in Seq(Format!Trigrams) /\ Range(order) = {Format!Tok(c, i) : i \in 3..Len(c)}
  BY <1>2, <1>4, TrigramsComputed DEF order
<1>6. /\ Len(docs') = d + 1 /\ docs'[d + 1] = doc
      /\ \A i \in 1..d : docs'[i] = docs[i]
      /\ docs' \in Seq([content : Contents, start : Nat, length : Nat])
  <2>1. rawLength \in Nat
    <3>1. Len(Pieces(docs)) = d
      BY <1>3 DEF Pieces
    <3>2. Starts(docs, rawLength)[d + 1] \in Nat
      BY <1>3, <3>1 DEF Adjoin
    <3> QED BY <1>3, <3>2 DEF Starts
  <2>2. doc \in [content : Contents, start : Nat, length : Nat]
    BY <1>1, <1>2, <2>1
  <2> HIDE DEF doc
  <2> QED BY <1>3, <1>4, <2>2
<1>7. DocTrigrams(docs') = [id \in DOMAIN DocTrigrams(docs) \cup {d} |-> IF id = d THEN Range(order)
                                                         ELSE DocTrigrams(docs)[id]]
  <2>1. DOMAIN DocTrigrams(docs) = 0..d-1 /\ 0..Len(docs')-1 = (0..d-1) \cup {d}
    BY <1>3, <1>6 DEF DocTrigrams
  <2>2. docs'[d + 1].content = c
    BY <1>6
  <2>3. ASSUME NEW id \in 0..d-1
        PROVE  docs'[id + 1].content = docs[id + 1].content
    <3>1. id + 1 \in 1..d
      BY <1>3
    <3> QED BY <1>6, <3>1
  <2>4. ASSUME NEW id \in 0..Len(docs')-1
        PROVE  DocTrigrams(docs')[id] = IF id = d THEN Range(order) ELSE DocTrigrams(docs)[id]
    <3>1. CASE id = d
      BY <1>5, <2>2, <3>1 DEF DocTrigrams
    <3>2. CASE id # d
      <4>1. id \in 0..d-1
        BY <1>3, <2>1, <3>2
      <4> QED BY <2>3, <4>1, <3>2 DEF DocTrigrams
    <3> QED BY <3>1, <3>2
  <2>5. DocTrigrams(docs') = [id \in 0..Len(docs')-1 |-> DocTrigrams(docs')[id]]
    BY DEF DocTrigrams
  <2> QED BY <2>1, <2>4, <2>5
<1>8. Listed(w, DocTrigrams(docs'))
  <2>1. DOMAIN DocTrigrams(docs) \subseteq Nat /\ d \notin DOMAIN DocTrigrams(docs)
    BY <1>3 DEF DocTrigrams
  <2>2. PICK has, more : has = DocTrigrams(docs) /\ more = DocTrigrams(docs')
    OBVIOUS
  <2>3. OneMore(more, has, d, Range(order))
    <3> HIDE DEF d
    <3> QED BY <1>7, <2>1, <2>2 DEF OneMore
  <2>4. Listed(Format!Writer, has) /\ DOMAIN has \subseteq Nat /\ d \notin DOMAIN has
    BY <1>3, <2>1, <2>2
  <2> HIDE DEF d
  <2>5. Listed(Format!AddTrigrams(order, d), more)
    <3>1. d \in Nat /\ order \in Seq(Format!Trigrams)
      BY <1>3, <1>5
    <3> QED BY ONLY <2>3, <2>4, <3>1, TrigramsAdded
  <2> QED BY <2>2, <2>5 DEF w
<1>9. Listed(Format!Writer, DocTrigrams(docs))'
  <2>1. w \in Writers
    BY <1>8 DEF Listed
  <2>2. w = [dense |-> w.dense, lists |-> w.lists, sparse |-> w.sparse]
    BY <2>1 DEF Writers
  <2>3. Format!Writer' = w
    BY <1>4, <2>2 DEF Format!Writer
  <2> QED BY <1>8, <2>3
<1>10. Pieces(docs') = Append(Pieces(docs), Format!Inner(c))
  <2>1. Pieces(docs) \in Seq(Seq(0..Base)) /\ Len(Pieces(docs)) = d
    <3>1. \A i \in 1..d : Format!Inner(docs[i].content) \in Seq(0..Base)
      BY <1>3, DocFields, InnerPiece
    <3>2. Pieces(docs) \in [1..d -> Seq(0..Base)]
      BY <3>1 DEF Pieces
    <3>3. Len(Pieces(docs)) = d
      BY <1>3 DEF Pieces
    <3> HIDE DEF d
    <3> QED BY <1>3, <3>2, <3>3, SeqDef
  <2>2. Append(Pieces(docs), Format!Inner(c)) =
          [i \in 1..d+1 |-> IF i = d + 1 THEN Format!Inner(c) ELSE Pieces(docs)[i]]
    <3>1. PICK u, p, e : u = Append(p, e) /\ p = Pieces(docs) /\ e = Format!Inner(c)
      OBVIOUS
    <3>2. /\ u \in Seq(Seq(0..Base)) /\ Len(u) = d + 1 /\ u[d + 1] = e
          /\ \A i \in 1..d : u[i] = p[i]
      BY <1>2, <2>1, <3>1
    <3>3. u = [i \in 1..d+1 |-> u[i]]
      BY <3>2
    <3>4. \A i \in 1..d+1 : i # d + 1 => i \in 1..d
      BY <1>3
    <3> HIDE DEF d
    <3> QED BY <3>1, <3>2, <3>3, <3>4
  <2>3. ASSUME NEW i \in 1..d+1
        PROVE  Format!Inner(docs'[i].content) =
                 IF i = d + 1 THEN Format!Inner(c) ELSE Pieces(docs)[i]
    <3>1. CASE i = d + 1
      BY <1>6, <3>1
    <3>2. CASE i # d + 1
      <4>1. i \in 1..d
        BY <1>3, <3>2
      <4> QED BY <1>6, <3>2, <4>1 DEF Pieces
    <3> QED BY <3>1, <3>2
  <2> QED BY <1>6, <2>2, <2>3 DEF Pieces
<1>11. Adjoin(Starts(docs', rawLength'), Pieces(docs'))
  <2> DEFINE s == Starts(docs, rawLength)
             p == Pieces(docs)
             s2 == Starts(docs', rawLength')
             p2 == Pieces(docs')
  <2>1. Len(p) = d /\ Len(p2) = d + 1
    BY <1>3, <1>6 DEF Pieces
  <2>2. /\ s \in [1..d+1 -> Nat] /\ s[1] = 0
        /\ \A i \in 1..d : s[i+1] = s[i] + Len(p[i])
    BY <1>3, <2>1 DEF Adjoin
  <2>3. s[d+1] = rawLength /\ rawLength \in Nat
    BY <1>3, <2>2 DEF Starts
  <2>4. \A i \in 1..d+1 : s2[i] = s[i]
    <3> SUFFICES ASSUME NEW i \in 1..d+1 PROVE s2[i] = s[i]
      OBVIOUS
    <3>1. i # d + 2 /\ i \in 1..Len(docs')+1 /\ i # Len(docs') + 1
      BY <1>3, <1>6
    <3>2. s2[i] = docs'[i].start
      BY <3>1 DEF Starts
    <3>3. CASE i = d + 1
      BY <1>6, <2>3, <3>2, <3>3
    <3>4. CASE i # d + 1
      <4>1. i \in 1..d
        BY <1>3, <3>4
      <4> QED BY <1>3, <1>6, <3>2, <3>4, <4>1 DEF Starts
    <3> QED BY <3>3, <3>4
  <2>5. s2[d+2] = rawLength' /\ rawLength' = rawLength + Len(Format!Inner(c)) /\ rawLength' \in Nat
    <3>1. Len(docs') + 1 = d + 2 /\ d + 2 \in 1..Len(docs')+1
      BY <1>3, <1>6
    <3> QED BY <1>2, <1>4, <2>3, <3>1 DEF Starts
  <2>6. (\A i \in 1..d : p2[i] = p[i]) /\ p2[d+1] = Format!Inner(c)
    <3>1. \A i \in 1..d+1 : p2[i] = Format!Inner(docs'[i].content)
      BY <1>6 DEF Pieces
    <3>2. \A i \in 1..d : p[i] = Format!Inner(docs[i].content)
      BY DEF Pieces
    <3>3. \A i \in 1..d+1 : i \in 1..d \/ i = d + 1
      BY <1>3
    <3>4. d + 1 \in 1..d+1 /\ docs'[d + 1].content = c /\ \A i \in 1..d : i \in 1..d+1
      BY <1>3, <1>6
    <3> HIDE DEF d, p, p2
    <3> QED BY <1>6, <3>1, <3>2, <3>3, <3>4
  <2>7. DOMAIN s2 = 1..d+2
    BY <1>3, <1>6 DEF Starts
  <2> HIDE DEF s, p, s2, p2
  <2>8. s2 \in [1..d+2 -> Nat]
    <3>1. \A i \in 1..d+2 : s2[i] \in Nat
      <4> SUFFICES ASSUME NEW i \in 1..d+2 PROVE s2[i] \in Nat
        OBVIOUS
      <4>1. i \in 1..d+1 \/ i = d + 2
        BY <1>3
      <4> HIDE DEF d
      <4> QED BY <2>2, <2>4, <2>5, <4>1
    <3>2. s2 = [i \in 1..d+2 |-> s2[i]]
      BY <2>7 DEF s2, Starts
    <3> QED BY <3>1, <3>2
  <2>9. s2[1] = 0
    BY <1>3, <2>2, <2>4
  <2>10. ASSUME NEW i \in 1..d+1 PROVE s2[i+1] = s2[i] + Len(p2[i])
    <3>1. CASE i = d + 1
      <4>1. i + 1 = d + 2
        BY <1>3, <3>1
      <4> QED BY <1>3, <2>3, <2>4, <2>5, <2>6, <3>1, <4>1
    <3>2. CASE i # d + 1
      <4>1. i \in 1..d /\ i + 1 \in 1..d+1
        BY <1>3, <3>2
      <4> QED BY <2>2, <2>4, <2>6, <4>1
    <3> QED BY <3>1, <3>2
  <2>11. Len(p2) + 1 = d + 2
    BY <1>3, <2>1
  <2> QED BY <2>1, <2>8, <2>9, <2>10, <2>11 DEF Adjoin, s2, p2
<1>12. DocsKept'
  <2>1. \A i \in 1..Len(docs') : docs'[i].length = Len(Format!Inner(docs'[i].content))
    <3> SUFFICES ASSUME NEW i \in 1..Len(docs')
                 PROVE  docs'[i].length = Len(Format!Inner(docs'[i].content))
      OBVIOUS
    <3>1. CASE i = d + 1
      BY <1>6, <3>1
    <3>2. CASE i # d + 1
      <4>1. i \in 1..d
        BY <1>3, <1>6, <3>2
      <4> QED BY <1>3, <1>6, <4>1 DEF DocsKept
    <3> QED BY <3>1, <3>2
  <2>2. seen' \in Nat /\ Len(docs') <= seen' /\ seen' <= MaxFiles
    BY <1>1, <1>3, <1>4, <1>6 DEF DocsKept
  <2> QED BY <1>6, <1>11, <2>1, <2>2 DEF DocsKept
<1> QED BY <1>3, <1>4, <1>9, <1>10, <1>12 DEF FormatInv

LEMMA PiecesTyped ==
  ASSUME Format!ShardFormatAssumption, DocsKept
  PROVE  Pieces(docs) \in Seq(Seq(0..Base)) /\ Len(Pieces(docs)) = Len(docs)
<1>1. Len(docs) \in Nat /\ \A i \in 1..Len(docs) : Format!Inner(docs[i].content) \in Seq(0..Base)
  BY DocFields, InnerPiece
<1>2. Pieces(docs) \in [1..Len(docs) -> Seq(0..Base)] /\ Len(Pieces(docs)) = Len(docs)
  BY <1>1 DEF Pieces
<1>3. PICK n : n = Len(docs)
  OBVIOUS
<1> QED BY <1>1, <1>2, <1>3, SeqDef

\* ToBytes sorts the trigrams and keeps each list with its trigram.
LEMMA SortedLists ==
  ASSUME Format!ShardFormatAssumption, NEW has, Listed(Format!Writer, has), Format!ToBytes
  PROVE  /\ shard'.trigrams \in Seq(Format!Trigrams) /\ Rising(shard'.trigrams)
         /\ Len(shard'.lists) = Len(shard'.trigrams) /\ shard'.lists \in Seq(SUBSET DOMAIN has)
         /\ \A h \in 1..Len(shard'.trigrams) :
              shard'.lists[h] = {id \in DOMAIN has : shard'.trigrams[h] \in has[id]}
         /\ \A id \in DOMAIN has : \A t \in has[id] :
              \E h \in 1..Len(shard'.trigrams) : shard'.trigrams[h] = t
<1>1. PICK kept : kept = denseTrigrams
  OBVIOUS
<1>2. PICK order : order = Format!FlushOrder
  OBVIOUS
<1>3. PICK n : n = Len(kept)
  OBVIOUS
<1>4. PICK ts, ls : ts = shard'.trigrams /\ ls = shard'.lists
  OBVIOUS
<1>5. /\ kept \in Seq(Format!Trigrams) /\ lists \in Seq(SUBSET Nat) /\ Len(lists) = n /\ n \in Nat
      /\ \A j \in 1..n : sparseTrigrams[kept[j]] = j - 1
      /\ \A j \in 1..n : lists[j] = {id \in DOMAIN has : kept[j] \in has[id]}
      /\ \A id \in DOMAIN has : \A t \in has[id] : \E j \in 1..n : kept[j] = t
  BY <1>1, <1>3 DEF Listed, Writers, Format!Writer
<1>6. \A j, k \in 1..n : kept[j] = kept[k] => j = k
  BY <1>5
<1>7. kept \in Seq(Nat)
  <2>1. \A j \in 1..n : kept[j] \in Nat
    <3>1. \A j \in 1..n : kept[j] \in Format!Trigrams
      BY <1>3, <1>5, ElementOfSeq
    <3>2. \A t \in Format!Trigrams : t \in Nat
      BY DEF Format!Trigrams
    <3> QED BY <3>1, <3>2
  <2>2. kept \in [1..n -> Nat]
    BY <1>3, <1>5, <2>1
  <2> QED BY <1>5, <2>2, SeqDef
<1>8. Sorts(order, kept)
  BY <1>1, <1>2, <1>3, <1>6, <1>7, FlushSorts
<1>9. /\ order \in [1..n -> 1..n]
      /\ \A i, k \in 1..n : i < k => kept[order[i]] < kept[order[k]]
      /\ \A j \in 1..n : \E i \in 1..n : order[i] = j
  BY <1>3, <1>8 DEF Sorts
<1>10. DOMAIN lists = 1..n
  BY <1>5
<1>11. ts = [i \in 1..n |-> kept[order[i]]] /\ ls = [i \in 1..n |-> lists[order[i]]]
  BY <1>1, <1>2, <1>4, <1>10 DEF Format!ToBytes
<1>12. /\ ts \in [1..n -> Format!Trigrams] /\ ts \in Seq(Format!Trigrams) /\ Len(ts) = n
       /\ ls \in [1..n -> SUBSET DOMAIN has] /\ ls \in Seq(SUBSET DOMAIN has) /\ Len(ls) = n
  <2>1. \A j \in 1..n : kept[j] \in Format!Trigrams /\ lists[j] \in SUBSET DOMAIN has
    BY <1>3, <1>5, ElementOfSeq
  <2>2. ts \in [1..n -> Format!Trigrams] /\ ls \in [1..n -> SUBSET DOMAIN has]
    BY <1>9, <1>11, <2>1
  <2>3. Len(ts) = n /\ Len(ls) = n
    BY <1>5, <1>11
  <2>4. ts \in Seq(Format!Trigrams)
    BY <1>5, <2>2, SeqDef
  <2>5. ls \in Seq(SUBSET DOMAIN has)
    BY <1>5, <2>2, SeqDef
  <2> QED BY <2>2, <2>3, <2>4, <2>5
<1>13. Rising(ts)
  BY <1>9, <1>11, <1>12 DEF Rising
<1>14. \A h \in 1..n : ls[h] = {id \in DOMAIN has : ts[h] \in has[id]}
  BY <1>5, <1>9, <1>11
<1>15. ASSUME NEW id \in DOMAIN has, NEW t \in has[id] PROVE \E h \in 1..n : ts[h] = t
  <2>1. PICK j \in 1..n : kept[j] = t
    BY <1>5
  <2>2. PICK i \in 1..n : order[i] = j
    BY <1>9
  <2> QED BY <1>11, <2>1, <2>2
<1> QED BY <1>4, <1>12, <1>13, <1>14, <1>15

LEMMA ToBytesKeepsFormat ==
  ASSUME Format!ShardFormatAssumption, FormatInv, Format!ToBytes
  PROVE  FormatInv'
<1>1. /\ Listed(Format!Writer, DocTrigrams(docs)) /\ DocsKept /\ shard = Nil /\ raw = Pieces(docs)
      /\ rawLength \in Nat /\ Len(docs) \in Nat
  <2>1. Adjoin(Starts(docs, rawLength), Pieces(docs)) /\ Len(docs) \in Nat /\ Len(Pieces(docs)) = Len(docs)
    BY PiecesTyped DEF FormatInv, DocsKept
  <2>2. Starts(docs, rawLength)[Len(docs) + 1] \in Nat
    BY <2>1 DEF Adjoin
  <2>3. rawLength \in Nat
    BY <2>1, <2>2 DEF Starts
  <2> QED BY <2>1, <2>3 DEF FormatInv, Format!ToBytes
<1>2. /\ UNCHANGED <<seen, trigram, sparseTrigrams, denseTrigrams, lists, docs, rawLength>>
      /\ raw' = IF Format!Inline THEN <<>> ELSE raw
  BY DEF Format!ToBytes
<1>3. /\ shard'.trigrams \in Seq(Format!Trigrams) /\ Rising(shard'.trigrams)
      /\ Len(shard'.lists) = Len(shard'.trigrams) /\ shard'.lists \in Seq(SUBSET DOMAIN DocTrigrams(docs))
      /\ \A h \in 1..Len(shard'.trigrams) :
           shard'.lists[h] = {id \in DOMAIN DocTrigrams(docs) : shard'.trigrams[h] \in DocTrigrams(docs)[id]}
      /\ \A id \in DOMAIN DocTrigrams(docs) : \A t \in DocTrigrams(docs)[id] :
           \E h \in 1..Len(shard'.trigrams) : shard'.trigrams[h] = t
  BY <1>1, SortedLists
<1>4. /\ shard' = [trigrams |-> shard'.trigrams, lists |-> shard'.lists, maxDocId |-> Len(docs),
                   docs |-> shard'.docs, raw |-> shard'.raw]
      /\ shard'.docs = [i \in DOMAIN docs |->
                          [start |-> docs[i].start, length |-> docs[i].length,
                           sha256 |-> IF Format!Inline THEN Nil ELSE raw[i]]]
      /\ shard'.raw = IF Format!Inline THEN Format!Flat(raw) ELSE Nil
  BY DEF Format!ToBytes
<1>5. Pieces(docs) \in Seq(Seq(0..Base)) /\ Len(Pieces(docs)) = Len(docs)
  BY <1>1, PiecesTyped
<1>6. Format!Flat(raw) \in Seq(0..Base)
  BY <1>1, <1>5, FlatPlaces DEF DocsKept
<1>7. shard' \in Format!Shards
  <2>1. shard'.lists \in Seq(SUBSET (0..MaxFiles))
    <3>1. DOMAIN DocTrigrams(docs) \subseteq 0..MaxFiles
      BY <1>1 DEF DocsKept, DocTrigrams, Format!ShardFormatAssumption
    <3>2. PICK n, ls, S : n = Len(shard'.lists) /\ ls = shard'.lists /\ S = DOMAIN DocTrigrams(docs)
      OBVIOUS
    <3>3. n \in Nat /\ ls \in [1..n -> SUBSET S]
      BY <1>3, <3>2
    <3>4. ls \in [1..n -> SUBSET (0..MaxFiles)]
      BY <3>1, <3>2, <3>3
    <3> QED BY <3>2, <3>3, <3>4, SeqDef
  <2>2. shard'.docs \in Seq([start : Nat, length : Nat, sha256 : Seq(0..Base) \cup {Nil}])
    <3>1. ASSUME NEW i \in 1..Len(docs)
          PROVE  [start |-> docs[i].start, length |-> docs[i].length,
                  sha256 |-> IF Format!Inline THEN Nil ELSE raw[i]]
                   \in [start : Nat, length : Nat, sha256 : Seq(0..Base) \cup {Nil}]
      <4>1. docs[i].start \in Nat /\ docs[i].content \in Contents
        BY <1>1, DocFields
      <4>2. docs[i].length = Len(Format!Inner(docs[i].content))
        BY <1>1 DEF DocsKept
      <4>3. raw[i] \in Seq(0..Base)
        BY <1>1, <1>5, ElementOfSeq
      <4>4. docs[i].length \in Nat
        BY <4>1, <4>2, InnerPiece
      <4> QED BY <4>1, <4>3, <4>4
    <3>2. PICK n, R : n = Len(docs) /\ R = [start : Nat, length : Nat, sha256 : Seq(0..Base) \cup {Nil}]
      OBVIOUS
    <3>3. DOMAIN docs = 1..n /\ n \in Nat
      BY <1>1, <3>2 DEF DocsKept
    <3>4. shard'.docs \in [1..n -> R]
      BY <1>4, <3>1, <3>2, <3>3
    <3>5. PICK sd : sd = shard'.docs
      OBVIOUS
    <3>6. sd \in Seq(R)
      BY <3>3, <3>4, <3>5, SeqDef
    <3> QED BY <3>2, <3>5, <3>6
  <2>3. shard'.raw \in Seq(0..Base) \cup {Nil}
    BY <1>4, <1>6
  <2>4. PICK ts, ls, ds, rw : /\ ts = shard'.trigrams /\ ls = shard'.lists
                              /\ ds = shard'.docs /\ rw = shard'.raw
    OBVIOUS
  <2>5. PICK Ts, Ls, Ds : /\ Ts = Seq(Format!Trigrams) /\ Ls = Seq(SUBSET (0..MaxFiles))
                          /\ Ds = Seq([start : Nat, length : Nat, sha256 : Seq(0..Base) \cup {Nil}])
    OBVIOUS
  <2>6. shard' = [trigrams |-> ts, lists |-> ls, maxDocId |-> Len(docs), docs |-> ds, raw |-> rw]
    BY <1>4, <2>4
  <2>7. ts \in Ts /\ ls \in Ls /\ ds \in Ds /\ rw \in Seq(0..Base) \cup {Nil}
    BY <1>3, <2>1, <2>2, <2>3, <2>4, <2>5
  <2>8. shard' \in [trigrams : Ts, lists : Ls, maxDocId : Nat, docs : Ds, raw : Seq(0..Base) \cup {Nil}]
    BY <1>1, <2>6, <2>7
  <2> QED BY <2>5, <2>8 DEF Format!Shards
<1>8. shard' # Nil
  BY <1>7 DEF Format!ShardFormatAssumption
<1>9. Laid(shard', docs, Pieces(docs), Format!Inline, raw')
  <2>1. \A i \in 1..Len(docs) :
          /\ shard'.docs[i].start = docs[i].start /\ shard'.docs[i].length = docs[i].length
          /\ ~Format!Inline => shard'.docs[i].sha256 = Pieces(docs)[i]
    <3>1. DOMAIN docs = 1..Len(docs)
      BY <1>1 DEF DocsKept
    <3> QED BY <1>1, <1>4, <3>1
  <2>2. IF Format!Inline THEN shard'.raw = Format!Flat(Pieces(docs))
        ELSE shard'.raw = Nil /\ raw' = Pieces(docs)
    BY <1>1, <1>2, <1>4
  <2> QED BY <1>3, <2>1, <2>2 DEF Laid
<1>10. Listed(Format!Writer, DocTrigrams(docs))'
  BY <1>1, <1>2 DEF Format!Writer
<1>11. DocsKept'
  BY <1>1, <1>2 DEF DocsKept
<1>12. Laid(shard, docs, Pieces(docs), Format!Inline, raw)'
  BY <1>2, <1>9 DEF Format!Inline
<1> QED BY <1>8, <1>10, <1>11, <1>12 DEF FormatInv

LEMMA FormatNext ==
  ASSUME Format!ShardFormatAssumption, FormatInv, [Format!Next]_Format!vars
  PROVE  FormatInv'
<1>1. MaxFiles \in Nat /\ seen \in Nat
  BY DEF Format!ShardFormatAssumption, FormatInv, DocsKept
<1>2. ASSUME NEW f \in Format!Files, Format!SkipObject(f) PROVE FormatInv'
  BY <1>1, <1>2, KeepsFormat DEF Format!SkipObject, Format!Yields
<1>3. ASSUME NEW f \in Format!Files, Format!RefuseObject(f) PROVE FormatInv'
  BY <1>1, <1>3, KeepsFormat DEF Format!RefuseObject, Format!Yields
<1>4. ASSUME NEW f \in Format!Files, Format!AddObject(f) PROVE FormatInv'
  BY <1>4, AddKeepsFormat
<1>5. CASE Format!ToBytes
  BY <1>5, ToBytesKeepsFormat
<1>6. CASE UNCHANGED Format!vars
  BY <1>6 DEF Format!vars, FormatInv, DocsKept, Format!Writer, Format!Inline
<1> QED BY <1>2, <1>3, <1>4, <1>5, <1>6 DEF Format!Next

\* The list found for a trigram is that of the documents with it.
LEMMA PostingsFound ==
  ASSUME Format!ShardFormatAssumption, FormatInv
  PROVE  Format!PostingsExact
<1> SUFFICES ASSUME shard # Nil, NEW t \in Format!Trigrams
             PROVE  Format!FindTrigram(t) = {id \in Format!DocIds : t \in Format!TrigramsOf(id)}
  BY DEF Format!PostingsExact
<1>1. PICK ts, ls, has : ts = shard.trigrams /\ ls = shard.lists /\ has = DocTrigrams(docs)
  OBVIOUS
<1>2. /\ ts \in Seq(Format!Trigrams) /\ Rising(ts)
      /\ \A h \in 1..Len(ts) : ls[h] = {id \in DOMAIN has : ts[h] \in has[id]}
      /\ \A id \in DOMAIN has : \A x \in has[id] : \E h \in 1..Len(ts) : ts[h] = x
  BY <1>1 DEF FormatInv, Laid
<1>3. \A x \in Format!Trigrams : x \in Nat
  BY DEF Format!Trigrams
<1>4. ts \in Seq(Nat) /\ Len(ts) \in Nat
  <2>1. PICK n : n = Len(ts)
    OBVIOUS
  <2>2. n \in Nat /\ ts \in [1..n -> Format!Trigrams]
    BY <1>2, <2>1
  <2>3. ts \in [1..n -> Nat]
    BY <1>3, <2>2
  <2> QED BY <2>1, <2>2, <2>3, SeqDef
<1>5. FoundIn(ts, ls, t, 0, Len(ts), Format!FindTrigram(t))
  BY <1>1, <1>2, <1>3, <1>4, TrigramFound
<1>6. Format!FindTrigram(t) = {id \in DOMAIN has : t \in has[id]}
  <2>1. 0 + 1..Len(ts) = 1..Len(ts)
    OBVIOUS
  <2> QED BY <1>2, <1>5, <2>1 DEF FoundIn
<1>7. DOMAIN has = Format!DocIds /\ \A id \in DOMAIN has : has[id] = Format!TrigramsOf(id)
  BY <1>1 DEF DocTrigrams, Format!DocIds, Format!TrigramsOf
<1> QED BY <1>6, <1>7

\* The place of a document is its place in the raw data.
LEMMA RangesFound ==
  ASSUME Format!ShardFormatAssumption, FormatInv
  PROVE  Format!RangesLocate
<1> SUFFICES ASSUME shard # Nil, NEW i \in DOMAIN docs
             PROVE  LET d == shard.docs[i]
                        all == IF shard.raw = Nil THEN Format!Flat(raw) ELSE shard.raw
                    IN  /\ SubSeq(all, d.start + 1, d.start + d.length) = Format!Inner(docs[i].content)
                        /\ (shard.raw = Nil) => d.sha256 = Format!Inner(docs[i].content)
  BY DEF Format!RangesLocate
<1>1. PICK p, start : p = Pieces(docs) /\ start = Starts(docs, rawLength)
  OBVIOUS
<1>2. DocsKept /\ Laid(shard, docs, p, Format!Inline, raw)
  BY <1>1 DEF FormatInv
<1>3. p \in Seq(Seq(0..Base)) /\ Len(p) = Len(docs) /\ Adjoin(start, p)
  BY <1>1, <1>2, PiecesTyped DEF DocsKept
<1>4. i \in 1..Len(p) /\ p[i] = Format!Inner(docs[i].content) /\ Len(docs) \in Nat
  BY <1>1, <1>2, <1>3 DEF DocsKept, Pieces
<1>5. start[i] = docs[i].start /\ docs[i].length = Len(p[i])
  BY <1>1, <1>2, <1>3, <1>4 DEF Starts, DocsKept
<1>6. shard.docs[i].start = start[i] /\ shard.docs[i].length = Len(p[i])
      /\ (~Format!Inline => shard.docs[i].sha256 = p[i])
  BY <1>2, <1>3, <1>4, <1>5 DEF Laid
<1>7. PICK flat : flat = Format!Flat(p)
  OBVIOUS
<1>8. flat \in Seq(0..Base) /\ Placed(flat, start, p, Len(p))
  BY <1>3, <1>7, FlatPlaces
<1>9. SubSeq(flat, start[i] + 1, start[i] + Len(p[i])) = p[i]
  BY <1>3, <1>4, <1>8, PlacedCut
<1>10. CASE Format!Inline
  <2>1. shard.raw = flat
    BY <1>2, <1>7, <1>10 DEF Laid
  <2>2. flat # Nil
    BY <1>8 DEF Format!ShardFormatAssumption
  <2> QED BY <1>4, <1>6, <1>9, <2>1, <2>2
<1>11. CASE ~Format!Inline
  <2>1. shard.raw = Nil /\ raw = p
    BY <1>2, <1>11 DEF Laid
  <2> QED BY <1>4, <1>6, <1>7, <1>9, <1>11, <2>1
<1> QED BY <1>10, <1>11

-----------------------------------------------------------------------------
(***************************************************************************)
(* Queries.  A filter is a set of documents or Nil, which stands for all.  *)
(***************************************************************************)
All(ids, x) == IF x = Nil THEN ids ELSE x
FiltersOf(ids) == (SUBSET ids) \cup {Nil}

LEMMA AllIds == ASSUME NEW ids, NEW x \in FiltersOf(ids) PROVE All(ids, x) \in SUBSET ids
<1>1. CASE x = Nil
  BY <1>1 DEF All
<1>2. CASE x # Nil
  <2>1. x \in SUBSET ids \/ x = Nil
    BY DEF FiltersOf
  <2> QED BY <1>2, <2>1 DEF All
<1> QED BY <1>1, <1>2

\* Two loops that begin alike and do the same in each round.
InStep(f, g, n) == f[0] = g[0] /\ \A i \in 1..n : f[i-1] = g[i-1] => f[i] = g[i]

LEMMA SameLoop ==
  ASSUME NEW n \in Nat, NEW f, NEW g, InStep(f, g, n)
  PROVE  \A i \in 0..n : f[i] = g[i]
<1> DEFINE T == {i \in 0..n : f[i] = g[i]}
<1>1. 0 \in T
  BY DEF InStep
<1>2. ASSUME NEW i \in 1..n, i - 1 \in T PROVE i \in T
  BY <1>2 DEF InStep
<1> HIDE DEF T
<1>3. \A i \in 0..n : i \in T
  BY <1>1, <1>2, Rounds
<1> QED BY <1>3 DEF T

\* What the loops of PostingQuery have after i rounds: the documents in each
\* of the sets, in one of them, in none of them.
Narrow(ids, start, M, i) ==
  IF i = 0 THEN start ELSE {id \in All(ids, start) : \A k \in 1..i : id \in M[k]}
Gather(start, M, i) ==
  IF i = 0 THEN start ELSE (IF start = Nil THEN {} ELSE start) \cup UNION {M[k] : k \in 1..i}
Remain(start, M, i) == {id \in start : \A k \in 1..i : id \notin M[k]}

LEMMA NarrowRound ==
  ASSUME NEW ids, NEW n \in Nat, NEW M \in [1..n -> SUBSET ids], NEW start \in FiltersOf(ids),
         \A S \in SUBSET ids : S # Nil, NEW i \in 1..n
  PROVE  /\ Narrow(ids, start, M, i - 1) \in FiltersOf(ids)
         /\ Narrow(ids, start, M, i) = M[i] \cap All(ids, Narrow(ids, start, M, i - 1))
<1>1. 1..i = (1..i-1) \cup {i} /\ i # 0
  OBVIOUS
<1>2. M[i] \in SUBSET ids /\ All(ids, start) \in SUBSET ids
  BY AllIds
<1>3. Narrow(ids, start, M, i) = {id \in All(ids, start) : id \in M[i] /\ \A k \in 1..i-1 : id \in M[k]}
  BY <1>1 DEF Narrow
<1>4. CASE i - 1 = 0
  <2>1. 1..i-1 = {}
    BY <1>4
  <2>2. Narrow(ids, start, M, i - 1) = start
    BY <1>4 DEF Narrow
  <2> QED BY <1>3, <2>1, <2>2
<1>5. CASE i - 1 # 0
  <2>1. PICK S : S = {id \in All(ids, start) : \A k \in 1..i-1 : id \in M[k]}
    OBVIOUS
  <2>2. Narrow(ids, start, M, i - 1) = S
    BY <1>5, <2>1 DEF Narrow
  <2>3. S \in SUBSET ids /\ All(ids, S) = S
    BY <1>2, <2>1 DEF All
  <2> QED BY <1>3, <2>1, <2>2, <2>3 DEF FiltersOf
<1> QED BY <1>4, <1>5

LEMMA GatherRound ==
  ASSUME NEW ids, NEW n \in Nat, NEW M \in [1..n -> SUBSET ids], NEW start \in FiltersOf(ids),
         \A S \in SUBSET ids : S # Nil, NEW i \in 1..n
  PROVE  Gather(start, M, i) = Format!Join(Gather(start, M, i - 1), M[i])
<1>1. 1..i = (1..i-1) \cup {i} /\ i # 0
  OBVIOUS
<1>2. UNION {M[k] : k \in 1..i} = (UNION {M[k] : k \in 1..i-1}) \cup M[i]
  <2>1. ASSUME NEW x PROVE x \in UNION {M[k] : k \in 1..i} <=> \E k \in 1..i : x \in M[k]
    OBVIOUS
  <2>2. ASSUME NEW x PROVE x \in UNION {M[k] : k \in 1..i-1} <=> \E k \in 1..i-1 : x \in M[k]
    OBVIOUS
  <2>3. ASSUME NEW x PROVE (\E k \in 1..i : x \in M[k]) <=> (\E k \in 1..i-1 : x \in M[k]) \/ x \in M[i]
    BY <1>1
  <2>4. ASSUME NEW x PROVE x \in UNION {M[k] : k \in 1..i}
                             <=> x \in (UNION {M[k] : k \in 1..i-1}) \cup M[i]
    BY <2>1, <2>2, <2>3
  <2> QED BY <2>4
<1>3. CASE i - 1 = 0
  <2>1. UNION {M[k] : k \in 1..i-1} = {}
    BY <1>3
  <2> QED BY <1>1, <1>2, <1>3, <2>1 DEF Gather, Format!Join
<1>4. CASE i - 1 # 0
  <2>1. PICK S : S = (IF start = Nil THEN {} ELSE start) \cup UNION {M[k] : k \in 1..i-1}
    OBVIOUS
  <2>2. Gather(start, M, i - 1) = S
    BY <1>4, <2>1 DEF Gather
  <2>3. S \in SUBSET ids
    <3>1. \A k \in 1..i-1 : M[k] \in SUBSET ids
      <4>1. \A k \in 1..i-1 : k \in 1..n
        OBVIOUS
      <4> QED BY <4>1
    <3>2. UNION {M[k] : k \in 1..i-1} \in SUBSET ids
      BY <3>1
    <3>3. (IF start = Nil THEN {} ELSE start) \in SUBSET ids
      <4>1. start \in SUBSET ids \/ start = Nil
        BY DEF FiltersOf
      <4> QED BY <4>1
    <3> QED BY <2>1, <3>2, <3>3
  <2>4. Gather(start, M, i) = S \cup M[i]
    BY <1>1, <1>2, <2>1 DEF Gather
  <2> QED BY <2>2, <2>3, <2>4 DEF Format!Join
<1> QED BY <1>3, <1>4

LEMMA RemainRound ==
  ASSUME NEW n \in Nat, NEW M, NEW start, NEW i \in 1..n
  PROVE  Remain(start, M, i) = Remain(start, M, i - 1) \ M[i]
<1>1. 1..i = (1..i-1) \cup {i}
  OBVIOUS
<1> QED BY <1>1 DEF Remain

\* The subqueries N are answered right: docsOf has the documents of each.
Answered(answer, N, ids, docsOf) ==
  /\ docsOf \in [N -> SUBSET ids]
  /\ \A s \in N : \A x \in FiltersOf(ids) : answer[s][x] = docsOf[s] \cap All(ids, x)

\* What is known of a query and of the documents with its trigrams.
Posed(q, N) ==
  /\ q.trigrams \in Seq(Format!Trigrams) /\ q.sub \in Seq(N)
  /\ Len(q.trigrams) + Len(q.sub) > 0

With(q) == [k \in 1..Len(q.trigrams) |-> {id \in Format!DocIds : q.trigrams[k] \in Format!TrigramsOf(id)}]

LEMMA WithFound ==
  ASSUME Format!PostingsExact, shard # Nil, NEW q, NEW N, Posed(q, N)
  PROVE  /\ Len(q.trigrams) \in Nat /\ With(q) \in [1..Len(q.trigrams) -> SUBSET Format!DocIds]
         /\ \A k \in 1..Len(q.trigrams) : Format!FindTrigram(q.trigrams[k]) = With(q)[k]
<1>1. Len(q.trigrams) \in Nat /\ \A k \in 1..Len(q.trigrams) : q.trigrams[k] \in Format!Trigrams
  BY DEF Posed
<1> QED BY <1>1 DEF With, Format!PostingsExact

LEMMA AndAnswered ==
  ASSUME Format!PostingsExact, shard # Nil, \A S \in SUBSET Format!DocIds : S # Nil,
         NEW q, NEW N, Posed(q, N), NEW answer, NEW docsOf, Answered(answer, N, Format!DocIds, docsOf),
         NEW filter \in Format!Filters
  PROVE  Format!QueryAnd(q, filter, answer) =
           {id \in All(Format!DocIds, filter) :
              /\ \A k \in 1..Len(q.trigrams) : q.trigrams[k] \in Format!TrigramsOf(id)
              /\ \A k \in 1..Len(q.sub) : id \in docsOf[q.sub[k]]}
<1> DEFINE ids == Format!DocIds
           n == Len(q.trigrams)
           m == Len(q.sub)
           M == With(q)
           K == [k \in 1..m |-> docsOf[q.sub[k]]]
           Eq1(f) == f = [i \in 0..n |->
                            IF i = 0 THEN filter
                            ELSE IF f[i-1] = {} THEN {}
                            ELSE Format!Meet(Format!FindTrigram(q.trigrams[i]), f[i-1])]
           byTrigram == CHOOSE f : Eq1(f)
           Eq2(f) == f = [i \in 0..m |->
                            IF i = 0 THEN byTrigram[n]
                            ELSE IF f[i-1] = {} THEN {}
                            ELSE answer[q.sub[i]][f[i-1]]]
           bySub == CHOOSE f : Eq2(f)
           g1 == [i \in 0..n |-> Narrow(ids, filter, M, i)]
           mid == g1[n]
           g2 == [i \in 0..m |-> Narrow(ids, mid, K, i)]
<1>1. /\ n \in Nat /\ M \in [1..n -> SUBSET ids] /\ filter \in FiltersOf(ids)
      /\ \A k \in 1..n : Format!FindTrigram(q.trigrams[k]) = M[k]
  BY WithFound DEF Format!Filters, FiltersOf
<1>2. m \in Nat /\ (\A k \in 1..m : q.sub[k] \in N) /\ K \in [1..m -> SUBSET ids] /\ n + m > 0
  <2>1. m \in Nat /\ (\A k \in 1..m : q.sub[k] \in N) /\ n + m > 0
    <3>1. q.sub \in Seq(N) /\ n + m > 0
      BY DEF Posed
    <3>2. PICK s : s = q.sub
      OBVIOUS
    <3>3. s \in Seq(N)
      BY <3>1, <3>2
    <3>4. Len(s) \in Nat /\ \A k \in 1..Len(s) : s[k] \in N
      BY <3>3, ElementOfSeq
    <3> QED BY <3>1, <3>2, <3>4
  <2>2. \A k \in 1..m : docsOf[q.sub[k]] \in SUBSET ids
    BY <2>1 DEF Answered
  <2> QED BY <2>1, <2>2
<1>3. Format!QueryAnd(q, filter, answer) = bySub[m]
  BY DEF Format!QueryAnd
<1> HIDE DEF ids, n, m, M, K
<1>4. ASSUME NEW i \in 1..n
      PROVE  /\ g1[i-1] \in FiltersOf(ids)
             /\ g1[i] = IF g1[i-1] = {} THEN {} ELSE Format!Meet(Format!FindTrigram(q.trigrams[i]), g1[i-1])
  <2>1. i - 1 \in 0..n /\ i \in 0..n
    BY <1>1
  <2>2. g1[i-1] = Narrow(ids, filter, M, i - 1) /\ g1[i] = Narrow(ids, filter, M, i)
    BY <2>1
  <2>3. g1[i-1] \in FiltersOf(ids) /\ g1[i] = M[i] \cap All(ids, g1[i-1])
    <3>1. \A S \in SUBSET ids : S # Nil
      BY DEF ids
    <3>2. /\ Narrow(ids, filter, M, i - 1) \in FiltersOf(ids)
          /\ Narrow(ids, filter, M, i) = M[i] \cap All(ids, Narrow(ids, filter, M, i - 1))
      BY <1>1, <3>1, NarrowRound
    <3> QED BY <2>2, <3>2
  <2>4. Format!FindTrigram(q.trigrams[i]) = M[i] /\ M[i] \in SUBSET ids
    BY <1>1
  <2>5. {} # Nil
    OBVIOUS
  <2> HIDE DEF g1
  <2> QED BY <2>3, <2>4, <2>5 DEF All, Format!Meet
<1>5. g1[0] = filter
  BY <1>1 DEF Narrow
<1>6. Eq1(g1)
  <2>1. DOMAIN g1 = 0..n /\ g1 = [i \in 0..n |-> g1[i]]
    OBVIOUS
  <2>2. \A i \in 0..n : i # 0 => i \in 1..n
    BY <1>1
  <2> HIDE DEF g1
  <2> QED BY <1>4, <1>5, <2>1, <2>2
<1>7. Eq1(byTrigram)
  <2> HIDE DEF Eq1, g1
  <2> QED BY <1>6
<1>8. byTrigram[n] = mid
  <2> HIDE DEF byTrigram, g1
  <2>1. byTrigram[0] = g1[0]
    BY <1>1, <1>5, <1>7
  <2>2. ASSUME NEW i \in 1..n, byTrigram[i-1] = g1[i-1] PROVE byTrigram[i] = g1[i]
    <3>1. byTrigram[i] = IF byTrigram[i-1] = {} THEN {}
                         ELSE Format!Meet(Format!FindTrigram(q.trigrams[i]), byTrigram[i-1])
      <4>1. i \in 0..n /\ i # 0
        BY <1>1
      <4> QED BY <1>7, <4>1
    <3> QED BY <1>4, <2>2, <3>1
  <2> HIDE DEF Eq1
  <2>3. \A i \in 0..n : byTrigram[i] = g1[i]
    <3>1. InStep(byTrigram, g1, n)
      BY <2>1, <2>2 DEF InStep
    <3> QED BY <1>1, <3>1, SameLoop
  <2> QED BY <1>1, <2>3
<1> HIDE DEF byTrigram
<1>9. mid \in FiltersOf(ids) /\ All(ids, mid) = {id \in All(ids, filter) : \A k \in 1..n : id \in M[k]}
      /\ (n > 0 => mid # Nil)
  <2>1. CASE n = 0
    BY <1>1, <2>1 DEF Narrow
  <2>2. CASE n # 0
    <3>1. mid = {id \in All(ids, filter) : \A k \in 1..n : id \in M[k]}
      BY <1>1, <2>2 DEF Narrow
    <3>2. All(ids, filter) \in SUBSET ids
      BY <1>1, AllIds
    <3> HIDE DEF mid
    <3>3. mid \in SUBSET ids /\ mid # Nil
      BY <3>1, <3>2 DEF ids
    <3> QED BY <3>1, <3>3 DEF All, FiltersOf
  <2> QED BY <2>1, <2>2
<1> HIDE DEF mid, g1
<1>10. ASSUME NEW i \in 1..m
       PROVE  /\ g2[i-1] \in FiltersOf(ids)
              /\ g2[i] = IF g2[i-1] = {} THEN {} ELSE answer[q.sub[i]][g2[i-1]]
  <2>1. i - 1 \in 0..m /\ i \in 0..m
    BY <1>2
  <2>2. g2[i-1] = Narrow(ids, mid, K, i - 1) /\ g2[i] = Narrow(ids, mid, K, i)
    BY <2>1
  <2>3. g2[i-1] \in FiltersOf(ids) /\ g2[i] = K[i] \cap All(ids, g2[i-1])
    <3>1. \A S \in SUBSET ids : S # Nil
      BY DEF ids
    <3> HIDE DEF g2
    <3> QED BY <1>2, <1>9, <2>2, <3>1, NarrowRound
  <2>4. K[i] = docsOf[q.sub[i]] /\ q.sub[i] \in N
    BY <1>2 DEF K
  <2>5. {} # Nil
    OBVIOUS
  <2> HIDE DEF g2
  <2>6. answer[q.sub[i]][g2[i-1]] = docsOf[q.sub[i]] \cap All(ids, g2[i-1])
    BY <2>3, <2>4 DEF Answered, ids
  <2>7. g2[i-1] = {} => All(ids, g2[i-1]) = {}
    BY <2>5 DEF All
  <2> QED BY <2>3, <2>4, <2>6, <2>7
<1>11. g2[0] = mid
  BY <1>2 DEF Narrow
<1>12. Eq2(g2)
  <2>1. DOMAIN g2 = 0..m /\ g2 = [i \in 0..m |-> g2[i]]
    OBVIOUS
  <2>2. \A i \in 0..m : i # 0 => i \in 1..m
    BY <1>2
  <2> HIDE DEF g2
  <2> QED BY <1>8, <1>10, <1>11, <2>1, <2>2
<1>13. Eq2(bySub)
  <2> HIDE DEF Eq2, g2
  <2> QED BY <1>12
<1>14. bySub[m] = g2[m]
  <2> HIDE DEF bySub, g2
  <2>1. bySub[0] = g2[0]
    BY <1>2, <1>8, <1>11, <1>13
  <2>2. ASSUME NEW i \in 1..m, bySub[i-1] = g2[i-1] PROVE bySub[i] = g2[i]
    <3>1. bySub[i] = IF bySub[i-1] = {} THEN {} ELSE answer[q.sub[i]][bySub[i-1]]
      <4>1. i \in 0..m /\ i # 0
        BY <1>2
      <4> QED BY <1>13, <4>1
    <3> QED BY <1>10, <2>2, <3>1
  <2> HIDE DEF Eq2
  <2>3. \A i \in 0..m : bySub[i] = g2[i]
    <3>1. InStep(bySub, g2, m)
      BY <2>1, <2>2 DEF InStep
    <3>2. m \in Nat
      BY <1>2
    <3> QED BY <3>1, <3>2, SameLoop
  <2> QED BY <1>2, <2>3
<1>15. g2[m] = {id \in All(ids, mid) : \A k \in 1..m : id \in K[k]}
  <2>1. CASE m = 0
    <3>1. g2[m] = mid /\ 1..m = {} /\ mid # Nil
      BY <1>1, <1>2, <1>9, <1>11, <2>1
    <3> QED BY <3>1 DEF All
  <2>2. CASE m # 0
    BY <1>2, <2>2 DEF Narrow
  <2> QED BY <2>1, <2>2
<1> HIDE DEF g2, bySub
<1>16. \A id \in ids : \A k \in 1..n : id \in M[k] <=> q.trigrams[k] \in Format!TrigramsOf(id)
  BY DEF M, With, ids, n
<1>17. \A k \in 1..m : K[k] = docsOf[q.sub[k]]
  BY DEF K
<1>18. All(ids, filter) \in SUBSET ids
  BY <1>1, AllIds
<1>19. {id \in All(ids, mid) : \A k \in 1..m : id \in K[k]} =
         {id \in All(ids, filter) : /\ \A k \in 1..n : q.trigrams[k] \in Format!TrigramsOf(id)
                                    /\ \A k \in 1..m : id \in docsOf[q.sub[k]]}
  BY <1>9, <1>16, <1>17, <1>18
<1> QED BY <1>3, <1>14, <1>15, <1>19 DEF ids, n, m

\* The documents a subquery list is about, one set for each.
Bodies(q, docsOf) == [k \in 1..Len(q.sub) |-> docsOf[q.sub[k]]]

LEMMA BodiesTyped ==
  ASSUME NEW q, NEW N, Posed(q, N), NEW answer, NEW ids, NEW docsOf, Answered(answer, N, ids, docsOf)
  PROVE  /\ Len(q.sub) \in Nat /\ Bodies(q, docsOf) \in [1..Len(q.sub) -> SUBSET ids]
         /\ \A k \in 1..Len(q.sub) : q.sub[k] \in N /\ Bodies(q, docsOf)[k] = docsOf[q.sub[k]]
<1>1. PICK s : s = q.sub
  OBVIOUS
<1>2. s \in Seq(N)
  BY <1>1 DEF Posed
<1>3. Len(s) \in Nat /\ \A k \in 1..Len(s) : s[k] \in N
  BY <1>2, ElementOfSeq
<1>4. \A k \in 1..Len(s) : docsOf[s[k]] \in SUBSET ids
  BY <1>3 DEF Answered
<1> QED BY <1>1, <1>3, <1>4 DEF Bodies

LEMMA GatherTyped ==
  ASSUME NEW ids, NEW n \in Nat, NEW M \in [1..n -> SUBSET ids], NEW start \in FiltersOf(ids),
         \A S \in SUBSET ids : S # Nil
  PROVE  /\ Gather(start, M, n) \in FiltersOf(ids)
         /\ n > 0 \/ start # Nil =>
              Gather(start, M, n) = {id \in ids : (start # Nil /\ id \in start) \/ \E k \in 1..n : id \in M[k]}
<1>1. PICK S : S = {id \in ids : (start # Nil /\ id \in start) \/ \E k \in 1..n : id \in M[k]}
  OBVIOUS
<1>2. S \in SUBSET ids /\ S \in FiltersOf(ids)
  BY <1>1 DEF FiltersOf
<1>3. start = Nil \/ start \in SUBSET ids
  BY DEF FiltersOf
<1>4. CASE n = 0
  <2>1. Gather(start, M, n) = start
    BY <1>4 DEF Gather
  <2>2. start # Nil => S = start
    BY <1>1, <1>3, <1>4
  <2> QED BY <1>1, <1>4, <2>1, <2>2
<1>5. CASE n # 0
  <2>1. Gather(start, M, n) = (IF start = Nil THEN {} ELSE start) \cup (UNION {M[k] : k \in 1..n})
    BY <1>5 DEF Gather
  <2>2. ASSUME NEW x PROVE x \in UNION {M[k] : k \in 1..n} <=> \E k \in 1..n : x \in M[k]
    OBVIOUS
  <2>3. ASSUME NEW x PROVE x \in S <=> x \in (IF start = Nil THEN {} ELSE start) \cup (UNION {M[k] : k \in 1..n})
    <3>1. \A k \in 1..n : M[k] \in SUBSET ids
      OBVIOUS
    <3> QED BY <1>1, <1>3, <2>2, <3>1
  <2>4. Gather(start, M, n) = S
    BY <2>1, <2>3
  <2> QED BY <1>1, <1>2, <2>4
<1> QED BY <1>4, <1>5

LEMMA OrAllAnswered ==
  ASSUME Format!PostingsExact, shard # Nil, \A S \in SUBSET Format!DocIds : S # Nil,
         NEW q, NEW N, Posed(q, N), NEW answer, NEW docsOf, Answered(answer, N, Format!DocIds, docsOf)
  PROVE  Format!QueryOrAll(q, answer) =
           {id \in Format!DocIds :
              \/ \E k \in 1..Len(q.trigrams) : q.trigrams[k] \in Format!TrigramsOf(id)
              \/ \E k \in 1..Len(q.sub) : id \in docsOf[q.sub[k]]}
<1> DEFINE ids == Format!DocIds
           n == Len(q.trigrams)
           m == Len(q.sub)
           M == With(q)
           K == Bodies(q, docsOf)
           Eq1(f) == f = [i \in 0..m |->
                            IF i = 0 THEN Nil ELSE Format!Join(f[i-1], answer[q.sub[i]][Nil])]
           bySub == CHOOSE f : Eq1(f)
           Eq2(f) == f = [i \in 0..n |->
                            IF i = 0 THEN bySub[m]
                            ELSE Format!Join(f[i-1], Format!FindTrigram(q.trigrams[i]))]
           byTrigram == CHOOSE f : Eq2(f)
           g1 == [i \in 0..m |-> Gather(Nil, K, i)]
           mid == g1[m]
           g2 == [i \in 0..n |-> Gather(mid, M, i)]
<1>1. /\ n \in Nat /\ M \in [1..n -> SUBSET ids] /\ Nil \in FiltersOf(ids)
      /\ \A k \in 1..n : Format!FindTrigram(q.trigrams[k]) = M[k]
  BY WithFound DEF FiltersOf
<1>2. /\ m \in Nat /\ K \in [1..m -> SUBSET ids] /\ n + m > 0
      /\ \A k \in 1..m : q.sub[k] \in N /\ K[k] = docsOf[q.sub[k]]
  <2>1. n + m > 0
    BY DEF Posed
  <2>2. /\ m \in Nat /\ K \in [1..m -> SUBSET ids]
        /\ \A k \in 1..m : q.sub[k] \in N /\ K[k] = docsOf[q.sub[k]]
    BY BodiesTyped
  <2> HIDE DEF n, m, K
  <2> QED BY <2>1, <2>2
<1>3. Format!QueryOrAll(q, answer) = byTrigram[n]
  BY DEF Format!QueryOrAll
<1>4. \A S \in SUBSET ids : S # Nil
  OBVIOUS
<1> HIDE DEF ids, n, m, M, K
<1>5. ASSUME NEW i \in 1..m PROVE g1[i] = Format!Join(g1[i-1], answer[q.sub[i]][Nil])
  <2>1. i - 1 \in 0..m /\ i \in 0..m
    BY <1>2
  <2>2. g1[i-1] = Gather(Nil, K, i - 1) /\ g1[i] = Gather(Nil, K, i)
    BY <2>1
  <2>3. g1[i] = Format!Join(g1[i-1], K[i])
    <3>1. PICK none : none = Nil
      OBVIOUS
    <3>2. none \in FiltersOf(ids) /\ m \in Nat /\ K \in [1..m -> SUBSET ids]
      BY <1>1, <1>2, <3>1
    <3>3. Gather(none, K, i) = Format!Join(Gather(none, K, i - 1), K[i])
      BY <1>4, <3>2, GatherRound
    <3> QED BY <2>2, <3>1, <3>3
  <2>4. answer[q.sub[i]][Nil] = K[i]
    <3>1. answer[q.sub[i]][Nil] = K[i] \cap All(ids, Nil)
      BY <1>1, <1>2 DEF Answered, ids
    <3>2. K[i] \in SUBSET ids
      BY <1>2
    <3> QED BY <3>1, <3>2 DEF All
  <2> QED BY <2>3, <2>4
<1>6. g1[0] = Nil
  BY <1>2 DEF Gather
<1>7. Eq1(g1)
  <2>1. DOMAIN g1 = 0..m /\ g1 = [i \in 0..m |-> g1[i]]
    OBVIOUS
  <2>2. \A i \in 0..m : i # 0 => i \in 1..m
    BY <1>2
  <2> HIDE DEF g1
  <2> QED BY <1>5, <1>6, <2>1, <2>2
<1>8. Eq1(bySub)
  <2> HIDE DEF Eq1, g1
  <2> QED BY <1>7
<1>9. bySub[m] = mid
  <2> HIDE DEF bySub, g1
  <2>1. bySub[0] = g1[0]
    BY <1>2, <1>6, <1>8
  <2>2. ASSUME NEW i \in 1..m, bySub[i-1] = g1[i-1] PROVE bySub[i] = g1[i]
    <3>1. bySub[i] = Format!Join(bySub[i-1], answer[q.sub[i]][Nil])
      <4>1. i \in 0..m /\ i # 0
        BY <1>2
      <4> QED BY <1>8, <4>1
    <3> QED BY <1>5, <2>2, <3>1
  <2> HIDE DEF Eq1
  <2>3. \A i \in 0..m : bySub[i] = g1[i]
    <3>1. InStep(bySub, g1, m)
      BY <2>1, <2>2 DEF InStep
    <3>2. m \in Nat
      BY <1>2
    <3> QED BY <3>1, <3>2, SameLoop
  <2> QED BY <1>2, <2>3
<1> HIDE DEF bySub
<1>10. mid \in FiltersOf(ids) /\ (m > 0 => mid = {id \in ids : \E k \in 1..m : id \in K[k]})
       /\ (m = 0 => mid = Nil)
  <2>1. mid = Gather(Nil, K, m)
    BY <1>2
  <2> HIDE DEF mid
  <2>2. mid \in FiltersOf(ids)
        /\ (m > 0 => mid = {id \in ids : (Nil # Nil /\ id \in Nil) \/ \E k \in 1..m : id \in K[k]})
    BY <1>1, <1>2, <1>4, <2>1, GatherTyped
  <2>3. m = 0 => mid = Nil
    BY <2>1 DEF Gather
  <2> QED BY <2>2, <2>3
<1> HIDE DEF mid, g1
<1>11. ASSUME NEW i \in 1..n PROVE g2[i] = Format!Join(g2[i-1], Format!FindTrigram(q.trigrams[i]))
  <2>1. i - 1 \in 0..n /\ i \in 0..n
    BY <1>1
  <2>2. g2[i-1] = Gather(mid, M, i - 1) /\ g2[i] = Gather(mid, M, i)
    BY <2>1
  <2> HIDE DEF g2
  <2>3. g2[i] = Format!Join(g2[i-1], M[i])
    BY <1>1, <1>4, <1>10, <2>2, GatherRound
  <2> QED BY <1>1, <2>3
<1>12. g2[0] = mid
  BY <1>1 DEF Gather
<1>13. Eq2(g2)
  <2>1. DOMAIN g2 = 0..n /\ g2 = [i \in 0..n |-> g2[i]]
    OBVIOUS
  <2>2. \A i \in 0..n : i # 0 => i \in 1..n
    BY <1>1
  <2> HIDE DEF g2
  <2> QED BY <1>9, <1>11, <1>12, <2>1, <2>2
<1>14. Eq2(byTrigram)
  <2> HIDE DEF Eq2, g2
  <2> QED BY <1>13
<1>15. byTrigram[n] = g2[n]
  <2> HIDE DEF byTrigram, g2
  <2>1. byTrigram[0] = g2[0]
    BY <1>1, <1>9, <1>12, <1>14
  <2>2. ASSUME NEW i \in 1..n, byTrigram[i-1] = g2[i-1] PROVE byTrigram[i] = g2[i]
    <3>1. byTrigram[i] = Format!Join(byTrigram[i-1], Format!FindTrigram(q.trigrams[i]))
      <4>1. i \in 0..n /\ i # 0
        BY <1>1
      <4> QED BY <1>14, <4>1
    <3> QED BY <1>11, <2>2, <3>1
  <2> HIDE DEF Eq2
  <2>3. \A i \in 0..n : byTrigram[i] = g2[i]
    <3>1. InStep(byTrigram, g2, n)
      BY <2>1, <2>2 DEF InStep
    <3> QED BY <1>1, <3>1, SameLoop
  <2> QED BY <1>1, <2>3
<1>16. g2[n] = {id \in ids : (mid # Nil /\ id \in mid) \/ \E k \in 1..n : id \in M[k]}
  <2>1. g2[n] = Gather(mid, M, n)
    BY <1>1
  <2>2. n > 0 \/ mid # Nil
    <3>1. CASE n > 0
      BY <3>1
    <3>2. CASE ~(n > 0)
      <4>1. m > 0
        BY <1>1, <1>2, <3>2
      <4>2. mid \in SUBSET ids
        BY <1>10, <4>1
      <4> QED BY <1>4, <4>2
    <3> QED BY <3>1, <3>2
  <2> HIDE DEF g2
  <2> QED BY <1>1, <1>4, <1>10, <2>1, <2>2, GatherTyped
<1> HIDE DEF g2, byTrigram
<1>17. \A id \in ids : (mid # Nil /\ id \in mid) <=> \E k \in 1..m : id \in docsOf[q.sub[k]]
  <2>1. CASE m = 0
    <3>1. 1..m = {} /\ mid = Nil
      BY <1>10, <2>1
    <3> QED BY <3>1
  <2>2. CASE m # 0
    <3>1. mid = {id \in ids : \E k \in 1..m : id \in K[k]}
      BY <1>2, <1>10, <2>2
    <3>2. mid # Nil
      BY <1>4, <3>1
    <3> QED BY <1>2, <3>1, <3>2
  <2> QED BY <2>1, <2>2
<1>18. \A id \in ids : \A k \in 1..n : id \in M[k] <=> q.trigrams[k] \in Format!TrigramsOf(id)
  BY DEF M, With, ids, n
<1>19. g2[n] = {id \in ids : \/ \E k \in 1..n : q.trigrams[k] \in Format!TrigramsOf(id)
                             \/ \E k \in 1..m : id \in docsOf[q.sub[k]]}
  BY <1>16, <1>17, <1>18
<1> QED BY <1>3, <1>15, <1>19 DEF ids, n, m

LEMMA OrAnswered ==
  ASSUME Format!PostingsExact, shard # Nil, \A S \in SUBSET Format!DocIds : S # Nil,
         NEW q, NEW N, Posed(q, N), NEW answer, NEW docsOf, Answered(answer, N, Format!DocIds, docsOf),
         NEW filter \in SUBSET Format!DocIds
  PROVE  Format!QueryOr(q, filter, answer) =
           {id \in filter :
              \/ \E k \in 1..Len(q.trigrams) : q.trigrams[k] \in Format!TrigramsOf(id)
              \/ \E k \in 1..Len(q.sub) : id \in docsOf[q.sub[k]]}
<1> DEFINE ids == Format!DocIds
           n == Len(q.trigrams)
           m == Len(q.sub)
           M == With(q)
           K == Bodies(q, docsOf)
           Eq1(f) == f = [i \in 0..m |->
                            IF i = 0 THEN filter ELSE f[i-1] \ answer[q.sub[i]][filter]]
           bySub == CHOOSE f : Eq1(f)
           Eq2(f) == f = [i \in 0..n |->
                            IF i = 0 THEN bySub[m]
                            ELSE f[i-1] \ Format!FindTrigram(q.trigrams[i])]
           notFound == CHOOSE f : Eq2(f)
           g1 == [i \in 0..m |-> Remain(filter, K, i)]
           mid == g1[m]
           g2 == [i \in 0..n |-> Remain(mid, M, i)]
<1>1. /\ n \in Nat /\ M \in [1..n -> SUBSET ids] /\ filter \in FiltersOf(ids) /\ filter # Nil
      /\ \A k \in 1..n : Format!FindTrigram(q.trigrams[k]) = M[k]
  BY WithFound DEF FiltersOf
<1>2. /\ m \in Nat /\ K \in [1..m -> SUBSET ids]
      /\ \A k \in 1..m : q.sub[k] \in N /\ K[k] = docsOf[q.sub[k]]
  BY BodiesTyped
<1>3. Format!QueryOr(q, filter, answer) = filter \ notFound[n]
  BY DEF Format!QueryOr
<1> HIDE DEF ids, n, m, M, K
<1>4. ASSUME NEW i \in 1..m PROVE g1[i] = g1[i-1] \ answer[q.sub[i]][filter]
  <2>1. i - 1 \in 0..m /\ i \in 0..m
    BY <1>2
  <2>2. g1[i-1] = Remain(filter, K, i - 1) /\ g1[i] = Remain(filter, K, i)
    BY <2>1
  <2>3. g1[i-1] \subseteq filter
    BY <2>2 DEF Remain
  <2>4. g1[i] = g1[i-1] \ K[i]
    BY <1>2, <2>2, RemainRound
  <2>5. answer[q.sub[i]][filter] = K[i] \cap filter
    <3>1. answer[q.sub[i]][filter] = K[i] \cap All(ids, filter)
      BY <1>1, <1>2 DEF Answered, ids
    <3> QED BY <1>1, <3>1 DEF All
  <2> HIDE DEF g1
  <2> QED BY <2>3, <2>4, <2>5
<1>5. g1[0] = filter
  BY <1>2 DEF Remain
<1>6. Eq1(g1)
  <2>1. DOMAIN g1 = 0..m /\ g1 = [i \in 0..m |-> g1[i]]
    OBVIOUS
  <2>2. \A i \in 0..m : i # 0 => i \in 1..m
    BY <1>2
  <2> HIDE DEF g1
  <2> QED BY <1>4, <1>5, <2>1, <2>2
<1>7. Eq1(bySub)
  <2> HIDE DEF Eq1, g1
  <2> QED BY <1>6
<1>8. bySub[m] = mid
  <2> HIDE DEF bySub, g1
  <2>1. bySub[0] = g1[0]
    BY <1>2, <1>5, <1>7
  <2>2. ASSUME NEW i \in 1..m, bySub[i-1] = g1[i-1] PROVE bySub[i] = g1[i]
    <3>1. bySub[i] = bySub[i-1] \ answer[q.sub[i]][filter]
      <4>1. i \in 0..m /\ i # 0
        BY <1>2
      <4> QED BY <1>7, <4>1
    <3> QED BY <1>4, <2>2, <3>1
  <2> HIDE DEF Eq1
  <2>3. \A i \in 0..m : bySub[i] = g1[i]
    <3>1. InStep(bySub, g1, m)
      BY <2>1, <2>2 DEF InStep
    <3>2. m \in Nat
      BY <1>2
    <3> QED BY <3>1, <3>2, SameLoop
  <2> QED BY <1>2, <2>3
<1> HIDE DEF bySub
<1>9. mid = {id \in filter : \A k \in 1..m : id \notin K[k]}
  BY <1>2 DEF Remain
<1> HIDE DEF mid, g1
<1>10. ASSUME NEW i \in 1..n PROVE g2[i] = g2[i-1] \ Format!FindTrigram(q.trigrams[i])
  <2>1. i - 1 \in 0..n /\ i \in 0..n
    BY <1>1
  <2>2. g2[i-1] = Remain(mid, M, i - 1) /\ g2[i] = Remain(mid, M, i)
    BY <2>1
  <2> HIDE DEF g2
  <2>3. g2[i] = g2[i-1] \ M[i]
    <3>1. n \in Nat
      BY <1>1
    <3> QED BY <2>2, <3>1, RemainRound
  <2> QED BY <1>1, <2>3
<1>11. g2[0] = mid
  BY <1>1 DEF Remain
<1>12. Eq2(g2)
  <2>1. DOMAIN g2 = 0..n /\ g2 = [i \in 0..n |-> g2[i]]
    OBVIOUS
  <2>2. \A i \in 0..n : i # 0 => i \in 1..n
    BY <1>1
  <2> HIDE DEF g2
  <2> QED BY <1>8, <1>10, <1>11, <2>1, <2>2
<1>13. Eq2(notFound)
  <2> HIDE DEF Eq2, g2
  <2> QED BY <1>12
<1>14. notFound[n] = g2[n]
  <2> HIDE DEF notFound, g2
  <2>1. notFound[0] = g2[0]
    BY <1>1, <1>8, <1>11, <1>13
  <2>2. ASSUME NEW i \in 1..n, notFound[i-1] = g2[i-1] PROVE notFound[i] = g2[i]
    <3>1. notFound[i] = notFound[i-1] \ Format!FindTrigram(q.trigrams[i])
      <4>1. i \in 0..n /\ i # 0
        BY <1>1
      <4> QED BY <1>13, <4>1
    <3> QED BY <1>10, <2>2, <3>1
  <2> HIDE DEF Eq2
  <2>3. \A i \in 0..n : notFound[i] = g2[i]
    <3>1. InStep(notFound, g2, n)
      BY <2>1, <2>2 DEF InStep
    <3> QED BY <1>1, <3>1, SameLoop
  <2> QED BY <1>1, <2>3
<1>15. g2[n] = {id \in mid : \A k \in 1..n : id \notin M[k]}
  BY <1>1 DEF Remain
<1> HIDE DEF g2, notFound
<1>16. \A id \in filter : \A k \in 1..n : id \in M[k] <=> q.trigrams[k] \in Format!TrigramsOf(id)
  BY DEF M, With, ids, n
<1>17. filter \ g2[n] = {id \in filter : \/ \E k \in 1..n : q.trigrams[k] \in Format!TrigramsOf(id)
                                         \/ \E k \in 1..m : id \in docsOf[q.sub[k]]}
  BY <1>2, <1>9, <1>15, <1>16
<1> QED BY <1>3, <1>14, <1>17 DEF n, m

\* A query nested n deep is an "and" or an "or" with subqueries one less deep.
LEMMA NestedAsked ==
  ASSUME Format!ShardFormatAssumption, NEW n \in 1..Len(Queries), NEW q \in Format!Nested(n)
  PROVE  Posed(q, Format!Nested(n - 1)) /\ q.op \in {"and", "or"}
<1>1. PICK m \in 1..n : q \in Queries[m]
  BY DEF Format!Nested
<1>2. m \in 1..Len(Queries) /\ Len(Queries) \in Nat
  BY DEF Format!ShardFormatAssumption
<1>3. /\ q.op \in {"and", "or"} /\ q.trigrams \in Seq(Format!Trigrams)
      /\ q.sub \in Seq(Format!Nested(m - 1)) /\ Len(q.trigrams) + Len(q.sub) > 0
  BY <1>1, <1>2 DEF Format!ShardFormatAssumption
<1>4. Format!Nested(m - 1) \subseteq Format!Nested(n - 1)
  <2>1. 1..m-1 \subseteq 1..n-1
    BY <1>2
  <2> QED BY <2>1 DEF Format!Nested
<1>5. q.sub \in Seq(Format!Nested(n - 1))
  <2>1. PICK s, A, B : s = q.sub /\ A = Format!Nested(m - 1) /\ B = Format!Nested(n - 1)
    OBVIOUS
  <2>2. PICK k : k = Len(s)
    OBVIOUS
  <2>3. s \in Seq(A) /\ A \subseteq B
    BY <1>3, <1>4, <2>1
  <2>4. k \in Nat /\ s \in [1..k -> A]
    BY <2>2, <2>3
  <2>5. s \in [1..k -> B]
    BY <2>3, <2>4
  <2>6. s \in Seq(B)
    BY <2>4, <2>5, SeqDef
  <2> QED BY <2>1, <2>6
<1> QED BY <1>3, <1>5 DEF Posed

\* One level of About, of the level below.
AboutOne(q, below) ==
  {id \in Format!DocIds :
     IF q.op = "and"
     THEN /\ Format!Range(q.trigrams) \subseteq Format!TrigramsOf(id)
          /\ \A s \in Format!Range(q.sub) : id \in below[s]
     ELSE \/ Format!Range(q.trigrams) \cap Format!TrigramsOf(id) # {}
          \/ \E s \in Format!Range(q.sub) : id \in below[s]}

AboutLevels(about) ==
  /\ \A n \in 0..Len(Queries) : about[n] \in [Format!Nested(n) -> SUBSET Format!DocIds]
  /\ \A n \in 1..Len(Queries) : \A q \in Format!Nested(n) : about[n][q] = AboutOne(q, about[n-1])

LEMMA NothingNested == Format!Nested(0) = {}
<1>1. 1..0 = {}
  OBVIOUS
<1> QED BY <1>1 DEF Format!Nested

LEMMA AboutLoop ==
  ASSUME Format!ShardFormatAssumption
  PROVE  \E about : AboutLevels(about) /\ Format!About = about[Len(Queries)]
<1> DEFINE L == Len(Queries)
           ids == Format!DocIds
           One(n, below) == [q \in Format!Nested(n) |-> AboutOne(q, below)]
           Eq(f) == f = [n \in 0..L |-> One(n, f[n-1])]
           about == CHOOSE f : Eq(f)
           S == UNION {[Format!Nested(d) -> SUBSET ids] : d \in 0..L}
           base == [q \in Format!Nested(0) |-> {}]
           step == [n \in 1..L |-> [a \in S |-> One(n, a)]]
<1>1. L \in Nat
  BY DEF Format!ShardFormatAssumption
<1>2. \A q, a : AboutOne(q, a) \in SUBSET ids
  BY DEF AboutOne
<1>3. Format!About = about[L]
  BY DEF Format!About, AboutOne
<1> HIDE DEF L, ids
<1>4. base \in S
  <2>1. base \in [Format!Nested(0) -> SUBSET ids] /\ 0 \in 0..L
    BY <1>1
  <2> QED BY <2>1
<1>5. step \in [1..L -> [S -> S]]
  <2>1. ASSUME NEW n \in 1..L, NEW a \in S PROVE One(n, a) \in S
    <3>1. One(n, a) \in [Format!Nested(n) -> SUBSET ids] /\ n \in 0..L
      BY <1>1, <1>2
    <3> QED BY <3>1
  <2> HIDE DEF S, One
  <2> QED BY <2>1
<1> HIDE DEF S
<1>6. PICK g : Run(S, base, step, L, g)
  <2> HIDE DEF step, base
  <2> QED BY <1>1, <1>4, <1>5, LoopExists
<1>7. Eq(g)
  <2>1. ASSUME NEW n \in 1..L PROVE g[n] = One(n, g[n-1])
    <3>1. n - 1 \in 0..L /\ g[n-1] \in S /\ g[n] = step[n][g[n-1]]
      <4> HIDE DEF step
      <4> QED BY <1>1, <1>6 DEF Run
    <3> HIDE DEF One
    <3> QED BY <3>1
  <2>2. g[0] = One(0, g[0-1])
    <3>1. g[0] = base
      BY <1>6 DEF Run
    <3> QED BY <3>1, NothingNested
  <2>3. g \in [0..L -> S]
    BY <1>6 DEF Run
  <2>4. \A n \in 0..L : n = 0 \/ n \in 1..L
    BY <1>1
  <2> HIDE DEF One
  <2> QED BY <2>1, <2>2, <2>3, <2>4
<1>8. Eq(about)
  <2> HIDE DEF Eq
  <2> QED BY <1>7
<1> HIDE DEF about
<1>9. \A n \in 0..L : about[n] = One(n, about[n-1])
  <2> HIDE DEF One
  <2> QED BY <1>8
<1>10. ASSUME NEW n \in 0..L
       PROVE  /\ about[n] \in [Format!Nested(n) -> SUBSET ids]
              /\ \A q \in Format!Nested(n) : about[n][q] = AboutOne(q, about[n-1])
  <2>1. about[n] = One(n, about[n-1])
    BY <1>9
  <2> QED BY <1>2, <2>1
<1>11. \A n \in 1..L : n \in 0..L
  BY <1>1
<1>12. AboutLevels(about)
  BY <1>10, <1>11 DEF AboutLevels, L, ids
<1> QED BY <1>3, <1>12 DEF L

\* One level of PostingQuery, of the level below.
AnswerOne(q, filter, below) ==
  IF q.op = "and" THEN Format!QueryAnd(q, filter, below)
  ELSE IF filter = Nil THEN Format!QueryOrAll(q, below)
  ELSE Format!QueryOr(q, filter, below)

LEMMA FilterIds ==
  ASSUME Format!ShardFormatAssumption, FormatInv
  PROVE  /\ \A S \in SUBSET Format!DocIds : S # Nil
         /\ Format!Filters = FiltersOf(Format!DocIds)
<1>1. Format!DocIds \subseteq 0..MaxFiles
  BY DEF FormatInv, DocsKept, Format!DocIds, Format!ShardFormatAssumption
<1>2. \A S \in SUBSET (0..MaxFiles) : S # Nil
  BY DEF Format!ShardFormatAssumption
<1> QED BY <1>1, <1>2 DEF Format!Filters, FiltersOf

LEMMA OneAnswered ==
  ASSUME Format!ShardFormatAssumption, FormatInv, shard # Nil,
         NEW q, NEW N, Posed(q, N), q.op \in {"and", "or"},
         NEW below, NEW docsOf, Answered(below, N, Format!DocIds, docsOf), NEW filter \in Format!Filters
  PROVE  AnswerOne(q, filter, below) = AboutOne(q, docsOf) \cap All(Format!DocIds, filter)
<1> DEFINE ids == Format!DocIds
<1>1. /\ Format!PostingsExact /\ \A S \in SUBSET ids : S # Nil
      /\ filter \in FiltersOf(ids)
  BY PostingsFound, FilterIds
<1>2. All(ids, filter) \in SUBSET ids
  BY <1>1, AllIds
<1>3. /\ Format!Range(q.trigrams) = {q.trigrams[k] : k \in 1..Len(q.trigrams)}
      /\ Format!Range(q.sub) = {q.sub[k] : k \in 1..Len(q.sub)}
  <2>1. PICK s, u : s = q.trigrams /\ u = q.sub
    OBVIOUS
  <2>2. s \in Seq(Format!Trigrams) /\ u \in Seq(N)
    BY <2>1 DEF Posed
  <2>3. DOMAIN s = 1..Len(s) /\ DOMAIN u = 1..Len(u)
    BY <2>2
  <2> QED BY <2>1, <2>3, FormatRange
<1>4. CASE q.op = "and"
  <2>1. AnswerOne(q, filter, below) =
           {id \in All(ids, filter) :
              /\ \A k \in 1..Len(q.trigrams) : q.trigrams[k] \in Format!TrigramsOf(id)
              /\ \A k \in 1..Len(q.sub) : id \in docsOf[q.sub[k]]}
    BY <1>1, <1>4, AndAnswered DEF AnswerOne
  <2>2. AboutOne(q, docsOf) =
          {id \in ids : /\ \A k \in 1..Len(q.trigrams) : q.trigrams[k] \in Format!TrigramsOf(id)
                        /\ \A k \in 1..Len(q.sub) : id \in docsOf[q.sub[k]]}
    BY <1>3, <1>4 DEF AboutOne
  <2> HIDE DEF ids
  <2> QED BY <1>2, <2>1, <2>2 DEF ids
<1>5. CASE q.op # "and"
  <2>1. AnswerOne(q, filter, below) =
           {id \in All(ids, filter) :
              \/ \E k \in 1..Len(q.trigrams) : q.trigrams[k] \in Format!TrigramsOf(id)
              \/ \E k \in 1..Len(q.sub) : id \in docsOf[q.sub[k]]}
    <3>1. CASE filter = Nil
      BY <1>1, <1>5, <3>1, OrAllAnswered DEF AnswerOne, All
    <3>2. CASE filter # Nil
      <4>1. filter \in SUBSET ids
        BY <1>1, <3>2 DEF FiltersOf
      <4> QED BY <1>1, <1>5, <3>2, <4>1, OrAnswered DEF AnswerOne, All
    <3> QED BY <3>1, <3>2
  <2>2. AboutOne(q, docsOf) =
          {id \in ids : \/ \E k \in 1..Len(q.trigrams) : q.trigrams[k] \in Format!TrigramsOf(id)
                        \/ \E k \in 1..Len(q.sub) : id \in docsOf[q.sub[k]]}
    BY <1>3, <1>5 DEF AboutOne
  <2> HIDE DEF ids
  <2> QED BY <1>2, <2>1, <2>2 DEF ids
<1> QED BY <1>4, <1>5

\* Every query, however deep, is answered with the documents it is about.
LEMMA AllAnswered ==
  ASSUME Format!ShardFormatAssumption, FormatInv, shard # Nil,
         NEW q \in Format!Nested(Len(Queries)), NEW filter \in Format!Filters
  PROVE  /\ Format!Answers[q][filter] = Format!About[q] \cap All(Format!DocIds, filter)
         /\ Format!About[q] \in SUBSET Format!DocIds
<1> DEFINE L == Len(Queries)
           ids == Format!DocIds
           Fs == Format!Filters
           Level(n, below) == [r \in Format!Nested(n) |-> [x \in Fs |-> AnswerOne(r, x, below)]]
           Eq(f) == f = [n \in 0..L |-> Level(n, f[n-1])]
           answers == CHOOSE f : Eq(f)
<1>1. PICK about : AboutLevels(about) /\ Format!About = about[L]
  BY AboutLoop
<1> DEFINE Right(n) == [r \in Format!Nested(n) |-> [x \in Fs |-> about[n][r] \cap All(ids, x)]]
           g == [n \in 0..L |-> Right(n)]
<1>2. L \in Nat
  BY DEF Format!ShardFormatAssumption
<1>3. Format!Answers = answers[L]
  BY DEF Format!Answers, AnswerOne
<1>4. Fs = FiltersOf(ids)
  BY FilterIds
<1>5. q \in Format!Nested(L) /\ filter \in Fs
  OBVIOUS
<1>6. ASSUME NEW n \in 1..L PROVE g[n] = Level(n, g[n-1])
  <2>1. n - 1 \in 0..L /\ n \in 0..L
    BY <1>2
  <2>2. g[n-1] = Right(n - 1) /\ g[n] = Right(n)
    BY <2>1
  <2>3. PICK below, docsOf : below = g[n-1] /\ docsOf = about[n-1]
    OBVIOUS
  <2>4. Answered(below, Format!Nested(n - 1), ids, docsOf)
    <3>1. docsOf \in [Format!Nested(n - 1) -> SUBSET ids]
      BY <1>1, <2>1, <2>3 DEF AboutLevels
    <3>2. \A s \in Format!Nested(n - 1) : \A x \in FiltersOf(ids) : below[s][x] = docsOf[s] \cap All(ids, x)
      <4> HIDE DEF Fs, ids, g
      <4> QED BY <1>4, <2>2, <2>3
    <3> QED BY <3>1, <3>2 DEF Answered
  <2>5. ASSUME NEW r \in Format!Nested(n), NEW x \in Fs
        PROVE  AnswerOne(r, x, below) = about[n][r] \cap All(ids, x)
    <3>1. Posed(r, Format!Nested(n - 1)) /\ r.op \in {"and", "or"}
      BY NestedAsked
    <3>2. AnswerOne(r, x, below) = AboutOne(r, docsOf) \cap All(ids, x)
      BY <2>4, <3>1, OneAnswered
    <3>3. about[n][r] = AboutOne(r, docsOf)
      BY <1>1, <2>3 DEF AboutLevels
    <3> QED BY <3>2, <3>3
  <2> HIDE DEF Fs, ids, g
  <2>6. Right(n) = Level(n, below)
    BY <2>5
  <2> HIDE DEF Right, Level
  <2> QED BY <2>2, <2>3, <2>6
<1>7. g[0] = Level(0, g[0-1])
  <2>1. g[0] = Right(0)
    BY <1>2
  <2> HIDE DEF g
  <2> QED BY <2>1, NothingNested
<1>8. Eq(g)
  <2>1. \A n \in 0..L : n = 0 \/ n \in 1..L
    BY <1>2
  <2>2. g = [n \in 0..L |-> g[n]]
    OBVIOUS
  <2>3. \A n \in 0..L : g[n] = Level(n, g[n-1])
    <3> HIDE DEF g, Level, L
    <3> QED BY <1>6, <1>7, <2>1
  <2> HIDE DEF g, Level, L
  <2> QED BY <2>2, <2>3
<1>9. Eq(answers)
  <2> HIDE DEF Eq, g
  <2> QED BY <1>8
<1>10. answers[L] = g[L]
  <2> HIDE DEF answers, g, Level, L
  <2>1. \A n \in 0..L : answers[n] = Level(n, answers[n-1])
    BY <1>9
  <2>2. answers[0] = g[0]
    <3>1. answers[0] = Level(0, answers[0-1])
      BY <1>2, <2>1
    <3>2. Level(0, answers[0-1]) = Level(0, g[0-1])
      BY NothingNested DEF Level
    <3> QED BY <1>7, <3>1, <3>2
  <2>3. ASSUME NEW n \in 1..L, answers[n-1] = g[n-1] PROVE answers[n] = g[n]
    <3>1. n \in 0..L
      BY <1>2
    <3> QED BY <1>6, <2>1, <2>3, <3>1
  <2>4. InStep(answers, g, L)
    BY <2>2, <2>3 DEF InStep
  <2>5. \A n \in 0..L : answers[n] = g[n]
    BY <1>2, <2>4, SameLoop
  <2> QED BY <1>2, <2>5
<1>11. g[L] = Right(L) /\ about[L] \in [Format!Nested(L) -> SUBSET ids]
  BY <1>1, <1>2 DEF AboutLevels
<1> HIDE DEF answers, g, L, Fs, ids
<1>12. Right(L)[q][filter] = about[L][q] \cap All(ids, filter)
  BY <1>5
<1> HIDE DEF Right
<1>13. Format!Answers[q][filter] = about[L][q] \cap All(ids, filter)
  BY <1>3, <1>10, <1>11, <1>12
<1>14. about[L][q] \in SUBSET ids
  BY <1>5, <1>11
<1> QED BY <1>1, <1>13, <1>14 DEF ids

\* PostingQuery is right about every query and filter.
LEMMA QueriesAnswered ==
  ASSUME Format!ShardFormatAssumption, FormatInv
  PROVE  Format!QueriesExact
<1> SUFFICES ASSUME shard # Nil,
                    NEW q \in Format!Nested(Len(Queries)) \cup {Format!Nothing, Format!Everything},
                    NEW filter \in Format!Filters
             PROVE  LET got == Format!PostingQuery(q, filter)
                    IN  IF got = Nil THEN filter = Nil /\ Format!Satisfying(q) = Format!DocIds
                        ELSE got = Format!Satisfying(q)
                                     \cap (IF filter = Nil THEN Format!DocIds ELSE filter)
  BY DEF Format!QueriesExact
<1>1. /\ \A S \in SUBSET Format!DocIds : S # Nil
      /\ filter \in FiltersOf(Format!DocIds)
  BY FilterIds
<1>2. PICK right, got : right = Format!Satisfying(q) /\ got = Format!PostingQuery(q, filter)
  OBVIOUS
<1>3. PICK ids : ids = Format!DocIds
  OBVIOUS
<1>4. filter = Nil \/ filter \in SUBSET ids
  BY <1>1, <1>3 DEF FiltersOf
<1>5. Format!Everything # Format!Nothing
  <2>1. Format!Everything.op # Format!Nothing.op
    BY DEF Format!Everything, Format!Nothing
  <2> QED BY <2>1
<1>6. IF got = Nil THEN filter = Nil /\ right = ids
      ELSE got = right \cap (IF filter = Nil THEN ids ELSE filter)
  <2>1. CASE q = Format!Nothing
    <3>1. got = {} /\ right = {}
      BY <1>2, <1>5, <2>1 DEF Format!Satisfying, Format!PostingQuery
    <3>2. got # Nil
      BY <1>1, <3>1
    <3> QED BY <3>1, <3>2
  <2>2. CASE q = Format!Everything
    <3>1. got = filter /\ right = ids
      BY <1>2, <1>3, <1>5, <2>2 DEF Format!Satisfying, Format!PostingQuery
    <3> QED BY <1>4, <3>1
  <2>3. CASE q # Format!Nothing /\ q # Format!Everything
    <3>1. q \in Format!Nested(Len(Queries))
      BY <2>3
    <3>2. got = Format!Answers[q][filter] /\ right = Format!About[q]
      BY <1>2, <2>3 DEF Format!Satisfying, Format!PostingQuery
    <3>3. got = right \cap All(ids, filter) /\ right \in SUBSET ids
      BY <1>3, <3>1, <3>2, AllAnswered
    <3>4. got # Nil
      BY <1>1, <1>3, <3>3
    <3> QED BY <3>3, <3>4 DEF All
  <2> QED BY <2>1, <2>2, <2>3
<1> QED BY <1>2, <1>3, <1>6

THEOREM FormatCorrect ==
  ASSUME Format!ShardFormatAssumption PROVE Format!Spec => [](Format!ShardExact /\ ShardExact)
<1>1. Format!Init => FormatInv
  BY FormatInit
<1>2. FormatInv /\ [Format!Next]_Format!vars => FormatInv'
  BY FormatNext
<1>3. FormatInv => Format!ShardExact /\ ShardExact
  BY PostingsFound, QueriesAnswered, RangesFound DEF ShardExact, Format!ShardExact
<1> QED BY <1>1, <1>2, <1>3, PTL DEF Format!Spec
=============================================================================
