------------------------------ MODULE WebSearch ------------------------------
(***************************************************************************)
(* The search page of cmd/csearch-ui/main.go: ListRepoRefs, one goroutine  *)
(* with a SearchShard call for each ref, and the page once all are done.   *)
(* Indexers go on changing the manifest meanwhile.  The goroutines share   *)
(* data.ResultCount without a lock; an addition is a read and a write.     *)
(***************************************************************************)
EXTENDS MetadataReads, Sequences

CONSTANTS
  Found            \* sum of a shard -> for each document SearchShard answers
                   \* with, the number of its snippets

ASSUME FoundAssumption == Found \in [Sums -> Seq(Nat)]

VARIABLES
  page,            \* "idle", "search", "shown" or "error"; "none" when the client
                   \* is not the page but one that uses the other answers
  refs,            \* the refs listed
  go,              \* of each ref: "call", "doc", "read", "done", "failed"
  resp,            \* of each ref: the documents of the response still to add
  Results,         \* of each ref: the documents added
  local,           \* of each ref: ResultCount as its goroutine read it
  ResultCount

webVars == <<page, refs, go, resp, Results, local, ResultCount>>
vars == <<readVars, webVars>>

Of(f, ref, v) == [f EXCEPT ![ref] = v]

WebInit ==
  /\ ReadInit
  /\ page \in {"none", "idle"} /\ refs = {} /\ ResultCount = 0
  /\ go = <<>> /\ resp = <<>> /\ Results = <<>> /\ local = <<>>

\* The query parses and the refs are listed; errgroup starts the goroutines.
ListRefs ==
  /\ page = "idle"
  /\ page' = "search" /\ refs' = ListRepoRefs(manifest)
  /\ go' = [ref \in refs' |-> "call"]
  /\ resp' = [ref \in refs' |-> <<>>] /\ Results' = resp'
  /\ local' = [ref \in refs' |-> 0]
  /\ UNCHANGED <<readVars, ResultCount>>

\* expr.Parse or ListRepoRefs fails: an error page.
ListFails ==
  /\ page = "idle"
  /\ page' = "error"
  /\ UNCHANGED <<readVars, refs, go, resp, Results, local, ResultCount>>

\* SearchShard reads the shard with the sum the ref was listed with.
SearchOk(ref) ==
  /\ page = "search" /\ go[ref] = "call"
  /\ resp' = Of(resp, ref, Found[ref.shard.sum])
  /\ go' = Of(go, ref, "doc")
  /\ UNCHANGED <<readVars, page, refs, Results, local, ResultCount>>

\* The call fails, of itself or because another one failed and the context of
\* the group is cancelled.
SearchFails(ref) ==
  /\ page = "search" /\ go[ref] = "call"
  /\ go' = Of(go, ref, "failed")
  /\ UNCHANGED <<readVars, page, refs, resp, Results, local, ResultCount>>

\* One document is appended, and the count read to add to it.
AddDoc(ref) ==
  /\ page = "search" /\ go[ref] = "doc" /\ resp[ref] # <<>>
  /\ Results' = Of(Results, ref, Append(Results[ref], Head(resp[ref])))
  /\ local' = Of(local, ref, ResultCount)
  /\ go' = Of(go, ref, "read")
  /\ UNCHANGED <<readVars, page, refs, resp, ResultCount>>

\* Mutant: the document is counted with its snippets.
AddCountDoc(ref) ==
  /\ page = "search" /\ go[ref] = "read"
  /\ ResultCount' = local[ref] + Head(resp[ref]) + 1
  /\ resp' = Of(resp, ref, Tail(resp[ref]))
  /\ go' = Of(go, ref, "doc")
  /\ UNCHANGED <<readVars, page, refs, Results, local>>

\* The sum is written.
AddCount(ref) ==
  /\ page = "search" /\ go[ref] = "read"
  /\ ResultCount' = local[ref] + Head(resp[ref])
  /\ resp' = Of(resp, ref, Tail(resp[ref]))
  /\ go' = Of(go, ref, "doc")
  /\ UNCHANGED <<readVars, page, refs, Results, local>>

EndSearch(ref) ==
  /\ page = "search" /\ go[ref] = "doc" /\ resp[ref] = <<>>
  /\ go' = Of(go, ref, "done")
  /\ UNCHANGED <<readVars, page, refs, resp, Results, local, ResultCount>>

\* Mutant: the first goroutine that is done ends the wait.
WaitedOne == refs = {} \/ \E ref \in refs : go[ref] \in {"done", "failed"}

\* g.Wait returns when every goroutine has.
Waited == \A ref \in refs : go[ref] \in {"done", "failed"}

\* The page, or the error of the first search that failed.
Show ==
  /\ page = "search" /\ Waited
  /\ page' = IF \E ref \in refs : go[ref] = "failed" THEN "error" ELSE "shown"
  /\ UNCHANGED <<readVars, refs, go, resp, Results, local, ResultCount>>

Search(ref) ==
  SearchOk(ref) \/ SearchFails(ref) \/ AddDoc(ref) \/ AddCount(ref) \/ EndSearch(ref)

WebNext ==
  \/ \E q \in Requests : Change(q) /\ UNCHANGED webVars
  \/ page = "none" /\ Ask /\ UNCHANGED webVars
  \/ ListRefs \/ ListFails \/ Show
  \/ \E ref \in refs : Search(ref)

WebSpec == WebInit /\ [][WebNext]_vars

-----------------------------------------------------------------------------
Total(s) == LET sum[i \in 0..Len(s)] == IF i = 0 THEN 0 ELSE sum[i - 1] + s[i] IN sum[Len(s)]
SnippetsOf(rs) ==
  LET sum[S \in SUBSET rs] ==
        IF S = {} THEN 0
        ELSE LET r == CHOOSE x \in S : TRUE IN Total(Results[r]) + sum[S \ {r}]
  IN  sum[rs]

\* A page that is shown has for every ref that was listed all the documents
\* of its shard, and that shard is still the one the manifest describes.
PageComplete ==
  page = "shown" =>
    \A ref \in refs :
      /\ Results[ref] = Found[ref.shard.sum]
      /\ manifest.sum[ref.shard.id] = ref.shard.sum

\* Additions lost to the race never make the count larger than what is
\* shown, and where one repository alone has results it is right.
CountBounded ==
  page = "shown" =>
    /\ ResultCount <= SnippetsOf(refs)
    /\ Cardinality(refs) = 1 => ResultCount = SnippetsOf(refs)
==============================================================================
