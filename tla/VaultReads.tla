------------------------------ MODULE VaultReads ------------------------------
(***************************************************************************)
(* The reads behind the gatekeeper of AgentAccess: list_namespaces,        *)
(* search_memories in its two modes and aggregate_memories                 *)
(* (backend/services/memory_service.py, kemory/search/hybrid.py,           *)
(* ranking.py and aggregator.py).  A hybrid search is four statements, the *)
(* first on a connection of its own, and each sees what has been committed *)
(* by then; memories come, change and go in between.                       *)
(*                                                                         *)
(* A memory's number is its id.  A content is how close its embedding is   *)
(* to the query and whether it contains the query's words.  Recency,       *)
(* access counts and salience are equal for all memories here, and the     *)
(* fused rank, which the re-ranking replaces, is the 0 of a memory that    *)
(* has no similarity; the rows of a statement without ORDER BY come by     *)
(* their ids.  A list of results is the set of its docs: each carries the  *)
(* key it is sorted by.                                                    *)
(***************************************************************************)
EXTENDS AgentAccess, SequencesExt

CONSTANTS
    Mems,          \* memories, numbered by their ids
    Texts,         \* contents
    Sim,           \* similarity of each content to the query
    Worded,        \* the contents an ILIKE of the query finds
    Tier,          \* compression tier of each memory
    Foreign,       \* memories whose embedding has another dimension than the query's
    Candidates,    \* _DENSE_CANDIDATES and _SPARSE_CANDIDATES
    Requested,     \* the search requests callers make
    Extractions,   \* item lists the extraction can answer with
    MaxWrites      \* bound on the writes of a behaviour

\* MemorySearchRequest and MemoryAggregateRequest.
SearchRequest ==
    [mode : {"hybrid", "fts", "count", "sum", "list"}, offset : Nat, limit : Nat \ {0},
     tier : {"L1", "L2", None}, min : Nat]

ASSUME ReadsAssumption ==
    /\ Mems \subseteq Nat /\ IsFiniteSet(Mems)
    /\ Sim \in [Texts -> Nat \ {0}] /\ Worded \subseteq Texts
    /\ Tier \in [Mems -> {"L1", "L2"}] /\ Foreign \subseteq Mems /\ None \notin Texts /\ Texts # {}
    /\ Candidates \in Nat \ {0} /\ MaxWrites \in Nat
    /\ Requested \subseteq SearchRequest
    /\ \A items \in Extractions :
          items \in Seq([phrase : STRING, value : Int \cup {None}])

VARIABLES
    mem,     \* the memory rows and their vectors
    search,  \* the search
    writes   \* writes so far

readVars == <<mem, search, writes>>

\* vec is the content the embedding was made from, None without one; indexed
\* says whether kemory_memory_vectors has it; updated is updated_at.
Mem == [life : {"absent", "live", "gone"}, text : Texts, vec : Texts \cup {None},
        indexed : BOOLEAN, updated : Nat]
NoMem == [life |-> "absent", text |-> CHOOSE t \in Texts : TRUE, vec |-> None,
          indexed |-> FALSE, updated |-> 0]

\* A doc is what a pass read of a memory; its key is the similarity, 0 in
\* the sparse pass, or updated_at in a text search.
Doc == [id : Mems, text : Texts, key : Nat]
NoSearch ==
    [pc |-> "idle", q |-> None, hits |-> {}, dense |-> {}, page |-> {}, total |-> 0,
     items |-> <<>>, answer |-> None, steady |-> {}, seen |-> {}, blind |-> FALSE, cut |-> FALSE]

ReadsInit ==
    /\ Init
    /\ mem = [m \in Mems |-> NoMem]
    /\ search = NoSearch /\ writes = 0

Alive == {m \in Mems : mem[m].life = "live"}

-----------------------------------------------------------------------------
(* list_namespaces                                                         *)

MutAllowed(order, agent, ns) ==
    \E i \in DOMAIN order :
        LET b == rules[order[i]]
            q == [agent |-> agent, scope |-> "read", ns |-> ns]
        IN MatchesAgent(b, q) /\ MatchesScope(b, q) /\ MatchesNamespace(b, q) /\ b.action = "allow"

\* The rules are evaluated in the process: the agent's read rules in the
\* order of their priority, and the first that matches the namespace.
Allowed(order, agent, ns) ==
    LET q    == [agent |-> agent, scope |-> "read", ns |-> ns]
        hits == {i \in DOMAIN order : /\ MatchesAgent(rules[order[i]], q)
                                      /\ MatchesScope(rules[order[i]], q)
                                      /\ MatchesNamespace(rules[order[i]], q)}
    IN hits # {} /\ rules[order[Min(hits)]].action = "allow"

-----------------------------------------------------------------------------
(* Writers                                                                 *)

\* The history of the search: who stayed as it was, what was there, whether
\* the dense pass went without some candidates (blind), and the sparse (cut).
Observe(m, row) ==
    search' = IF search.pc = "idle" THEN search
              ELSE [search EXCEPT !.steady = @ \ {m},
                        !.seen = IF row.life = "live" THEN @ \cup {<<m, row.text>>} ELSE @]

\* One writer commits; what is written once the page is made cannot reach it
\* any more and is left out.
WriteMem(m, row) ==
    /\ load = "search" /\ writes < MaxWrites /\ search.pc \notin {"extract", "done"}
    /\ mem' = [mem EXCEPT ![m] = row] /\ writes' = writes + 1
    /\ Observe(m, row)
    /\ UNCHANGED vars

\* The vector store's upsert, in the savepoint create_memory opens for it:
\* without an embedding there is none, and a failure, as that of the test of
\* the embedding's dimension, leaves only the memory.
Upserted(m, row, saved) == [row EXCEPT !.indexed = saved /\ row.vec # None /\ m \notin Foreign]

\* create_memory: the encoder may be cold.
CreateMem(m, text, vec, saved) ==
    /\ mem[m].life = "absent"
    /\ WriteMem(m, Upserted(m, [life |-> "live", text |-> text, vec |-> vec, indexed |-> FALSE,
                                updated |-> writes], saved))

\* update_memory leaves the embedding and the vector row.
UpdateMem(m, text) ==
    /\ m \in Alive /\ mem[m].text # text
    /\ WriteMem(m, [mem[m] EXCEPT !.text = text, !.updated = writes])

\* delete_memory leaves the vector row.
DeleteMem(m) ==
    /\ m \in Alive
    /\ WriteMem(m, [mem[m] EXCEPT !.life = "gone"])

\* enrich_memory fills an embedding that is missing, and no vector row.
BackfillMem(m) ==
    /\ m \in Alive /\ mem[m].vec = None
    /\ WriteMem(m, [mem[m] EXCEPT !.vec = mem[m].text, !.updated = writes])

-----------------------------------------------------------------------------
(* hybrid_search                                                           *)

SearchStart(q) ==
    /\ load = "search" /\ search.pc = "idle" /\ q \in Requested
    /\ search' = [NoSearch EXCEPT !.pc = IF q.mode = "fts" THEN "count" ELSE "hits", !.q = q,
                     !.steady = Alive, !.seen = {<<m, mem[m].text>> : m \in Alive}]
    /\ UNCHANGED <<vars, mem, writes>>

\* The encoder fails: the dense pass ends with nothing, the memories without
\* a vector row included.
EncodeFails ==
    /\ search.pc = "hits"
    /\ search' = [search EXCEPT !.pc = "sparse", !.blind = TRUE]
    /\ UNCHANGED <<vars, mem, writes>>

\* At most n of the memories S, the closest first; ties in any order.
Nearest(S, n, T) ==
    /\ T \subseteq S /\ Cardinality(T) = IF Cardinality(S) < n THEN Cardinality(S) ELSE n
    /\ \A m \in T, k \in S \ T : Sim[mem[m].vec] >= Sim[mem[k].vec]

Indexed == {m \in Mems : mem[m].indexed}

\* The vector store answers from its own table, deleted memories included.
\* Its error leaves the pass without hits, to go on with the legacy rows.
VectorHits(T) ==
    /\ search.pc = "hits"
    /\ Nearest(Indexed, Candidates, T) \/ T = {}
    /\ search' = [search EXCEPT !.pc = "hydrate", !.hits = T, !.blind = T # Indexed]
    /\ UNCHANGED <<vars, mem, writes>>

DenseDoc(m) == [id |-> m, text |-> mem[m].text, key |-> Sim[mem[m].vec]]

MutHydrated == {DenseDoc(m) : m \in search.hits}

\* The rows of the hits that are still active.
Hydrated == {DenseDoc(m) : m \in search.hits \cap Alive}

DenseHydrate ==
    /\ search.pc = "hydrate"
    /\ search' = [search EXCEPT !.pc = "legacy", !.hits = {}, !.dense = Hydrated]
    /\ UNCHANGED <<vars, mem, writes>>

Legacy == {m \in Alive : mem[m].vec # None /\ ~mem[m].indexed}

Before(c, d)  == c.key > d.key \/ (c.key = d.key /\ c.id < d.id)
Rank(d, docs) == Cardinality({c \in docs : Before(c, d)})
Take(docs, n) == {d \in docs : Rank(d, docs) < n}

\* _dedupe_by_memory_id keeps the first of a memory's docs.
Deduped(docs) == {d \in docs : \A c \in docs : c.id = d.id => ~Before(c, d)}

\* Embedded memories that have no vector row, some of them if they are many,
\* and those scored that the query's embedding can be compared with.
DenseLegacy(T) ==
    LET all == Deduped(search.dense \cup {DenseDoc(m) : m \in T \ Foreign})
    IN /\ search.pc = "legacy"
       /\ T \subseteq Legacy
       /\ T = Legacy \/ Cardinality(T) = Candidates
       /\ search' = [search EXCEPT !.pc = "sparse", !.dense = Take(all, Candidates),
                        !.blind = @ \/ Cardinality(all) > Candidates \/ T # Legacy]
       /\ UNCHANGED <<vars, mem, writes>>

Found == {m \in Alive : mem[m].text \in Worded}

\* _rrf_merge_with_seen: a memory of both passes keeps the dense doc.
Merged(dense, sparse) == dense \cup {d \in sparse : d.id \notin {x.id : x \in dense}}

PageOf(docs, q) == Take(docs, q.offset + q.limit) \ Take(docs, q.offset)

\* The compression tier is tested on what the page holds.
OfTier(docs, q) == {d \in docs : q.tier \in {None, Tier[d.id]}}

\* So is the least score, which only the hybrid mode looks at.
Wanted(docs, q) == {d \in OfTier(docs, q) : d.key >= q.min}

\* The sparse pass, the fusion, the re-ranking and the page.
SparsePass(T) ==
    LET q      == search.q
        sparse == {[id |-> m, text |-> mem[m].text, key |-> 0] : m \in T}
        page   == PageOf(Deduped(Merged(search.dense, sparse)), q)
    IN /\ search.pc = "sparse"
       /\ T \subseteq Found
       /\ T = Found \/ Cardinality(T) = Candidates
       /\ search' = [search EXCEPT
                        !.pc = IF q.mode = "hybrid" \/ page = {} THEN "done" ELSE "extract",
                        !.dense = {}, !.page = IF q.mode = "hybrid" THEN Wanted(page, q) ELSE page,
                        !.total = IF q.mode = "hybrid" THEN Cardinality(Wanted(page, q)) ELSE 0,
                        !.cut = T # Found]
       /\ UNCHANGED <<vars, mem, writes>>

-----------------------------------------------------------------------------
(* search_memories, mode fts: two statements                               *)

FtsCount ==
    /\ search.pc = "count"
    /\ search' = [search EXCEPT !.pc = "page", !.total = Cardinality(Found)]
    /\ UNCHANGED <<vars, mem, writes>>

FtsPage ==
    LET q    == search.q
        docs == {[id |-> m, text |-> mem[m].text, key |-> mem[m].updated] : m \in Found}
        page == PageOf(docs, q)
    IN /\ search.pc = "page"
       /\ search' = [search EXCEPT !.pc = "done", !.page = OfTier(page, q),
                        !.total = @ + Cardinality(OfTier(page, q)) - Cardinality(page)]
       /\ UNCHANGED <<vars, mem, writes>>

-----------------------------------------------------------------------------
(* aggregate                                                               *)

AddPhrase(out, it) ==
    IF it.phrase = "" \/ it.phrase \in Range(out) THEN out ELSE Append(out, it.phrase)

\* The phrases extracted, each once, in the order of the items.
Distinct(items) == FoldLeft(AddPhrase, <<>>, items)

\* Values that are no numbers (None) are passed over.
AddValue(sum, it) == IF it.value = None THEN sum ELSE sum + it.value
Total(items) == FoldLeft(AddValue, 0, items)

PythonAggregate(type, items) ==
    CASE type = "count" -> Len(Distinct(items))
      [] type = "sum"   -> Total(items)
      [] type = "list"  -> Distinct(items)

\* The extraction answers with items, or fails, answers no JSON or names no
\* aggregation: then the answer is the fallback (None).
Extract(items) ==
    /\ search.pc = "extract"
    /\ search' = [search EXCEPT !.pc = "done", !.items = items,
                     !.answer = PythonAggregate(search.q.mode, items)]
    /\ UNCHANGED <<vars, mem, writes>>

ExtractFails ==
    /\ search.pc = "extract"
    /\ search' = [search EXCEPT !.pc = "done"]
    /\ UNCHANGED <<vars, mem, writes>>

-----------------------------------------------------------------------------

ReadsNext ==
    \/ Next /\ UNCHANGED readVars
    \/ \E m \in Mems, text \in Texts :
          \/ UpdateMem(m, text)
          \/ \E vec \in {text, None}, saved \in BOOLEAN : CreateMem(m, text, vec, saved)
    \/ \E m \in Mems : DeleteMem(m) \/ BackfillMem(m)
    \/ \E q \in Requested : SearchStart(q)
    \/ \E T \in SUBSET Mems : VectorHits(T) \/ DenseLegacy(T) \/ SparsePass(T)
    \/ EncodeFails \/ DenseHydrate \/ FtsCount \/ FtsPage \/ ExtractFails
    \/ search.pc = "extract" /\ \E items \in Extractions : Extract(items)

ReadsSpec == ReadsInit /\ [][ReadsNext]_<<vars, readVars>>

-----------------------------------------------------------------------------
(* Properties                                                              *)

IdsOf(docs) == {d.id : d \in docs}
Single(docs) == \A c, d \in docs : c.id = d.id => c = d

\* What the statements of a search have read so far: once a memory, with a
\* content it had, and every memory that stayed and that they look for.
SearchKnown ==
    /\ search.steady \subseteq Alive /\ search.hits \subseteq Indexed
    /\ search.pc # "idle" =>
          \A m \in Alive : <<m, mem[m].text>> \in search.seen
    /\ \A d \in search.dense \cup search.page : <<d.id, d.text>> \in search.seen
    /\ Single(search.dense) /\ Single(search.page)
    /\ search.pc = "legacy" => IdsOf(search.dense) \subseteq Indexed
    /\ ~search.blind =>
          /\ search.pc = "hydrate" => search.steady \cap Indexed \subseteq search.hits
          /\ search.pc = "legacy" => search.steady \cap Indexed \subseteq IdsOf(search.dense)
          /\ search.pc = "sparse" =>
                {m \in search.steady \ Foreign : mem[m].vec # None} \subseteq IdsOf(search.dense)

\* The types of both modules' variables, AgentAccess's exact counters, and
\* what the search knows.
ReadsInv ==
    /\ AccessInv
    /\ mem \in [Mems -> Mem]
    /\ \A m \in Indexed : mem[m].vec # None /\ mem[m].life # "absent" /\ m \notin Foreign
    /\ writes \in 0..MaxWrites
    /\ IF search.pc = "idle" THEN search = NoSearch ELSE search.q \in SearchRequest
    /\ search.blind \in BOOLEAN /\ search.cut \in BOOLEAN
    /\ search.pc \in {"count", "page"} => search.q.mode = "fts"
    /\ search.pc = "extract" => search.q.mode \in {"count", "sum", "list"} /\ search.page # {}
    /\ search.dense \cup search.page \subseteq Doc
    /\ SearchKnown

\* "namespaces the agent has no read rule for are omitted": while no rule
\* has a time window, which the listing does not look at, its own evaluation
\* of the rules agrees with evaluate for every agent and namespace, whatever
\* order the rows of equal priority come in.
ListingAgrees ==
    (\A r \in Active : rules[r].from = 0 /\ rules[r].till = 24) =>
        \A agent \in Agents, ns \in Namespaces, order \in Ordered(Active) :
            LET r == FirstMatch(order, [agent |-> agent, scope |-> "read", ns |-> ns, hour |-> 0])
            IN  Allowed(order, agent, ns) <=> (r # None /\ rules[r].action = "allow")

\* A search answers with what was there: each result is a memory that was
\* active, with that content, at some time during the search, none twice and
\* no more than asked for; and a first page that has room left and leaves none
\* out by its tier or score has every memory that stayed as it was and has the
\* query's words, unless the sparse pass had more of them than it takes, and,
\* if the mode has a dense pass, every one that has an embedding the query can
\* be compared with, unless the encoder or the vector store failed or that
\* pass had more than it takes.
SearchExact ==
    LET q    == search.q
        page == search.page
        dense(m) == q.mode # "fts" /\ ~search.blind /\ mem[m].vec # None /\ m \notin Foreign
    IN search.pc \in {"extract", "done"} =>
          /\ \A d \in page : <<d.id, d.text>> \in search.seen
          /\ Single(page) /\ Cardinality(page) <= q.limit
          /\ (/\ q.offset = 0 /\ Cardinality(page) < q.limit
              /\ q.tier = None /\ (q.mode = "hybrid" => q.min = 0)) =>
                \A m \in search.steady :
                    (mem[m].text \in Worded /\ ~search.cut) \/ dense(m) => m \in IdsOf(page)

\* "the part the LLM does badly and Python does perfectly": the value of an
\* aggregation is that of its items, however they repeat: the number of
\* different phrases, the sum of the numbers, or each phrase once in the
\* order of its first item; and no aggregation is made of an empty page.
AggregateExact ==
    LET items   == search.items
        phrases == {it.phrase : it \in Range(items)} \ {""}
        at(p)   == Min({k \in DOMAIN items : items[k].phrase = p})
        numbers == {k \in DOMAIN items : items[k].value # None}
    IN search.answer # None =>
          /\ search.page # {}
          /\ search.q.mode = "count" => search.answer = Cardinality(phrases)
          /\ search.q.mode = "sum" => search.answer = MapThenSumSet(LAMBDA k : items[k].value, numbers)
          /\ search.q.mode = "list" =>
                /\ Range(search.answer) = phrases /\ Len(search.answer) = Cardinality(phrases)
                /\ \A i, j \in DOMAIN search.answer :
                      i < j => at(search.answer[i]) < at(search.answer[j])
=============================================================================
