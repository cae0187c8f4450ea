------------------------- MODULE ReadCache -------------------------
(***************************************************************************)
(* The local cache of GitHub reads (github_read_cache.py).  GitHub stays   *)
(* the only source: a stored page is revalidated with its ETag on every    *)
(* read, and a 304 answer stands for the whole stored page, the link to    *)
(* the next one included.  Several processes read through one file, which  *)
(* anybody may delete.                                                     *)
(*                                                                         *)
(* An item is the number of the change that made it what it is.  The ETag  *)
(* of a page is its body: whether it covers the link is not relied on.     *)
(***************************************************************************)
EXTENDS Naturals, Sequences, SequencesExt

CONSTANTS
    Readers,      \* the processes that read
    PageSize,     \* per_page of the endpoint
    MaxChanges,   \* bound: the changes of the list
    MaxReads      \* bound: the reads

ASSUME CacheAssumption == PageSize \in Nat \ {0} /\ MaxChanges \in Nat

VARIABLES
    items,    \* GitHub: the list behind the endpoint
    changed,  \* the changes so far
    cached,   \* the file: of a page, what was stored
    reader,   \* of a reader: where its read is
    reads     \* the reads so far

cacheVars == <<items, changed, cached, reader, reads>>

NoPage == [body |-> <<>>, next |-> FALSE, stored |-> FALSE]
NotReading == [at |-> "idle", page |-> 0, entry |-> NoPage, got |-> <<>>, calm |-> TRUE]

PageNumbers == 1..(MaxChanges + 1)

CacheInit ==
    /\ items = <<>> /\ changed = 0
    /\ cached = [k \in PageNumbers |-> NoPage]
    /\ reader = [r \in Readers |-> NotReading] /\ reads = 0

LivePage(k) ==
    [body |-> SubSeq(items, (k - 1) * PageSize + 1, IF k * PageSize < Len(items) THEN k * PageSize ELSE Len(items)),
     next |-> k * PageSize < Len(items), stored |-> TRUE]

-----------------------------------------------------------------------------
(* GitHub. *)

\* The list changes under the reads that run.
ChangeTo(list) ==
    /\ changed < MaxChanges
    /\ items' = list /\ changed' = changed + 1
    /\ reader' = [r \in Readers |-> [reader[r] EXCEPT !.calm = FALSE]]
    /\ UNCHANGED <<cached, reads>>

AddLast == ChangeTo(Append(items, changed + 1))
AddFirst == ChangeTo(<<changed + 1>> \o items)
EditItem(i) == ChangeTo([items EXCEPT ![i] = changed + 1])
DropItem(i) == ChangeTo(RemoveAt(items, i))

-----------------------------------------------------------------------------
(* A paginated read. *)

ReaderAt(r, step) == reader[r].at = step
OnlyReader(r, state) == reader' = [reader EXCEPT ![r] = state]

StartRead(r) ==
    /\ ReaderAt(r, "idle") \/ ReaderAt(r, "done")
    /\ reads < MaxReads /\ reads' = reads + 1
    /\ OnlyReader(r, [NotReading EXCEPT !.at = "look", !.page = 1])
    /\ UNCHANGED <<items, changed, cached>>

LookUp(r) ==
    /\ ReaderAt(r, "look")
    /\ OnlyReader(r, [reader[r] EXCEPT !.at = "ask", !.entry = cached[reader[r].page]])
    /\ UNCHANGED <<items, changed, cached, reads>>

\* A full page without a stored link may have grown a following page without
\* changing itself.
NoneUnseen(entry) == FALSE
MayHaveUnseenNextPage(entry) == ~entry.next /\ Len(entry.body) >= PageSize

Conditional(entry) == entry.stored /\ ~MayHaveUnseenNextPage(entry)

\* The read goes on with the next page, or is complete.
Taken(r, entry) ==
    LET got == reader[r].got \o entry.body IN
    IF entry.next
    THEN [reader[r] EXCEPT !.at = "look", !.page = @ + 1, !.entry = NoPage, !.got = got]
    ELSE [reader[r] EXCEPT !.at = "done", !.entry = NoPage, !.got = got]

NotModified(r) ==
    /\ ReaderAt(r, "ask")
    /\ LET entry == reader[r].entry IN
        /\ Conditional(entry) /\ entry.body = LivePage(reader[r].page).body
        /\ OnlyReader(r, Taken(r, entry))
    /\ UNCHANGED <<items, changed, cached, reads>>

Modified(r) ==
    /\ ReaderAt(r, "ask")
    /\ LET page == LivePage(reader[r].page) IN
        /\ ~Conditional(reader[r].entry) \/ reader[r].entry.body # page.body
        /\ OnlyReader(r, [reader[r] EXCEPT !.at = "store", !.entry = page])
    /\ UNCHANGED <<items, changed, cached, reads>>

\* One entry, merged under the lock with what others wrote meanwhile.
Store(r) ==
    /\ ReaderAt(r, "store")
    /\ cached' = [cached EXCEPT ![reader[r].page] = reader[r].entry]
    /\ OnlyReader(r, Taken(r, reader[r].entry))
    /\ UNCHANGED <<items, changed, reads>>

\* A failed read, or a kill: the file keeps the entry it has.
AbandonRead(r) ==
    /\ reader[r].at \in {"ask", "store"}
    /\ OnlyReader(r, NotReading)
    /\ UNCHANGED <<items, changed, cached, reads>>

DeleteCache ==
    /\ \E k \in PageNumbers : cached[k].stored
    /\ cached' = [k \in PageNumbers |-> NoPage]
    /\ UNCHANGED <<items, changed, reader, reads>>

CacheNext ==
    \/ AddLast \/ AddFirst \/ DeleteCache
    \/ \E i \in DOMAIN items : EditItem(i) \/ DropItem(i)
    \/ \E r \in Readers :
        StartRead(r) \/ LookUp(r) \/ NotModified(r) \/ Modified(r) \/ Store(r) \/ AbandonRead(r)

CacheSpec == CacheInit /\ [][CacheNext]_cacheVars

-----------------------------------------------------------------------------
(* Properties. *)

\* A read during which the list did not change returns that list, whatever
\* slower readers, deletions of the file and earlier changes left in the cache:
\* no stored page and no stored link hides an item.
ReadIsLive == \A r \in Readers : ReaderAt(r, "done") /\ reader[r].calm => reader[r].got = items
====
