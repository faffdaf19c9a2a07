------------------------------- MODULE ToolCache -------------------------------
(***************************************************************************)
(* The cache of read results kept by the tool loop, with the calls that    *)
(* fill it and the writes that invalidate it.                              *)
(*                                                                         *)
(* Calls name files and directories by text.  A write drops the results    *)
(* that quote its path or the directory in its text, and all listings; it  *)
(* goes by the arguments of the model, which a PreToolUse hook may have    *)
(* replaced.  Shell commands, patches, subagents and the user change files *)
(* without telling the cache.                                              *)
(*                                                                         *)
(* A single read looks its result up and stores what it executed; reads of *)
(* a parallel batch are looked up first, executed together, and stored     *)
(* again one by one, also those that came from the cache.                  *)
(***************************************************************************)
EXTENDS Integers, Sequences, FiniteSets

CONSTANTS
    Files,        \* files of the workspace
    Names,        \* texts that name a file or a directory
    NoName,       \* the parent of a text without a slash
    Spells,       \* the files below a name; for the name of a file, just that file
    FileNames,    \* names that are names of files
    Parent,       \* the text before the last slash of a name
    NameOf,       \* the plain name of a file
    DirOf,        \* the plain name of its directory
    TTL,          \* lifetime of a result, per tool
    MaxEntries,   \* MAX_CACHE_ENTRIES
    MaxTime,      \* bound: the clock
    MaxWrites,    \* bound: writes per file
    MaxReads      \* bound: reads of a batch

ReadTools == {"fs_read", "fs_grep", "fs_glob"}

ASSUME ToolCacheAssumption ==
    /\ NoName \notin Names /\ FileNames \subseteq Names
    /\ Spells \in [Names -> SUBSET Files]
    /\ \A n \in FileNames : Cardinality(Spells[n]) = 1
    /\ Parent \in [Names -> Names \cup {NoName}]
    /\ NameOf \in [Files -> FileNames] /\ DirOf \in [Files -> Names]
    /\ \A f \in Files : Spells[NameOf[f]] = {f} /\ Parent[NameOf[f]] = DirOf[f]
    /\ TTL \in [ReadTools -> Nat] /\ MaxEntries \in Nat \ {0}
    /\ MaxTime \in Nat /\ MaxWrites \in Nat /\ MaxReads \in Nat

VARIABLES
    version,   \* per file: writes so far
    how,       \* per file: how each of its writes was made (history variable)
    cache,     \* ToolCache.entries
    pending,   \* results that are still to be stored
    now        \* the clock

files == <<version, how>>
cacheVars == <<files, cache, pending, now>>

\* Files are read, directories searched and listed.
Call == [tool : {"fs_read"}, name : FileNames]
        \cup [tool : {"fs_grep", "fs_glob"}, name : Names \ FileNames]

\* fresh: executed, and not taken from the cache.
Entry == [call : Call, content : [Files -> 0..MaxWrites], stored : 0..MaxTime]
Result == [call : Call, content : [Files -> 0..MaxWrites], fresh : BOOLEAN]

Write == [by : {"own", "redirected", "outside"}, name : Names \cup {NoName}]
Outside == [by |-> "outside", name |-> NoName]
Own(n, redirected) == [by |-> IF redirected THEN "redirected" ELSE "own", name |-> n]

CacheInit ==
    /\ version = [f \in Files |-> 0] /\ how = [f \in Files |-> <<>>]
    /\ cache = {} /\ pending = <<>> /\ now = 0

-----------------------------------------------------------------------------
(* Reads *)

Entries(call) == {e \in cache : e.call = call}

\* timestamp.elapsed() < ttl
Valid(e) == now - e.stored < TTL[e.call.tool]

Hits(call) == {e \in Entries(call) : Valid(e)}

Fetched(call) == [call |-> call, content |-> version, fresh |-> TRUE]
Again(e) == [call |-> e.call, content |-> e.content, fresh |-> FALSE]

\* execute_tool_call of a read that misses; a hit changes nothing.
Read(call) ==
    /\ pending = <<>>
    /\ Hits(call) = {}
    /\ cache' = cache \ Entries(call)
    /\ pending' = <<Fetched(call)>>
    /\ UNCHANGED <<files, now>>

\* The calls of a parallel batch; a hit passes through the same code as an
\* executed read and is stored again.
ReadBatch(calls) ==
    /\ pending = <<>> /\ Len(calls) > 1
    /\ pending' = [i \in DOMAIN calls |->
                     IF Hits(calls[i]) = {} THEN Fetched(calls[i])
                     ELSE Again(CHOOSE e \in Hits(calls[i]) : TRUE)]
    /\ cache' = {e \in cache : (\E i \in DOMAIN calls : e.call = calls[i]) => Valid(e)}
    /\ UNCHANGED <<files, now>>

Oldest(S) == {e \in S : \A o \in S : e.stored <= o.stored}

Evict(S) == IF Cardinality(S) > MaxEntries THEN {S \ {e} : e \in Oldest(S)} ELSE {S}

\* The result carries the time it is stored; failed reads are not stored.
StoreResult ==
    /\ pending # <<>>
    /\ LET r   == Head(pending)
           new == [call |-> r.call, content |-> r.content, stored |-> now]
       IN  \/ cache' \in Evict((cache \ Entries(r.call)) \cup {new})
           \/ r.fresh /\ UNCHANGED cache
    /\ pending' = Tail(pending)
    /\ UNCHANGED <<files, now>>

-----------------------------------------------------------------------------
(* Writes *)

IsListing(call) == call.tool = "fs_glob"

\* A mistake the checks of this definition must notice: Invalidated.
InvalidatedByPathOnly(n) == {e \in cache : IsListing(e.call) \/ e.call.name = n}

\* invalidate_path: listings, and results that quote the path or its directory.
Invalidated(n) == {e \in cache : IsListing(e.call) \/ e.call.name \in {n, Parent[n]}}

Written(f, w) ==
    /\ version[f] < MaxWrites
    /\ version' = [version EXCEPT ![f] = @ + 1]
    /\ how' = [how EXCEPT ![f] = Append(@, w)]

\* A write tool called with path n and executed with path m; the paths to
\* invalidate are taken from the call, and also when the tool fails.
WriteTool(n, m) ==
    /\ pending = <<>>
    /\ \/ \E f \in Spells[m] : Written(f, Own(n, m # n))
       \/ UNCHANGED files
    /\ cache' = cache \ Invalidated(n)
    /\ UNCHANGED <<pending, now>>

OutsideWrite(f) ==
    /\ Written(f, Outside)
    /\ UNCHANGED <<cache, pending, now>>

Tick ==
    /\ now < MaxTime
    /\ now' = now + 1
    /\ UNCHANGED <<files, cache, pending>>

Batches == UNION {[1..n -> Call] : n \in 2..MaxReads}

CacheNext ==
    \/ \E c \in Call : Read(c)
    \/ \E calls \in Batches : ReadBatch(calls)
    \/ StoreResult
    \/ \E n, m \in FileNames : WriteTool(n, m)
    \/ \E f \in Files : OutsideWrite(f)
    \/ Tick

CacheSpec == CacheInit /\ [][CacheNext]_cacheVars

-----------------------------------------------------------------------------
(* Properties *)

\* Types; the cache holds one result per call and no more than its limit.
CacheTypeOK ==
    /\ version \in [Files -> 0..MaxWrites]
    /\ how \in [Files -> Seq(Write)] /\ \A f \in Files : Len(how[f]) = version[f]
    /\ cache \subseteq Entry /\ pending \in Seq(Result)
    /\ \A e, o \in cache : e.call = o.call => e = o
    /\ Cardinality(cache) <= MaxEntries
    /\ now \in 0..MaxTime

\* A result in the cache is outdated only by writes from outside, by writes
\* that a hook redirected or that spell their path differently, or, for a
\* search, by writes further below the searched directory: after its own
\* plain write of a file the loop never answers a read of the file, a search
\* of its directory or a listing with what was there before.
OwnWritesSeen ==
    \A e \in cache : \A f \in Spells[e.call.name] : \A v \in (e.content[f] + 1)..version[f] :
        \/ how[f][v].by # "own" \/ how[f][v].name # NameOf[f]
        \/ ~IsListing(e.call) /\ e.call.name \notin {NameOf[f], DirOf[f]}
=============================================================================
