------------------------------ MODULE SourceRead ------------------------------
(***************************************************************************)
(* Batch sources, sources.py, and the watermark their reads are filtered   *)
(* with and set, watermark.py: the loads of one contract from a source     *)
(* that changes while it is read.                                          *)
(*                                                                         *)
(* A record of the source is a number, given in the order of arrival, with *)
(* a stamp: the values of the two columns a watermark may be made of.  The *)
(* connectors:                                                             *)
(*   rest       rest_api: pages asked for one after the other by the       *)
(*              driver, each with retries;                                 *)
(*   http_file  http_file and its formats: one request, with retries;      *)
(*   jdbc       Spark runs a query for every partition of the read when    *)
(*              the DataFrame is evaluated;                                *)
(*   table      table, sql and the Spark formats: one query of that kind;  *)
(*   files      files and object storage: the files are listed when the    *)
(*              source is resolved and opened when the DataFrame is.       *)
(***************************************************************************)
EXTENDS Integers, Sequences, FiniteSets

CONSTANTS
    Contracts,      \* the contracts a behaviour may be about
    MaxRecords,     \* bound on the records of the source
    Values,         \* the values in a stamp of two columns
    Matching,       \* the files whose names match source.read.file_regex
    Moves,          \* may a source change under a read that needs it still?
    MaxFaults,      \* bound on the faults of a behaviour
    Faults          \* of "transient", "permanent", "late_error", "state"

Null == 0           \* SQL's NULL; the other values are 1, 2, ...

IsContract(c) ==
    /\ c.kind \in {"rest", "http_file", "jdbc", "table", "files"}
    /\ c.paging \in {"none", "page", "offset", "cursor", "link_header"}
    /\ {c.size, c.maxPages, c.attempts, c.parts} \subseteq Nat \ {0}
    /\ {c.pageBytes, c.totalBytes, c.maxListed, c.initial} \subseteq Nat
    /\ {c.raw, c.push, c.newest, c.regex, c.snapshot} \subseteq BOOLEAN
    /\ c.columns \in 0 .. 2
    /\ c.kind # "rest" => c.paging = "none" /\ {c.pageBytes, c.totalBytes} = {0}
    /\ c.kind # "jdbc" => c.parts = 1
    /\ c.push => c.kind \in {"rest", "jdbc"}
    /\ c.snapshot => c.columns = 0
    /\ c.regex => c.kind = "files"

ASSUME ContractsAssumption == \A c \in Contracts : IsContract(c)
ASSUME BoundsAssumption == {MaxRecords, MaxFaults} \subseteq Nat /\ Values \subseteq Nat

VARIABLES
    contract,       \* the contract, with its connector
    stamps,         \* stamps[id]: the stamp of a record, a pair of values
    listing,        \* the records the source has now
    target,         \* the records stored in the target
    active,         \* snapshot_soft_delete: those of them that are active
    saved,          \* ctrl_ingestion_state.watermark_value
    read,           \* the load that is running
    faults          \* faults so far

vars == <<contract, stamps, listing, target, active, saved, read, faults>>

Idle == [pc |-> "idle"]
Records == 1 .. Len(stamps)

-----------------------------------------------------------------------------
(***************************************************************************)
(* Watermarks: <<>> is None, otherwise one value for every column.         *)
(***************************************************************************)
NoWatermark == <<>>

Watermark(id) == SubSeq(stamps[id], 1, contract.columns)

\* The order of the maximum of a struct: NULL comes before every value.
Below(u, v) == \E i \in DOMAIN u : u[i] < v[i] /\ \A j \in 1 .. i - 1 : u[j] = v[j]

\* apply_watermark's WHERE clause, true as SQL means it.
After(w, last) ==
    \E i \in DOMAIN w :
        /\ \A j \in 1 .. i - 1 : w[j] = last[j] /\ w[j] # Null
        /\ w[i] # Null /\ last[i] # Null /\ w[i] > last[i]

ApplyWatermark(ids, last) ==
    IF last = NoWatermark THEN ids ELSE {id \in ids : After(Watermark(id), last)}

\* MAX of one column is NULL when every value is; MAX of a struct never is.
ComputeWatermark(ids) ==
    LET ws == {Watermark(id) : id \in ids}
        max == CHOOSE w \in ws : \A v \in ws : ~Below(w, v)
    IN  IF contract.columns = 0 \/ ws = {} \/ max = <<Null>> THEN NoWatermark ELSE max

\* Faulty variant: the maximum is asked of the source, after the rows were read.
NewestListed(ids, last) == IF ids = {} THEN last ELSE ComputeWatermark(listing)

\* wm_current of a load: an empty batch leaves the watermark where it was.
CurrentWatermark(ids, last) == IF ids = {} THEN last ELSE ComputeWatermark(ids)

-----------------------------------------------------------------------------
(***************************************************************************)
(* What a request asks for.                                                *)
(***************************************************************************)

\* Faulty variant: only the first load has something to push down.
PushedInitial(last) == IF contract.push THEN contract.initial ELSE Null

\* The value pushed down to the source, Null for none: that of the previous
\* watermark (its NULL is the empty string, and pushes nothing down), else
\* source.incremental.initial_value.
PushedValue(last) ==
    IF ~contract.push THEN Null
    ELSE IF last # NoWatermark THEN last[1] ELSE contract.initial

\* The source's side of the pushdown, watermark_column > value.
Selected(value) == {id \in listing : value = Null \/ stamps[id][1] > value}

\* The records a request may reach, in the order the source lists them.
Position(ids, id) == Cardinality({k \in ids : IF contract.newest THEN k >= id ELSE k <= id})

Ordered(ids) ==
    [n \in 1 .. Cardinality(ids) |-> CHOOSE id \in ids : Position(ids, id) = n]

ByCursor == contract.paging \in {"cursor", "link_header"}
ByPosition == contract.kind = "rest" /\ contract.paging \in {"page", "offset"}

\* The first position of the page a request asks for.  A page number or an
\* offset counts records; a cursor or a next link names the last record
\* that was returned, and the source continues behind it.
Behind(last, id) == IF contract.newest THEN id < last ELSE id > last

Reply ==
    LET rest == Ordered({id \in Selected(read.value) :
                            ByCursor /\ read.cursor # Null => Behind(read.cursor, id)})
        from == IF ByPosition THEN read.pages * contract.size + 1 ELSE 1
        until == IF contract.paging = "none" THEN Len(rest)
                 ELSE IF from + contract.size - 1 < Len(rest) THEN from + contract.size - 1
                 ELSE Len(rest)
    IN  [records |-> SubSeq(rest, from, until), more |-> until < Len(rest)]

-----------------------------------------------------------------------------
(***************************************************************************)
(* The source changes on its own.                                          *)
(***************************************************************************)
Init ==
    /\ contract \in Contracts
    /\ stamps = <<>> /\ listing = {}
    /\ target = {} /\ active = {} /\ saved = NoWatermark
    /\ read = Idle
    /\ faults = 0

\* A load that is under way no longer sees one state of the source.
Disturbed == IF read = Idle THEN read ELSE [read EXCEPT !.still = FALSE]

\* Stamps grow in the order of arrival, as incremental loads require; a
\* record may also come with a NULL.  Unless Moves, the source holds still
\* where the code relies on it: a record that arrives must not belong to a
\* partition or to a half empty page that was read before, and pages counted
\* by position shift when a record before them disappears.
Splits ==
    \/ contract.parts > 1
    \/ ByPosition /\ (contract.size > 1 \/ contract.raw) /\ ~contract.newest

Arrive(stamp) ==
    LET new == SubSeq(stamp, 1, contract.columns) IN
    /\ Len(stamps) < MaxRecords
    /\ Moves \/ read = Idle \/ ~Splits
    /\ \/ \E i \in DOMAIN new : new[i] = Null
       \/ \A id \in Records : new # <<>> => Below(Watermark(id), new)
    /\ stamps' = Append(stamps, stamp)
    /\ listing' = listing \cup {Len(stamps) + 1}
    /\ read' = Disturbed
    /\ UNCHANGED <<contract, target, active, saved, faults>>

Vanish(id) ==
    /\ id \in listing
    /\ Moves \/ read = Idle \/ ~ByPosition
    /\ listing' = listing \ {id}
    /\ read' = Disturbed
    /\ UNCHANGED <<contract, stamps, target, active, saved, faults>>

sourceVars == <<contract, stamps, listing>>

-----------------------------------------------------------------------------
(***************************************************************************)
(* A load: ingest_plan resolves the source with the previous watermark,    *)
(* reads it, filters it, writes it and saves the new watermark.            *)
(***************************************************************************)
Fault(kind) == kind \in Faults /\ faults < MaxFaults /\ faults' = faults + 1

\* get_watermark: the state row, else the maximum in the target.
Previous(readable) ==
    IF readable /\ saved # NoWatermark THEN saved ELSE ComputeWatermark(target)

\* _apply_file_regex_filter: the files named are the ones listed now.
Named == IF contract.regex THEN listing \cap Matching ELSE listing

TooMany == contract.regex /\ contract.maxListed < Cardinality(listing)

NamingFails == contract.regex /\ (TooMany \/ Named = {})

\* A failed run saves the watermark it started with.
Fail ==
    /\ saved' = read.last
    /\ read' = Idle
    /\ UNCHANGED <<sourceVars, target, active>>

\* A source that has been resolved, with the value pushed down to it.
Resolved(last, value) ==
    [pc |-> "reading", last |-> last, value |-> value, pages |-> 0, attempt |-> 1, cursor |-> Null,
     todo |-> {}, files |-> {}, got |-> <<>>, start |-> Selected(value), still |-> TRUE]

RestRead(last) == Resolved(last, PushedValue(last))

\* The file is read as a whole: no page, no limit, nothing pushed down.
HttpFileRead(last) == Resolved(last, Null)

\* A query per partition: partition_column, its bounds and num_partitions.
JdbcRead(last) ==
    [Resolved(last, PushedValue(last)) EXCEPT !.todo = 0 .. contract.parts - 1]

TableRead(last) == [Resolved(last, Null) EXCEPT !.todo = {0}]

FilesRead(last) ==
    [Resolved(last, Null) EXCEPT !.pc = IF NamingFails THEN "refused" ELSE "reading",
                                 !.files = Named]

Begin(readable) ==
    /\ read = Idle
    /\ IF readable THEN UNCHANGED faults ELSE Fault("state")
    /\ LET last == Previous(readable)
       IN read' = CASE contract.kind = "rest"      -> RestRead(last)
                    [] contract.kind = "http_file" -> HttpFileRead(last)
                    [] contract.kind = "jdbc"      -> JdbcRead(last)
                    [] contract.kind = "table"     -> TableRead(last)
                    [] contract.kind = "files"     -> FilesRead(last)
    /\ UNCHANGED <<sourceVars, target, active, saved>>

\* No name matches, or there are more than file_regex_max_listed.
Refuse == read.pc = "refused" /\ Fail /\ UNCHANGED faults

Asking == read.pc = "reading" /\ contract.kind \in {"rest", "http_file"}

Querying == read.pc = "reading" /\ contract.kind \in {"jdbc", "table"}

\* max_page_bytes and max_total_bytes, 0 for no limit, a record a byte.
Exceeds(page) ==
    \/ contract.pageBytes > 0 /\ Len(page) > contract.pageBytes
    \/ contract.totalBytes > 0 /\ Len(read.got) + Len(page) > contract.totalBytes

\* The loop of resolve_batch ends: no next page is named, a page counted by
\* position is empty (the text of a raw page never is), or max_pages.
IsLast(reply) ==
    \/ contract.paging = "none"
    \/ ByCursor /\ ~reply.more
    \/ ByPosition /\ ~contract.raw /\ reply.records = <<>>
    \/ read.pages + 1 = contract.maxPages

NextCursor(page) == IF page = <<>> THEN Null ELSE page[Len(page)]

ReadPage ==
    /\ Asking /\ ~Exceeds(Reply.records)
    /\ read' = [read EXCEPT !.pc = IF IsLast(Reply) THEN "evaluated" ELSE "reading",
                            !.pages = @ + 1,
                            !.attempt = 1,
                            !.got = @ \o Reply.records,
                            !.cursor = NextCursor(Reply.records)]
    /\ UNCHANGED <<sourceVars, target, active, saved, faults>>

RefusePage == Asking /\ Exceeds(Reply.records) /\ Fail /\ UNCHANGED faults

\* Faulty variant: the whole read starts again, keeping the records it has.
RetryFromStart ==
    /\ Asking /\ Fault("transient")
    /\ read.attempt < contract.attempts
    /\ read' = [read EXCEPT !.attempt = @ + 1, !.pages = 0, !.cursor = Null]
    /\ UNCHANGED <<sourceVars, target, active, saved>>

\* 429, a status of 500 or more, or no answer at all: the same request is
\* sent again after a pause.
Retry ==
    /\ Asking /\ Fault("transient")
    /\ read.attempt < contract.attempts
    /\ read' = [read EXCEPT !.attempt = @ + 1]
    /\ UNCHANGED <<sourceVars, target, active, saved>>

\* Faulty variant: what was read before the error is taken for the whole source.
GiveUpQuietly ==
    /\ Asking
    /\ \/ Fault("transient") /\ read.attempt = contract.attempts
       \/ Fault("permanent")
    /\ read' = [read EXCEPT !.pc = "evaluated"]
    /\ UNCHANGED <<sourceVars, target, active, saved>>

GiveUp ==
    /\ Asking
    /\ \/ Fault("transient") /\ read.attempt = contract.attempts
       \/ Fault("permanent")
    /\ Fail

\* Spark runs the query of one partition, its tasks in any order.
ReadPartition(p) ==
    /\ Querying /\ p \in read.todo
    /\ read' = [read EXCEPT
          !.todo = @ \ {p},
          !.pc = IF read.todo = {p} THEN "evaluated" ELSE "reading",
          !.got = @ \o Ordered({id \in Selected(read.value) : id % contract.parts = p})]
    /\ UNCHANGED <<sourceVars, target, active, saved, faults>>

QueryFails ==
    /\ Querying
    /\ Fault("permanent") /\ Fail

\* Spark opens the files that were listed; one that is gone is an error.
OpenFiles ==
    /\ read.pc = "reading" /\ contract.kind = "files"
    /\ read.files \subseteq listing
    /\ read' = [read EXCEPT !.pc = "evaluated", !.got = Ordered(read.files)]
    /\ UNCHANGED <<sourceVars, target, active, saved, faults>>

FileIsGone ==
    /\ read.pc = "reading" /\ contract.kind = "files"
    /\ ~(read.files \subseteq listing)
    /\ Fail /\ UNCHANGED faults

Got == {read.got[n] : n \in DOMAIN read.got}

\* _prepare_dataframe filters; scd0_append adds the rows, and
\* snapshot_soft_delete deactivates those the source did not return,
\* unless it returned none.
Write ==
    /\ read.pc = "evaluated"
    /\ LET batch == ApplyWatermark(Got, read.last) IN
       /\ target' = target \cup batch
       /\ active' = IF contract.snapshot /\ batch # {} THEN batch ELSE active
       /\ read' = [pc |-> "written", last |-> read.last, batch |-> batch, still |-> read.still]
    /\ UNCHANGED <<sourceVars, saved, faults>>

Save ==
    /\ read.pc = "written"
    /\ saved' = CurrentWatermark(read.batch, read.last)
    /\ read' = Idle
    /\ UNCHANGED <<sourceVars, target, active, faults>>

\* The run fails after its write.
FailLate == read.pc = "written" /\ Fault("late_error") /\ Fail

\* The stamps a record may arrive with.  One column tells no more than the
\* order of the records that have a value.
Stamps ==
    CASE contract.columns = 0 -> {<<1, 1>>}
      [] contract.columns = 1 -> {<<Null, 1>>, <<Len(stamps) + 1, 1>>}
      [] contract.columns = 2 -> Values \X Values

Load ==
    \/ Begin(TRUE) \/ Refuse \/ ReadPage \/ RefusePage
    \/ \E p \in 0 .. contract.parts - 1 : ReadPartition(p)
    \/ OpenFiles \/ FileIsGone \/ Write \/ Save

Next ==
    \/ \E stamp \in Stamps : Arrive(stamp)
    \/ \E id \in listing : Vanish(id)
    \/ Load
    \/ Begin(FALSE) \/ Retry \/ GiveUp \/ QueryFails \/ FailLate

Spec == Init /\ [][Next]_vars

\* The driver runs, and the scheduler starts the next load.
FairSpec == Spec /\ WF_vars(Load)
-----------------------------------------------------------------------------
(***************************************************************************)
(* Properties.                                                             *)
(***************************************************************************)

\* Types of the state.
TypeOK ==
    /\ contract \in Contracts
    /\ Len(stamps) <= MaxRecords /\ \A id \in Records : stamps[id] \in Nat \X Nat
    /\ listing \subseteq Records /\ target \subseteq Records /\ active \subseteq target
    /\ saved = NoWatermark \/ saved \in {Watermark(id) : id \in Records}
    /\ faults \in 0 .. MaxFaults
    /\ read.pc \in {"idle", "refused", "reading", "evaluated", "written"}
    /\ read.pc = "reading" =>
          /\ read.attempt \in 1 .. contract.attempts
          /\ read.pages \in 0 .. contract.maxPages - 1
          /\ Got \subseteq Records /\ read.todo \subseteq 0 .. contract.parts - 1

\* What max_pages cuts off a read comes after what it returned, or it cuts
\* off nothing.
CutsLatest ==
    \/ contract.paging = "none" \/ ~contract.newest
    \/ contract.maxPages * contract.size >= MaxRecords

\* The records an incremental contract is to load: their stamps have no
\* NULL, and come after initial_value.
Wanted ==
    {id \in listing :
        /\ contract.regex => id \in Matching
        /\ \A i \in 1 .. contract.columns : stamps[id][i] # Null
        /\ contract.push => stamps[id][1] > contract.initial}

\* apply_watermark and the pushdown "> previous" never read back: a record
\* the saved watermark has reached is in the target.  Of structs with
\* a NULL, and of a pushdown of the first of two columns, nothing is claimed.
NothingPassedOver ==
    CutsLatest /\ saved # NoWatermark /\ (contract.push => contract.columns < 2)
        /\ (contract.columns = 2 => \A id \in Records : Null \notin {stamps[id][1], stamps[id][2]})
      => \A id \in Wanted : After(Watermark(id), saved) \/ id \in target

\* resolve_batch returns what the source listed when it held still, each
\* record once and in order, up to max_pages and whatever was retried.
ReadIsExact ==
    read.pc = "evaluated" /\ read.still =>
        LET all == Ordered(IF contract.kind = "files" THEN read.files ELSE read.start)
            limit == contract.maxPages * contract.size
            seen == IF contract.paging = "none" \/ Len(all) <= limit
                    THEN all ELSE SubSeq(all, 1, limit)
        IN  /\ Len(read.got) = Len(seen)
            /\ IF contract.kind \in {"jdbc", "table"}
               THEN Got = {seen[n] : n \in DOMAIN seen}
               ELSE read.got = seen

\* snapshot_soft_delete over source_complete=true: a record that is inactive
\* has disappeared from the source, whatever was read in several requests.
InactiveIsGone ==
    contract.snapshot /\ (contract.paging # "none" =>
                             contract.maxPages * contract.size >= MaxRecords)
      => target \ active \subseteq Records \ listing

\* compute_watermark "returns None if the DataFrame is empty or every row is
\* NULL": no saved watermark is made of NULLs.
NoNullWatermark == \A i \in DOMAIN saved : \E j \in DOMAIN saved : saved[j] # Null

\* What limits and pagination let loads reach: max_pages records without a
\* stamp would be read again and again.
Reachable ==
    /\ CutsLatest
    /\ contract.paging # "none" /\ contract.maxPages * contract.size < MaxRecords =>
          contract.push /\ \A id \in Records : stamps[id][1] # Null
    /\ contract.totalBytes = 0 /\ (contract.pageBytes = 0 \/ contract.pageBytes >= MaxRecords)
    /\ contract.maxListed >= MaxRecords
    /\ contract.columns = 1 /\ ~contract.snapshot

\* A record is loaded by this load or by a later one, however many pages are
\* between, unless it disappears.
EveryRecordArrives ==
    \A id \in 1 .. MaxRecords :
        Reachable /\ id \in Wanted ~> id \in target \/ id \notin listing
=============================================================================
