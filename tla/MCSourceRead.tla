---------------------------- MODULE MCSourceRead ----------------------------
(***************************************************************************)
(* Instances of SourceRead for TLC: contracts of every kind of connector.  *)
(***************************************************************************)
EXTENDS SourceRead

Table == [kind |-> "table", paging |-> "none", size |-> 1, maxPages |-> 1, attempts |-> 1,
          parts |-> 1, pageBytes |-> 0, totalBytes |-> 0, maxListed |-> 10, initial |-> 0,
          raw |-> FALSE, push |-> FALSE, newest |-> FALSE, regex |-> FALSE,
          snapshot |-> FALSE, columns |-> 1]

Jdbc == [Table EXCEPT !.kind = "jdbc", !.push = TRUE, !.parts = 2]

HttpFile == [Table EXCEPT !.kind = "http_file", !.attempts = 2]

Files == [Table EXCEPT !.kind = "files"]

Rest(paging, maxPages) ==
    [Table EXCEPT !.kind = "rest", !.paging = paging, !.maxPages = maxPages,
                  !.attempts = 2, !.push = TRUE]

\* A composite watermark, compared after the read and not pushed down.
Composite == [Table EXCEPT !.columns = 2]

\* A source declared complete, for snapshot_soft_delete.
Snapshot(c) == [c EXCEPT !.snapshot = TRUE, !.columns = 0, !.push = FALSE]

AllContracts ==
    {Table, [Jdbc EXCEPT !.initial = 1], Composite, Snapshot(Jdbc),
     [Files EXCEPT !.regex = TRUE], [Files EXCEPT !.regex = TRUE, !.maxListed = 2],
     Snapshot(Files), HttpFile, Snapshot(HttpFile),
     Rest("none", 1), Rest("page", 2), [Rest("offset", 3) EXCEPT !.raw = TRUE, !.push = FALSE],
     Rest("cursor", 2), [Rest("link_header", 3) EXCEPT !.newest = TRUE],
     [Rest("cursor", 2) EXCEPT !.size = 2, !.totalBytes = 2],
     [Rest("offset", 2) EXCEPT !.size = 2, !.pageBytes = 1],
     Snapshot(Rest("cursor", 3)), Snapshot(Rest("page", 3))}
=============================================================================
