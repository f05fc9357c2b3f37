------------------------------ MODULE BurpRuns ------------------------------
(***************************************************************************)
(* The inventory of the runs of the Burp integration (burp.py): what a     *)
(* pull or an active request adds to a run, how a row of it is found again *)
(* by its reference and turned back into the request, and what the project *)
(* the run belongs to is told of it.                                       *)
(*                                                                         *)
(* Nothing is locked but the writing of a file: an inventory is read, and  *)
(* what is written later replaces it; so it is with the manifest and with  *)
(* the project's list of runs.  A request is what its method, host and     *)
(* path say, and the number Burp gave it, if any.  What Burp answers is    *)
(* external: any page of the model's set.                                  *)
(***************************************************************************)
EXTENDS Naturals, Sequences, FiniteSets, SequencesExt

CONSTANTS
    Process,
    Run,
    Page,      \* what Burp may return: sequences of [id, what]
    NoId,      \* the request has no number: a snapshot of the editor, plain text
    Source,    \* source types of pulls
    Offset,    \* offsets of the pages of a pull; for active requests, the second
    MaxPulls   \* bound: pulls and active requests

\* What the constants are assumed to be.
BurpAssumption == MaxPulls \in Nat

Label == (Source \union {"send"}) \X Offset   \* the name of a file of raw evidence

VARIABLES
    made,       \* the runs that exist
    latest,     \* latest-run-path.txt
    rows,       \* requests.jsonl of each run
    evidence,   \* raw/<label>.mcp.json of each run: the page it holds
    total,      \* rows_total of each manifest; the status is "created" while it is 0
    pointers,   \* the project's runs.jsonl: the total it lists for each run
    process,    \* what each process is doing
    pulls,
    replaced,   \* evidence written over with another page (a history)
    alone       \* no two processes worked in a run, none was cut off (a history)

burpvars == <<made, latest, rows, evidence, total, pointers, process, pulls, replaced, alone>>

Idle == [pc |-> "idle"]
At(p, where) == process[p].pc = where
Becomes(p, state) == process' = [process EXCEPT ![p] = state]

NoLatest == "none"
Unlisted == 0        \* a run that is not listed; a listed one has its total plus one

BurpInit ==
    /\ made = {} /\ latest = NoLatest
    /\ rows = [r \in Run |-> <<>>]
    /\ evidence = [r \in Run |-> [l \in Label |-> <<>>]]
    /\ total = [r \in Run |-> 0]
    /\ pointers = [r \in Run |-> Unlisted]
    /\ process = [p \in Process |-> Idle]
    /\ pulls = 0 /\ replaced = {} /\ alone = TRUE

-----------------------------------------------------------------------------
(* Rows, their references, and the way back to the request.                *)

\* parse_http_pair, for each request of the page (rows_from_result): the index
\* counts within the page.
RowsOf(page, run, label) ==
    [i \in DOMAIN page |-> [id |-> page[i].id, what |-> page[i].what, idx |-> i - 1,
                            run |-> run, label |-> label]]

\* append_rows: the same request, only where it has a number.
SameRequest(a, b) ==
    a.id # NoId /\ a.label[1] = b.label[1] /\ a.id = b.id /\ a.what = b.what

\* Mutant: the newer of two rows of the same request is the one that is kept.
CombinedNewest(old, new) ==
    SelectSeq(old, LAMBDA a : ~\E i \in DOMAIN new : SameRequest(a, new[i])) \o new

Combined(old, new) ==
    FoldLeft(LAMBDA out, a : IF \E i \in DOMAIN out : SameRequest(a, out[i]) THEN out
                             ELSE Append(out, a),
             <<>>, old \o new)

\* request_ref: the number, or the index in its page.
RequestRef(row) == IF row.id # NoId THEN <<"id", row.id>> ELSE <<"idx", row.idx>>

\* find_inventory_row_by_ref: the first row that answers to it.
Answers(row, ref) == \/ ref[1] = "idx" /\ row.idx = ref[2]
                     \/ ref[1] = "id" /\ row.id = ref[2]
Found(inventory, ref) ==
    inventory[CHOOSE i \in DOMAIN inventory :
        /\ Answers(inventory[i], ref)
        /\ \A k \in 1 .. i - 1 : ~Answers(inventory[k], ref)]

\* Mutant: the first request of the evidence, whenever the row has no number.
RawByNumber(run, row) ==
    LET page == evidence[run][row.label]
        numbered == {i \in DOMAIN page : row.id # NoId /\ page[i].id = row.id}
    IN  page[IF numbered # {} THEN CHOOSE i \in numbered : \A k \in numbered : i <= k ELSE 1]

\* raw_request_from_evidence: by the number, else by method, host and path, else the
\* first request there is.
Raw(run, row) ==
    LET page == evidence[run][row.label]
        numbered == {i \in DOMAIN page : row.id # NoId /\ page[i].id = row.id}
        alike == {i \in DOMAIN page : page[i].what = row.what}
        First(S) == CHOOSE i \in S : \A k \in S : i <= k
    IN  page[IF numbered # {} THEN First(numbered) ELSE IF alike # {} THEN First(alike) ELSE 1]

-----------------------------------------------------------------------------
(* Operations.                                                             *)

Busy(r) == \E p \in Process : ~At(p, "idle") /\ process[p].run = r

\* create_run, and the latest run.
Create(r) ==
    /\ r \notin made
    /\ made' = made \union {r} /\ latest' = r

\* pull_source into a new run or one that is named; a new run is made before Burp is
\* asked, and stays when Burp does not answer.
Pull(p, r, source) ==
    /\ At(p, "idle") /\ pulls < MaxPulls
    /\ pulls' = pulls + 1
    /\ alone' = (alone /\ ~Busy(r))
    /\ \/ Create(r)
       \/ r \in made /\ UNCHANGED <<made, latest>>
    /\ Becomes(p, [pc |-> "fetch", run |-> r, source |-> source, fetched |-> <<>>, left |-> Offset])
    /\ UNCHANGED <<rows, evidence, total, pointers, replaced>>

\* save_result of a page: the evidence, under a name made of source and offset.
Fetch(p, offset, page) ==
    LET q == process[p]
        label == <<q.source, offset>>
    IN  /\ At(p, "fetch") /\ offset \in q.left
        /\ evidence' = [evidence EXCEPT ![q.run][label] = page]
        /\ replaced' = IF evidence[q.run][label] \in {<<>>, page} THEN replaced
                       ELSE replaced \union {<<q.run, label>>}
        /\ Becomes(p, [q EXCEPT !.fetched = @ \o RowsOf(page, q.run, label),
                                !.left = {o \in @ : o > offset}])
        /\ UNCHANGED <<made, latest, rows, total, pointers, pulls, alone>>

\* An active request (send, Repeater, Intruder) is one row without a number, and its
\* evidence has a name made of the host and the second (save_active_result).
Active(p, r, second, what) ==
    LET label == <<"send", second>> 
        page == <<[id |-> NoId, what |-> what]>>
    IN  /\ At(p, "idle") /\ pulls < MaxPulls
        /\ pulls' = pulls + 1
        /\ alone' = (alone /\ ~Busy(r))
        /\ \/ Create(r)
           \/ r \in made /\ UNCHANGED <<made, latest>>
        /\ evidence' = [evidence EXCEPT ![r][label] = page]
        /\ replaced' = IF evidence[r][label] \in {<<>>, page} THEN replaced
                       ELSE replaced \union {<<r, label>>}
        /\ Becomes(p, [pc |-> "fetch", run |-> r, source |-> "send", left |-> {},
                       fetched |-> RowsOf(page, r, label)])
        /\ UNCHANGED <<rows, total, pointers>>

\* append_rows: read ...
ReadRows(p) ==
    /\ At(p, "fetch") /\ process[p].fetched # <<>>
    /\ Becomes(p, [pc |-> "append", run |-> process[p].run,
                   inventory |-> Combined(rows[process[p].run], process[p].fetched)])
    /\ UNCHANGED <<made, latest, rows, evidence, total, pointers, pulls, replaced, alone>>

\* ... and replace.
WriteRows(p) ==
    /\ At(p, "append")
    /\ rows' = [rows EXCEPT ![process[p].run] = process[p].inventory]
    /\ Becomes(p, [pc |-> "rebuild", run |-> process[p].run])
    /\ UNCHANGED <<made, latest, evidence, total, pointers, pulls, replaced, alone>>

\* rebuild: the inventory is counted (and the compact files written), the manifest
\* says so ...
Count(p) ==
    /\ At(p, "rebuild")
    /\ Becomes(p, [pc |-> "manifest", run |-> process[p].run, count |-> Len(rows[process[p].run])])
    /\ UNCHANGED <<made, latest, rows, evidence, total, pointers, pulls, replaced, alone>>

WriteManifest(p) ==
    /\ At(p, "manifest")
    /\ total' = [total EXCEPT ![process[p].run] = process[p].count]
    /\ Becomes(p, [pc |-> "point", run |-> process[p].run, count |-> process[p].count])
    /\ UNCHANGED <<made, latest, rows, evidence, pointers, pulls, replaced, alone>>

\* ... and update_project_burp_pointer reads the project's list and replaces it.
ReadPointers(p) ==
    /\ At(p, "point")
    /\ Becomes(p, [pc |-> "list", run |-> process[p].run,
                   list |-> [pointers EXCEPT ![process[p].run] = process[p].count + 1]])
    /\ UNCHANGED <<made, latest, rows, evidence, total, pointers, pulls, replaced, alone>>

WritePointers(p) ==
    /\ At(p, "list")
    /\ pointers' = process[p].list
    /\ Becomes(p, Idle)
    /\ alone' = (alone /\ \A q \in Process \ {p} : process[q].pc # "list")
    /\ UNCHANGED <<made, latest, rows, evidence, total, pulls, replaced>>

\* extract_request of a row of the latest run, or of one that is named, lists the run
\* anew, with the total of its manifest.
Extract(p, r) ==
    /\ At(p, "idle") /\ r \in made /\ rows[r] # <<>>
    /\ alone' = (alone /\ ~Busy(r))
    /\ Becomes(p, [pc |-> "point", run |-> r, count |-> total[r]])
    /\ UNCHANGED <<made, latest, rows, evidence, total, pointers, pulls, replaced>>

\* Burp does not answer, or the process dies.
GiveUp(p) ==
    /\ ~At(p, "idle")
    /\ Becomes(p, Idle)
    /\ alone' = (alone /\ process[p].pc = "fetch")
    /\ UNCHANGED <<made, latest, rows, evidence, total, pointers, pulls, replaced>>

BurpNext ==
    \E p \in Process :
        \/ \E r \in Run, source \in Source : Pull(p, r, source)
        \/ \E offset \in Offset, page \in Page : Fetch(p, offset, page)
        \/ \E r \in Run, second \in Offset, page \in Page : Active(p, r, second, page[1].what)
        \/ ReadRows(p) \/ WriteRows(p) \/ Count(p) \/ WriteManifest(p)
        \/ ReadPointers(p) \/ WritePointers(p)
        \/ \E r \in Run : Extract(p, r)
        \/ GiveUp(p)

BurpSpec == BurpInit /\ [][BurpNext]_burpvars

-----------------------------------------------------------------------------
(* Properties.                                                             *)

NamesKept ==
    alone' => \A r \in Run : \A i \in DOMAIN rows[r] :
        LET ref == RequestRef(rows[r][i])
        IN  Found(rows'[r], ref) = Found(rows[r], ref)

\* While no two processes work in one run, a reference that was handed out goes on
\* naming the row it named first, whatever is pulled into the run again
\* (append_rows, find_inventory_row_by_ref).
ReferencesKeepNaming == [][NamesKept]_burpvars

\* While no evidence file was written over, what is extracted for a row has the
\* method, host and path the inventory shows for it; and while processes work one at
\* a time and none is cut off, the project lists every run that was indexed with the
\* number of rows it has (raw_request_from_evidence, update_project_burp_pointer).
ShownAsItIs ==
    /\ \A r \in Run : \A i \in DOMAIN rows[r] :
        <<r, rows[r][i].label>> \notin replaced => Raw(r, rows[r][i]).what = rows[r][i].what
    /\ alone /\ (\A p \in Process : At(p, "idle")) =>
        \A r \in Run : rows[r] # <<>> => pointers[r] = Len(rows[r]) + 1 /\ total[r] = Len(rows[r])

=============================================================================
