-------------------------- MODULE IngestManifest ---------------------------
(***************************************************************************)
(* Ingestion of one match (src/ingest_match.py, src/metadata/manifest.py)  *)
(* by the ingest task of the worker DAG (dags/football_match_pipeline.py)  *)
(* and by the command line of the same module.                             *)
(*                                                                         *)
(* One execution downloads the payload, reads the whole manifest file,     *)
(* looks for a record with the same match and hash, stores the raw object  *)
(* and appends one line.  Nothing locks the file between the read and the  *)
(* append.  The worker DAG has max_active_runs=1, so its task is one       *)
(* process; any number of command-line executions may run beside it.       *)
(*                                                                         *)
(* The hash of a payload is the payload itself; the object key keeps 12    *)
(* digits of it (KeyOf).  The manifest only grows, so the list a process   *)
(* read is represented by its length (seen).                               *)
(***************************************************************************)
EXTENDS Naturals, Sequences, FiniteSets

CONSTANTS
    Match,      \* match ids
    Content,    \* payloads, one per SHA-256 hash
    Serves,     \* Serves[m]: the payloads the provider may serve for m
    Key,        \* 12-digit hash prefixes
    KeyOf,      \* [Content -> Key]: file_hash[:12]
    Worker,     \* the ingest task of football_match_pipeline
    Cli,        \* executions of `python -m src.ingest_match`
    Retries,    \* retries= of the ingest task
    NoContent,  \* nothing downloaded, no object stored
    NoMatch,    \* no execution started yet
    NoRecord    \* nothing returned yet

Proc == {Worker} \cup Cli

\* Two payloads of the provider do not share the first 12 digits of a hash.
ASSUME PrefixAssumption ==
    /\ KeyOf \in [Content -> Key]
    /\ \A c, d \in Content : KeyOf[c] = KeyOf[d] => c = d

ASSUME ValueAssumption ==
    /\ Serves \in [Match -> SUBSET Content]
    /\ NoContent \notin Content
    /\ NoMatch \notin Match
    /\ Worker \notin Cli
    /\ Retries \in Nat

\* A line of ingestion_manifest.jsonl: the fields later code depends on.
Record == [match : Match, hash : Content, version : Nat]

ASSUME RecordAssumption == NoRecord \notin Record

VARIABLES
    manifest,   \* the complete lines of the manifest file
    torn,       \* the file ends in an incomplete line
    raw,        \* raw[<<m, k>>]: object raw/match_id=m/events_k.json
    proc,       \* proc[p]: the local state of execution p
    overlapped  \* history: matches two executions worked on at once

vars == <<manifest, torn, raw, proc, overlapped>>

Resting == {"idle", "done"}
Running == {"fetch", "lookup", "put", "append"}

ProcState == [pc      : Resting \cup Running \cup {"up_for_retry"},
              match   : Match \cup {NoMatch},
              content : Content \cup {NoContent},
              seen    : Nat,
              try     : Nat,
              result  : Record \cup {NoRecord}]

Idle == [pc |-> "idle", match |-> NoMatch, content |-> NoContent,
         seen |-> 0, try |-> 0, result |-> NoRecord]

-----------------------------------------------------------------------------
(* The manifest *)

\* Positions of the records of match m among the first n lines.
VersionsOf(m, n) == {i \in 1..n : manifest[i].match = m}

\* Slip: the hash is looked up among the records of every match.
ExistingAnyMatch(m, c) == {i \in DOMAIN manifest : manifest[i].hash = c}

\* Slip: the hash is compared with the latest version of the match only.
ExistingLatest(m, c) ==
    {i \in VersionsOf(m, Len(manifest)) :
        /\ \A j \in VersionsOf(m, Len(manifest)) : j <= i
        /\ manifest[i].hash = c}

\* find_existing_version: positions of the records with this match and hash.
Existing(m, c) ==
    {i \in DOMAIN manifest : manifest[i].match = m /\ manifest[i].hash = c}

\* Slip: the lines of all matches are counted.
NewRecordFileWide(s) ==
    [match |-> s.match, hash |-> s.content, version |-> s.seen + 1]

\* The record built from the list the execution read.
NewRecord(s) ==
    [match   |-> s.match,
     hash    |-> s.content,
     version |-> Cardinality(VersionsOf(s.match, s.seen)) + 1]

-----------------------------------------------------------------------------
(* What happens to an attempt that does not finish *)

\* The exceptions an attempt can end with: of the request, of the object
\* store and the file system, and Airflow's execution_timeout.
Exception == {"Timeout", "ConnectionError", "HTTP429", "HTTP5xx", "HTTP4xx",
              "NoResponse", "StorageError", "TaskTimeout", "JSONDecodeError"}

\* IngestRetryPolicy.evaluate
RetryPolicy(e) == e \in {"Timeout", "ConnectionError", "HTTP429", "HTTP5xx"}

HttpException == {"Timeout", "ConnectionError", "HTTP429", "HTTP5xx",
                  "HTTP4xx", "NoResponse"}

\* The attempt is over; only the worker has a scheduler that tries again.  A
\* failed execution leaves nothing behind it in the process.
Ended(p, retryable) ==
    IF p = Worker /\ retryable /\ proc[p].try <= Retries
    THEN [Idle EXCEPT !.pc = "up_for_retry", !.match = proc[p].match,
                      !.try = proc[p].try]
    ELSE Idle

\* ingest_match returns record r.
Returned(p, r) ==
    [Idle EXCEPT !.pc = "done", !.match = proc[p].match,
                 !.content = proc[p].content, !.result = r]

-----------------------------------------------------------------------------
Init ==
    /\ manifest = <<>>
    /\ torn = FALSE
    /\ raw = [mk \in Match \X Key |-> NoContent]
    /\ proc = [p \in Proc |-> Idle]
    /\ overlapped = {}

\* A worker run reaches its ingest task, or a command line starts.
Start(p, m) ==
    /\ proc[p].pc \in Resting
    /\ proc' = [proc EXCEPT ![p] = [Idle EXCEPT !.pc = "fetch", !.match = m,
                                                !.try = 1]]
    /\ UNCHANGED <<manifest, torn, raw, overlapped>>

\* Slip: the attempt is not counted.
RetryUncounted(p) ==
    /\ proc[p].pc = "up_for_retry"
    /\ proc' = [proc EXCEPT ![p].pc = "fetch"]
    /\ UNCHANGED <<manifest, torn, raw, overlapped>>

\* The scheduler starts the next attempt of the worker's ingest task.
Retry(p) ==
    /\ proc[p].pc = "up_for_retry"
    /\ proc' = [proc EXCEPT ![p].pc = "fetch", ![p].try = @ + 1]
    /\ UNCHANGED <<manifest, torn, raw, overlapped>>

\* requests.get and raise_for_status succeed.  The provider may serve a new
\* payload at any time, or an older one again.
Fetch(p) ==
    /\ proc[p].pc = "fetch"
    /\ \E c \in Serves[proc[p].match] :
          proc' = [proc EXCEPT ![p].pc = "lookup", ![p].content = c]
    /\ UNCHANGED <<manifest, torn, raw, overlapped>>

\* requests.get or raise_for_status raises.
FetchFails(p, e) ==
    /\ proc[p].pc = "fetch"
    /\ e \in HttpException
    /\ proc' = [proc EXCEPT ![p] = Ended(p, RetryPolicy(e))]
    /\ UNCHANGED <<manifest, torn, raw, overlapped>>

\* read_manifest and find_existing_version: the payload is already known.
AlreadyIngested(p) ==
    /\ proc[p].pc = "lookup"
    /\ ~torn
    /\ \E i \in Existing(proc[p].match, proc[p].content) :
          /\ \A j \in Existing(proc[p].match, proc[p].content) : i <= j
          /\ proc' = [proc EXCEPT ![p] = Returned(p, manifest[i])]
    /\ UNCHANGED <<manifest, torn, raw, overlapped>>

InWindow(q) == proc[q].pc \in {"put", "append"}

\* read_manifest and find_existing_version: the payload is new.
NotFound(p) ==
    /\ proc[p].pc = "lookup"
    /\ ~torn
    /\ Existing(proc[p].match, proc[p].content) = {}
    /\ proc' = [proc EXCEPT ![p].pc = "put", ![p].seen = Len(manifest)]
    /\ overlapped' = overlapped \cup
          {proc[p].match : q \in {r \in Proc : /\ InWindow(r)
                                               /\ proc[r].match = proc[p].match}}
    /\ UNCHANGED <<manifest, torn, raw>>

\* read_manifest: json.loads raises on the incomplete line.
ManifestUnreadable(p) ==
    /\ proc[p].pc = "lookup"
    /\ torn
    /\ proc' = [proc EXCEPT ![p] = Ended(p, RetryPolicy("JSONDecodeError"))]
    /\ UNCHANGED <<manifest, torn, raw, overlapped>>

\* Slip: an error of put_bytes is swallowed.
PutRawQuietly(p) ==
    /\ proc[p].pc = "put"
    /\ proc' = [proc EXCEPT ![p].pc = "append"]
    /\ UNCHANGED <<manifest, torn, raw, overlapped>>

\* Slip: put_bytes stores the key it is given for the content.
PutRawSwapped(p) ==
    /\ proc[p].pc = "put"
    /\ LET k == KeyOf[proc[p].content] IN
          raw' = [raw EXCEPT ![<<proc[p].match, k>>] = k]
    /\ proc' = [proc EXCEPT ![p].pc = "append"]
    /\ UNCHANGED <<manifest, torn, overlapped>>

\* put_bytes
PutRaw(p) ==
    /\ proc[p].pc = "put"
    /\ raw' = [raw EXCEPT ![<<proc[p].match, KeyOf[proc[p].content]>>] =
                  proc[p].content]
    /\ proc' = [proc EXCEPT ![p].pc = "append"]
    /\ UNCHANGED <<manifest, torn, overlapped>>

\* The line is appended.  Behind an incomplete line it is lost: both are one
\* line of the file, which no reader can parse.
AppendRecord(p) ==
    /\ proc[p].pc = "append"
    /\ manifest' = IF torn THEN manifest
                           ELSE Append(manifest, NewRecord(proc[p]))
    /\ proc' = [proc EXCEPT ![p] = Returned(p, NewRecord(proc[p]))]
    /\ UNCHANGED <<torn, raw, overlapped>>

\* The disk fills up, or the machine stops, in the middle of the line.
TearRecord(p) ==
    /\ proc[p].pc = "append"
    /\ torn' = TRUE
    /\ proc' = [proc EXCEPT ![p] = Ended(p, RetryPolicy("StorageError"))]
    /\ UNCHANGED <<manifest, raw, overlapped>>

\* Any other exception: the object store refuses, the file does not open, or
\* the two minutes of execution_timeout are over.
StepFails(p) ==
    /\ proc[p].pc \in Running
    /\ \E e \in {"StorageError", "TaskTimeout"} :
          proc' = [proc EXCEPT ![p] = Ended(p, RetryPolicy(e))]
    /\ UNCHANGED <<manifest, torn, raw, overlapped>>

\* The process is killed: no exception reaches the retry policy, and the
\* scheduler counts the attempt.
Crash(p) ==
    /\ proc[p].pc \in Running
    /\ proc' = [proc EXCEPT ![p] = Ended(p, TRUE)]
    /\ UNCHANGED <<manifest, torn, raw, overlapped>>

Proceed(p) ==
    \/ Retry(p) \/ Fetch(p) \/ AlreadyIngested(p) \/ NotFound(p)
    \/ ManifestUnreadable(p) \/ PutRaw(p) \/ AppendRecord(p)

GoWrong(p) ==
    \/ \E e \in Exception : FetchFails(p, e)
    \/ TearRecord(p) \/ StepFails(p) \/ Crash(p)

Next ==
    \E p \in Proc :
        \/ \E m \in Match : Start(p, m)
        \/ Proceed(p)
        \/ GoWrong(p)

\* A started process runs, and the scheduler starts a due retry.
Fairness == \A p \in Proc : WF_vars(Proceed(p))

Spec == Init /\ [][Next]_vars /\ Fairness

-----------------------------------------------------------------------------
(* Properties *)

\* The state of the manifest, the raw store and the executions is well-typed:
\* no key is stored in the place of a content, no attempt is half reset.
TypeOK ==
    /\ manifest \in Seq(Record)
    /\ torn \in BOOLEAN
    /\ raw \in [Match \X Key -> Content \cup {NoContent}]
    /\ proc \in [Proc -> ProcState]
    /\ overlapped \subseteq Match

\* Whatever crashes, tears or overlaps, a line of the manifest names an
\* object that is stored and holds the payload the line's hash is of:
\* put_bytes comes before the append, and no later object replaces it.
RawBehindManifest ==
    \A i \in DOMAIN manifest :
        raw[<<manifest[i].match, KeyOf[manifest[i].hash]>>] = manifest[i].hash

\* "same hash: duplicate source; different hash: new source version": each
\* payload of a match is one line, and its source_version is its rank among
\* the lines of the match, for every match no two executions worked on at
\* once - whatever happened to other matches in between.
VersionsDense ==
    \A i \in DOMAIN manifest :
        manifest[i].match \notin overlapped =>
            /\ manifest[i].version =
                  Cardinality(VersionsOf(manifest[i].match, i))
            /\ \A j \in Existing(manifest[i].match, manifest[i].hash) : j = i

\* Overlapping executions may register one version number twice, but never
\* a number above the count of the lines.
VersionsNeverAhead ==
    \A i \in DOMAIN manifest :
        manifest[i].version \in 1..Cardinality(VersionsOf(manifest[i].match, i))

\* The record handed to the bronze task is of the match and payload that
\* were asked for and is in the manifest, unless the file was torn first.
ReturnedIsRegistered ==
    \A p \in Proc : proc[p].pc = "done" =>
        /\ proc[p].result.match = proc[p].match
        /\ proc[p].result.hash = proc[p].content
        /\ torn \/ \E i \in DOMAIN manifest : manifest[i] = proc[p].result

\* Every started execution comes to an end: retries do not go on for ever.
IngestEnds ==
    \A p \in Proc :
        proc[p].pc \notin Resting ~> proc[p].pc \in Resting

\* The n-th line of match m, and the payloads of its lines in order.
NthLine(m, n) ==
    CHOOSE i \in VersionsOf(m, Len(manifest)) : Cardinality(VersionsOf(m, i)) = n

Known(m) ==
    [n \in 1..Cardinality(VersionsOf(m, Len(manifest))) |->
        manifest[NthLine(m, n)].hash]

\* The ledger that the lines of the manifest stand for.
Ledger == INSTANCE VersionLedger WITH
    known <- [m \in Match |-> Known(m)],
    disputed <- overlapped

\* The manifest implements the ledger of distinct payloads per match, through
\* every retry, crash and overlap.
LedgerSpec == Ledger!Spec
=============================================================================
