----------------------- MODULE IngestManifest_proofs -----------------------
(***************************************************************************)
(* Proofs about IngestManifest, for any matches, payloads, command lines   *)
(* and number of retries.                                                  *)
(***************************************************************************)
EXTENDS IngestManifest, FiniteSetTheorems, TLAPS

\* What an execution knows at each of its steps.
LocalOK ==
    \A p \in Proc :
        /\ proc[p].pc \notin Resting => proc[p].match \in Match
        /\ proc[p].pc \in {"lookup", "put", "append"} =>
              proc[p].content \in Content
        /\ InWindow(p) => proc[p].seen \in 0..Len(manifest)
        /\ proc[p].pc = "append" =>
              raw[<<proc[p].match, KeyOf[proc[p].content]>>] = proc[p].content
        /\ proc[p].pc = "done" => /\ proc[p].match \in Match
                                  /\ proc[p].content \in Content
                                  /\ proc[p].result \in Record

\* Two executions between read and append on one match dispute that match.
WindowsApart ==
    \A p, q \in Proc :
        (p # q /\ InWindow(p) /\ InWindow(q) /\ proc[p].match = proc[q].match)
            => proc[p].match \in overlapped

\* On an undisputed match the list an execution read is still current: no
\* line of the match is behind it, and none holds the payload.
ReadStillCurrent ==
    \A p \in Proc :
        (InWindow(p) /\ proc[p].match \notin overlapped) =>
            /\ \A i \in DOMAIN manifest :
                  i > proc[p].seen => manifest[i].match # proc[p].match
            /\ Existing(proc[p].match, proc[p].content) = {}

\* What makes RawBehindManifest inductive.
RawInv == TypeOK /\ LocalOK /\ RawBehindManifest

\* What makes VersionsDense inductive.
DenseInv == RawInv /\ WindowsApart /\ ReadStillCurrent /\ VersionsDense

-----------------------------------------------------------------------------
(* Facts about the helpers *)

\* The positions of a match's lines are a finite set.
LEMMA VersionsFinite ==
    ASSUME NEW m, NEW n \in Nat
    PROVE  /\ IsFiniteSet(VersionsOf(m, n))
           /\ Cardinality(VersionsOf(m, n)) \in Nat
  <1>1. IsFiniteSet(1..n)
    BY FS_Interval
  <1>2. VersionsOf(m, n) \subseteq 1..n
    BY DEF VersionsOf
  <1>3. IsFiniteSet(VersionsOf(m, n))
    BY <1>1, <1>2, FS_Subset
  <1> QED
    BY <1>3, FS_CardinalityType

\* The record an execution builds is a record.
LEMMA NewRecordType ==
    ASSUME NEW s \in ProcState, s.match \in Match, s.content \in Content
    PROVE  NewRecord(s) \in Record
  <1>1. s.seen \in Nat
    BY DEF ProcState
  <1>2. Cardinality(VersionsOf(s.match, s.seen)) \in Nat
    BY <1>1, VersionsFinite
  <1> QED
    BY <1>2 DEF NewRecord, Record

\* A process at rest, and one whose attempt is over, are in a legal state.
LEMMA EndedType ==
    ASSUME proc \in [Proc -> ProcState], NEW p \in Proc, NEW b \in BOOLEAN
    PROVE  /\ Idle \in ProcState
           /\ Ended(p, b) \in ProcState
           /\ Ended(p, b).pc \in {"idle", "up_for_retry"}
           /\ Ended(p, b).pc = "up_for_retry" => Ended(p, b).match = proc[p].match
  <1>1. Idle \in ProcState /\ Idle.pc = "idle"
    BY DEF Idle, ProcState, Resting, Running
  <1>2. proc[p].match \in Match \cup {NoMatch} /\ proc[p].try \in Nat
    BY DEF ProcState
  <1> QED
    BY <1>1, <1>2 DEF Ended, Idle, ProcState, Resting, Running

\* What an append does to the positions of a match's lines.
LEMMA AppendVersions ==
    ASSUME manifest \in Seq(Record), NEW r \in Record,
           manifest' = Append(manifest, r), NEW m,
           NEW N \in Nat, N = Len(manifest)
    PROVE  /\ DOMAIN manifest = 1..N
           /\ DOMAIN manifest' = 1..(N + 1)
           /\ \A i \in 1..N : manifest'[i] = manifest[i]
           /\ manifest'[N + 1] = r
           /\ \A n \in 0..N : VersionsOf(m, n)' = VersionsOf(m, n)
           /\ VersionsOf(r.match, N + 1)' = VersionsOf(r.match, N) \cup {N + 1}
  <1>1. /\ DOMAIN manifest = 1..N
        /\ DOMAIN manifest' = 1..(N + 1)
        /\ \A i \in 1..N : manifest'[i] = manifest[i]
        /\ manifest'[N + 1] = r
    OBVIOUS
  <1>2. \A n \in 0..N : VersionsOf(m, n)' = VersionsOf(m, n)
    <2> SUFFICES ASSUME NEW n \in 0..N
                 PROVE  {i \in 1..n : manifest'[i].match = m} =
                        {i \in 1..n : manifest[i].match = m}
      BY DEF VersionsOf
    <2>1. \A i \in 1..n : manifest'[i] = manifest[i]
      BY <1>1
    <2> QED
      BY <2>1
  <1>3. VersionsOf(r.match, N + 1)' = VersionsOf(r.match, N) \cup {N + 1}
    <2>1. \A i \in 1..(N + 1) : i \in 1..N \/ i = N + 1
      OBVIOUS
    <2> QED
      BY <1>1, <2>1 DEF VersionsOf
  <1> QED
    BY <1>1, <1>2, <1>3

-----------------------------------------------------------------------------
(* Type correctness and the raw objects *)

\* The initial state satisfies the invariant.
LEMMA RawInit == Init => RawInv
  <1> SUFFICES ASSUME Init PROVE RawInv
    OBVIOUS
  <1>1. Idle \in ProcState /\ Idle.pc = "idle"
    BY DEF Idle, ProcState, Resting, Running
  <1>2. manifest \in Seq(Record) /\ DOMAIN manifest = {}
    BY DEF Init
  <1>3. TypeOK
    BY <1>1, <1>2 DEF Init, TypeOK
  <1>4. LocalOK
    BY <1>1 DEF Init, LocalOK, Resting, InWindow
  <1> QED
    BY <1>2, <1>3, <1>4 DEF RawInv, RawBehindManifest

\* A step of one execution that changes its local state only, and leaves it
\* knowing what its step requires, keeps the invariant.
LEMMA LocalStep ==
    ASSUME RawInv, NEW p \in Proc, NEW s \in ProcState,
           proc' = [proc EXCEPT ![p] = s],
           UNCHANGED <<manifest, raw>>,
           torn' \in BOOLEAN, overlapped' \subseteq Match,
           s.pc \notin Resting => s.match \in Match,
           s.pc \in {"lookup", "put", "append"} => s.content \in Content,
           s.pc \in {"put", "append"} => s.seen \in 0..Len(manifest),
           s.pc = "append" =>
              raw[<<s.match, KeyOf[s.content]>>] = s.content,
           s.pc = "done" => /\ s.match \in Match
                            /\ s.content \in Content
                            /\ s.result \in Record
    PROVE  RawInv'
  <1>1. proc' \in [Proc -> ProcState]
    BY DEF RawInv, TypeOK
  <1>2. TypeOK'
    BY <1>1 DEF RawInv, TypeOK
  <1>3. \A q \in Proc : proc'[q] = IF q = p THEN s ELSE proc[q]
    BY DEF RawInv, TypeOK
  <1>4. LocalOK'
    BY <1>3 DEF RawInv, LocalOK, InWindow
  <1> QED
    BY <1>2, <1>4 DEF RawInv, RawBehindManifest

\* Every step keeps the invariant.
LEMMA RawStep == RawInv /\ [Next]_vars => RawInv'
  <1> SUFFICES ASSUME RawInv, [Next]_vars PROVE RawInv'
    OBVIOUS
  <1> USE DEF RawInv
  <1>0. \A p \in Proc : proc[p] \in ProcState
    BY DEF TypeOK
  <1>1. CASE UNCHANGED vars
    BY <1>1 DEF vars, TypeOK, LocalOK, RawBehindManifest, InWindow
  <1>2. ASSUME NEW p \in Proc, NEW m \in Match, Start(p, m) PROVE RawInv'
    <2> DEFINE s == [Idle EXCEPT !.pc = "fetch", !.match = m, !.try = 1]
    <2>1. s \in ProcState /\ s.pc = "fetch" /\ s.match = m
      BY DEF Idle, ProcState, Resting, Running
    <2>2. /\ proc' = [proc EXCEPT ![p] = s]
          /\ UNCHANGED <<manifest, raw, torn, overlapped>>
      BY <1>2 DEF Start
    <2> HIDE DEF s
    <2> QED
      BY <2>1, <2>2, LocalStep DEF TypeOK, Resting
  <1>3. ASSUME NEW p \in Proc, Retry(p) PROVE RawInv'
    <2> DEFINE s == [proc[p] EXCEPT !.pc = "fetch", !.try = proc[p].try + 1]
    <2>1. s \in ProcState /\ s.pc = "fetch" /\ s.match = proc[p].match
      <3>1. proc[p].try \in Nat /\ proc[p].try + 1 \in Nat
        BY <1>0 DEF ProcState
      <3>2. "fetch" \in Resting \cup Running \cup {"up_for_retry"}
        BY DEF Running
      <3> QED
        BY <1>0, <3>1, <3>2 DEF ProcState
    <2>2. proc[p].match \in Match
      BY <1>3 DEF Retry, LocalOK, Resting
    <2>3. /\ proc' = [proc EXCEPT ![p] = s]
          /\ UNCHANGED <<manifest, raw, torn, overlapped>>
      BY <1>3 DEF Retry
    <2> HIDE DEF s
    <2> QED
      BY <2>1, <2>2, <2>3, LocalStep DEF TypeOK, Resting
  <1>4. ASSUME NEW p \in Proc, Fetch(p) PROVE RawInv'
    <2>1. PICK c \in Serves[proc[p].match] :
              proc' = [proc EXCEPT ![p].pc = "lookup", ![p].content = c]
      BY <1>4 DEF Fetch
    <2> DEFINE s == [proc[p] EXCEPT !.pc = "lookup", !.content = c]
    <2>2. proc[p].match \in Match
      BY <1>4 DEF Fetch, LocalOK, Resting
    <2>3. c \in Content
      BY <2>1, <2>2, ValueAssumption
    <2>4. /\ s \in ProcState /\ s.pc = "lookup"
          /\ s.match = proc[p].match /\ s.content = c
      BY <1>0, <2>3 DEF ProcState, Running
    <2>5. /\ proc' = [proc EXCEPT ![p] = s]
          /\ UNCHANGED <<manifest, raw, torn, overlapped>>
      BY <1>4, <2>1 DEF Fetch
    <2> HIDE DEF s
    <2> QED
      BY <2>2, <2>3, <2>4, <2>5, LocalStep DEF TypeOK, Resting
  <1>5. ASSUME NEW p \in Proc, NEW b \in BOOLEAN, proc[p].pc \in Running,
               proc' = [proc EXCEPT ![p] = Ended(p, b)],
               UNCHANGED <<manifest, raw, overlapped>>, torn' \in BOOLEAN
        PROVE  RawInv'
    <2> DEFINE s == Ended(p, b)
    <2>1. /\ s \in ProcState /\ s.pc \in {"idle", "up_for_retry"}
          /\ s.pc = "up_for_retry" => s.match = proc[p].match
      BY EndedType DEF TypeOK
    <2>2. proc[p].match \in Match
      BY <1>5 DEF LocalOK, Resting, Running
    <2> HIDE DEF s
    <2>3. proc' = [proc EXCEPT ![p] = s]
      BY <1>5 DEF s
    <2> QED
      BY <1>5, <2>1, <2>2, <2>3, LocalStep DEF TypeOK, Resting
  <1>6. ASSUME NEW p \in Proc, AlreadyIngested(p) PROVE RawInv'
    <2>1. PICK i \in Existing(proc[p].match, proc[p].content) :
              proc' = [proc EXCEPT ![p] = Returned(p, manifest[i])]
      BY <1>6 DEF AlreadyIngested
    <2> DEFINE s == Returned(p, manifest[i])
    <2>2. manifest[i] \in Record
      BY <2>1 DEF Existing, TypeOK
    <2>3. proc[p].match \in Match /\ proc[p].content \in Content
      BY <1>6 DEF AlreadyIngested, LocalOK, Resting
    <2>4. /\ s \in ProcState /\ s.pc = "done" /\ s.match = proc[p].match
          /\ s.content = proc[p].content /\ s.result = manifest[i]
      BY <2>2, <2>3 DEF Returned, Idle, ProcState, Resting, Running
    <2>5. /\ proc' = [proc EXCEPT ![p] = s]
          /\ UNCHANGED <<manifest, raw, torn, overlapped>>
      BY <1>6, <2>1 DEF AlreadyIngested
    <2> HIDE DEF s
    <2> QED
      BY <2>2, <2>3, <2>4, <2>5, LocalStep DEF TypeOK, Resting
  <1>7. ASSUME NEW p \in Proc, NotFound(p) PROVE RawInv'
    <2> DEFINE s == [proc[p] EXCEPT !.pc = "put", !.seen = Len(manifest)]
    <2>1. proc[p].match \in Match /\ proc[p].content \in Content
      BY <1>7 DEF NotFound, LocalOK, Resting
    <2>2. Len(manifest) \in Nat
      BY DEF TypeOK
    <2>3. /\ s \in ProcState /\ s.pc = "put" /\ s.match = proc[p].match
          /\ s.content = proc[p].content /\ s.seen = Len(manifest)
      BY <1>0, <2>2 DEF ProcState, Running
    <2>4. /\ proc' = [proc EXCEPT ![p] = s]
          /\ UNCHANGED <<manifest, raw, torn>>
      BY <1>7 DEF NotFound
    <2>5. overlapped' \subseteq Match
      BY <1>7, <2>1 DEF NotFound, TypeOK
    <2>6. s.seen \in 0..Len(manifest)
      BY <2>2, <2>3
    <2> HIDE DEF s
    <2> QED
      BY <2>1, <2>3, <2>4, <2>5, <2>6, LocalStep DEF TypeOK, Resting
  <1>8. ASSUME NEW p \in Proc, PutRaw(p) PROVE RawInv'
    <2> DEFINE k == <<proc[p].match, KeyOf[proc[p].content]>>
               s == [proc[p] EXCEPT !.pc = "append"]
    <2>1. /\ proc[p].match \in Match
          /\ proc[p].content \in Content
          /\ InWindow(p)
          /\ proc[p].seen \in 0..Len(manifest)
      BY <1>8 DEF PutRaw, LocalOK, Resting, InWindow
    <2>2. k \in Match \X Key
      BY <2>1, PrefixAssumption
    <2>3. /\ proc' = [proc EXCEPT ![p] = s]
          /\ raw' = [raw EXCEPT ![k] = proc[p].content]
          /\ UNCHANGED <<manifest, torn, overlapped>>
      BY <1>8 DEF PutRaw
    <2>4. /\ s \in ProcState /\ s.pc = "append" /\ s.match = proc[p].match
          /\ s.content = proc[p].content /\ s.seen = proc[p].seen
      BY <1>0 DEF ProcState, Running
    \* An object under the same key has the same payload.
    <2>5. \A m \in Match, c \in Content :
             raw[<<m, KeyOf[c]>>] = c => raw'[<<m, KeyOf[c]>>] = c
      <3> SUFFICES ASSUME NEW m \in Match, NEW c \in Content,
                          raw[<<m, KeyOf[c]>>] = c
                   PROVE  raw'[<<m, KeyOf[c]>>] = c
        OBVIOUS
      <3>1. <<m, KeyOf[c]>> \in Match \X Key
        BY PrefixAssumption
      <3>2. CASE <<m, KeyOf[c]>> = k
        <4>1. c = proc[p].content
          BY <3>2, <2>1, PrefixAssumption
        <4> QED
          BY <2>2, <2>3, <3>2, <4>1 DEF TypeOK
      <3>3. CASE <<m, KeyOf[c]>> # k
        BY <2>3, <3>1, <3>3 DEF TypeOK
      <3> QED
        BY <3>2, <3>3
    <2>6. raw'[k] = proc[p].content
      BY <2>2, <2>3 DEF TypeOK
    <2>7. TypeOK'
      BY <2>1, <2>3, <2>4 DEF TypeOK
    <2>8. \A q \in Proc : proc'[q] = IF q = p THEN s ELSE proc[q]
      BY <2>3 DEF TypeOK
    <2> HIDE DEF s
    <2>9. LocalOK'
      <3> SUFFICES ASSUME NEW q \in Proc
                   PROVE  LocalOK!(q)'
        BY DEF LocalOK
      <3>1. CASE q = p
        BY <2>1, <2>3, <2>4, <2>6, <2>8, <3>1 DEF Resting, InWindow
      <3>2. CASE q # p
        BY <2>3, <2>5, <2>8, <3>2 DEF LocalOK, Resting, InWindow
      <3> QED
        BY <3>1, <3>2
    <2>10. RawBehindManifest'
      <3> SUFFICES ASSUME NEW i \in DOMAIN manifest
                   PROVE  raw'[<<manifest[i].match, KeyOf[manifest[i].hash]>>]
                            = manifest[i].hash
        BY <2>3 DEF RawBehindManifest
      <3>1. manifest[i] \in Record
        BY DEF TypeOK
      <3> QED
        BY <2>5, <3>1 DEF RawBehindManifest, Record
    <2> QED
      BY <2>7, <2>9, <2>10
  <1>9. ASSUME NEW p \in Proc, AppendRecord(p) PROVE RawInv'
    <2> DEFINE r == NewRecord(proc[p])
               s == Returned(p, r)
    <2>1. /\ proc[p].pc = "append"
          /\ proc[p].match \in Match
          /\ proc[p].content \in Content
          /\ raw[<<proc[p].match, KeyOf[proc[p].content]>>] = proc[p].content
      BY <1>9 DEF AppendRecord, LocalOK, Resting, InWindow
    <2>2. /\ r \in Record
          /\ r.match = proc[p].match /\ r.hash = proc[p].content
      BY <1>0, <2>1, NewRecordType DEF NewRecord
    <2>3. /\ manifest' = IF torn THEN manifest ELSE Append(manifest, r)
          /\ proc' = [proc EXCEPT ![p] = s]
          /\ UNCHANGED <<torn, raw, overlapped>>
      BY <1>9 DEF AppendRecord
    <2>4. /\ s \in ProcState /\ s.pc = "done" /\ s.match = proc[p].match
          /\ s.content = proc[p].content /\ s.result = r
      BY <2>1, <2>2 DEF Returned, Idle, ProcState, Resting, Running
    <2> HIDE DEF r, s
    <2>5. TypeOK'
      BY <2>2, <2>3, <2>4 DEF TypeOK
    <2>6. \A q \in Proc : proc'[q] = IF q = p THEN s ELSE proc[q]
      BY <2>3 DEF TypeOK
    <2>7. Len(manifest) \in Nat /\ Len(manifest') \in Nat
          /\ Len(manifest) <= Len(manifest')
      BY <2>2, <2>3 DEF TypeOK
    <2>8. LocalOK'
      <3> SUFFICES ASSUME NEW q \in Proc
                   PROVE  LocalOK!(q)'
        BY DEF LocalOK
      <3>1. CASE q = p
        BY <2>1, <2>2, <2>4, <2>6, <3>1 DEF Resting, InWindow
      <3>2. CASE q # p
        BY <2>3, <2>6, <2>7, <3>2 DEF LocalOK, Resting, InWindow
      <3> QED
        BY <3>1, <3>2
    <2>9. RawBehindManifest'
      <3>1. CASE torn
        BY <2>3, <3>1 DEF RawBehindManifest
      <3>2. CASE ~torn
        <4>1. /\ DOMAIN manifest' = 1..(Len(manifest) + 1)
              /\ DOMAIN manifest = 1..Len(manifest)
              /\ \A i \in DOMAIN manifest : manifest'[i] = manifest[i]
              /\ manifest'[Len(manifest) + 1] = r
          BY <2>2, <2>3, <3>2 DEF TypeOK
        <4> QED
          BY <2>1, <2>2, <2>3, <2>7, <4>1 DEF RawBehindManifest
      <3> QED
        BY <3>1, <3>2
    <2> QED
      BY <2>5, <2>8, <2>9
  <1>10. ASSUME NEW p \in Proc, Proceed(p) PROVE RawInv'
    <2>1. CASE ManifestUnreadable(p)
      <3>1. RetryPolicy("JSONDecodeError") \in BOOLEAN
        BY DEF RetryPolicy
      <3> QED
        BY <2>1, <3>1, <1>5 DEF ManifestUnreadable, TypeOK, Running
    <2> QED
      BY <2>1, <1>3, <1>4, <1>6, <1>7, <1>8, <1>9, <1>10 DEF Proceed
  <1>11. ASSUME NEW p \in Proc, GoWrong(p) PROVE RawInv'
    <2>0. \A e : RetryPolicy(e) \in BOOLEAN
      BY DEF RetryPolicy
    <2>1. ASSUME NEW e \in Exception, FetchFails(p, e) PROVE RawInv'
      BY <2>0, <2>1, <1>5 DEF FetchFails, TypeOK, Running
    <2>2. CASE TearRecord(p)
      BY <2>0, <2>2, <1>5 DEF TearRecord, TypeOK, Running
    <2>3. CASE StepFails(p)
      BY <2>0, <2>3, <1>5 DEF StepFails, TypeOK, Running
    <2>4. CASE Crash(p)
      BY <2>4, <1>5 DEF Crash, TypeOK, Running
    <2> QED
      BY <2>1, <2>2, <2>3, <2>4, <1>11 DEF GoWrong
  <1> QED
    BY <1>1, <1>2, <1>10, <1>11 DEF Next

\* Type correctness: every variable stays in its declared set, so every
\* record of the manifest names a known match and payload.
THEOREM TypeCorrect == Spec => []TypeOK
  <1>1. RawInv => TypeOK
    BY DEF RawInv
  <1> QED
    BY RawInit, RawStep, <1>1, PTL DEF Spec

\* No crash, torn line, retry or concurrent ingest leaves a line of the
\* manifest without the stored object it names (put_bytes before the append).
THEOREM RawAlwaysBehindManifest == Spec => []RawBehindManifest
  <1>1. RawInv => RawBehindManifest
    BY DEF RawInv
  <1> QED
    BY RawInit, RawStep, <1>1, PTL DEF Spec

-----------------------------------------------------------------------------
(* Distinct payloads, dense version numbers *)

\* The empty manifest and the idle executions satisfy the invariant.
LEMMA DenseInit == Init => DenseInv
  <1> SUFFICES ASSUME Init PROVE DenseInv
    OBVIOUS
  <1>1. \A p \in Proc : ~InWindow(p)
    BY DEF Init, Idle, InWindow
  <1>2. DOMAIN manifest = {}
    BY DEF Init
  <1> QED
    BY <1>1, <1>2, RawInit
    DEF DenseInv, WindowsApart, ReadStillCurrent, VersionsDense

\* A step that appends nothing and opens no window keeps the invariant.
LEMMA DenseLocal ==
    ASSUME DenseInv, RawInv', NEW p \in Proc, NEW s,
           proc' = [proc EXCEPT ![p] = s],
           UNCHANGED <<manifest, overlapped>>,
           s.pc \in {"put", "append"} => /\ InWindow(p)
                                         /\ s.match = proc[p].match
                                         /\ s.content = proc[p].content
                                         /\ s.seen = proc[p].seen
    PROVE  DenseInv'
  <1>1. \A q \in Proc : proc'[q] = IF q = p THEN s ELSE proc[q]
    BY DEF DenseInv, RawInv, TypeOK
  <1>2. \A q \in Proc : InWindow(q)' =>
            /\ InWindow(q)
            /\ proc'[q].match = proc[q].match
            /\ proc'[q].content = proc[q].content
            /\ proc'[q].seen = proc[q].seen
    BY <1>1 DEF InWindow
  <1>3. WindowsApart'
    BY <1>2 DEF DenseInv, WindowsApart
  <1>4. ReadStillCurrent'
    BY <1>2 DEF DenseInv, ReadStillCurrent, Existing
  <1>5. VersionsDense'
    BY DEF DenseInv, VersionsDense, VersionsOf, Existing
  <1> QED
    BY <1>3, <1>4, <1>5 DEF DenseInv

\* The step that reads the manifest opens a window on a current list, and
\* disputes the match when another window on it is open.
LEMMA DenseNotFound ==
    ASSUME DenseInv, RawInv', NEW p \in Proc, NotFound(p)
    PROVE  DenseInv'
  <1> DEFINE m == proc[p].match
             s == [proc[p] EXCEPT !.pc = "put", !.seen = Len(manifest)]
  <1>0. proc[p] \in ProcState /\ Len(manifest) \in Nat
    BY DEF DenseInv, RawInv, TypeOK
  <1>1. /\ s.pc = "put" /\ s.match = m /\ s.content = proc[p].content
        /\ s.seen = Len(manifest)
    BY <1>0 DEF ProcState
  <1>2. /\ proc' = [proc EXCEPT ![p] = s]
        /\ UNCHANGED manifest
        /\ Existing(m, proc[p].content) = {}
        /\ overlapped \subseteq overlapped'
        /\ \A q \in Proc : InWindow(q) /\ proc[q].match = m => m \in overlapped'
        /\ ~InWindow(p)
    BY DEF NotFound, InWindow
  <1>3. \A q \in Proc : proc'[q] = IF q = p THEN s ELSE proc[q]
    BY <1>2 DEF DenseInv, RawInv, TypeOK
  <1> HIDE DEF s
  <1>4. \A q \in Proc : InWindow(q)' <=> (q = p \/ InWindow(q))
    BY <1>1, <1>3 DEF InWindow
  <1>5. WindowsApart'
    BY <1>1, <1>2, <1>3, <1>4 DEF DenseInv, WindowsApart
  <1>6. ReadStillCurrent'
    <2> SUFFICES ASSUME NEW q \in Proc, InWindow(q)',
                        proc'[q].match \notin overlapped'
                 PROVE  /\ \A i \in DOMAIN manifest :
                              i > proc'[q].seen =>
                              manifest[i].match # proc'[q].match
                        /\ Existing(proc'[q].match, proc'[q].content) = {}
      BY <1>2 DEF ReadStillCurrent, Existing
    <2>1. CASE q = p
      <3>1. \A i \in DOMAIN manifest : ~(i > Len(manifest))
        BY DEF DenseInv, RawInv, TypeOK
      <3> QED
        BY <1>1, <1>2, <1>3, <2>1, <3>1
    <2>2. CASE q # p
      BY <1>2, <1>3, <1>4, <2>2 DEF DenseInv, ReadStillCurrent
    <2> QED
      BY <2>1, <2>2
  <1>7. VersionsDense'
    BY <1>2 DEF DenseInv, VersionsDense, VersionsOf, Existing
  <1> QED
    BY <1>5, <1>6, <1>7 DEF DenseInv

\* What VersionsDense says about match m and the line at i.
DenseAt(m, i) ==
    (manifest[i].match = m /\ m \notin overlapped) =>
        /\ manifest[i].version = Cardinality(VersionsOf(m, i))
        /\ \A j \in DOMAIN manifest :
              (manifest[j].match = m /\ manifest[j].hash = manifest[i].hash)
                  => j = i

\* VersionsDense, match by match and line by line.
LEMMA DensePointwise ==
    manifest \in Seq(Record) =>
        (VersionsDense <=>
            \A i \in DOMAIN manifest, m \in Match : DenseAt(m, i))
  <1> SUFFICES ASSUME manifest \in Seq(Record)
               PROVE  VersionsDense <=>
                        \A i \in DOMAIN manifest, m \in Match : DenseAt(m, i)
    OBVIOUS
  <1>1. \A i \in DOMAIN manifest : manifest[i] \in Record
    OBVIOUS
  <1> QED
    BY <1>1 DEF VersionsDense, DenseAt, Existing, Record

\* The append: on an undisputed match the list it was computed from is
\* current, so the number is the next one and the payload is new.
LEMMA DenseAppend ==
    ASSUME DenseInv, RawInv', NEW p \in Proc, AppendRecord(p), ~torn
    PROVE  DenseInv'
  <1>1. /\ proc[p] \in ProcState /\ proc[p].pc = "append" /\ InWindow(p)
        /\ proc[p].match \in Match /\ proc[p].content \in Content
        /\ proc[p].seen \in 0..Len(manifest)
        /\ manifest \in Seq(Record) /\ Len(manifest) \in Nat
        /\ manifest' \in Seq(Record)
    <2>1. TypeOK /\ LocalOK /\ TypeOK'
      BY DEF DenseInv, RawInv
    <2>2. proc[p].pc = "append"
      BY DEF AppendRecord
    <2>3. InWindow(p)
      BY <2>2 DEF InWindow
    <2>4. /\ proc[p].match \in Match /\ proc[p].content \in Content
          /\ proc[p].seen \in 0..Len(manifest)
      BY <2>1, <2>2, <2>3 DEF LocalOK, Resting
    <2> QED
      BY <2>1, <2>2, <2>3, <2>4 DEF TypeOK
  <1>2. NewRecord(proc[p]) \in Record
    BY <1>1, NewRecordType
  <1> PICK m \in Match : m = proc[p].match
    BY <1>1
  <1> PICK c \in Content : c = proc[p].content
    BY <1>1
  <1> PICK n \in Nat : n = proc[p].seen
    BY <1>1
  <1> PICK N \in Nat : N = Len(manifest)
    BY <1>1
  <1> PICK r \in Record : r = NewRecord(proc[p])
    BY <1>2
  <1>3. /\ r.match = m /\ r.hash = c
        /\ r.version = Cardinality(VersionsOf(m, n)) + 1
        /\ n \in 0..N
    BY <1>1 DEF NewRecord
  <1>4. /\ manifest' = Append(manifest, r)
        /\ proc' = [proc EXCEPT ![p] = Returned(p, r)]
        /\ UNCHANGED overlapped
    BY DEF AppendRecord
  <1>5. Returned(p, r).pc = "done"
    BY DEF Returned, Idle
  <1>6. /\ DOMAIN manifest = 1..N
        /\ DOMAIN manifest' = 1..(N + 1)
        /\ \A i \in 1..N : manifest'[i] = manifest[i]
        /\ manifest'[N + 1] = r
        /\ \A k \in Match : \A i \in 0..N : VersionsOf(k, i)' = VersionsOf(k, i)
        /\ VersionsOf(m, N + 1)' = VersionsOf(m, N) \cup {N + 1}
    BY <1>1, <1>3, <1>4, AppendVersions
  <1>7. \A i \in 1..(N + 1) : i \in 1..N \/ i = N + 1
    OBVIOUS
  <1>8. \A q \in Proc : InWindow(q)' =>
            InWindow(q) /\ q # p /\ proc'[q] = proc[q]
    BY <1>4, <1>5 DEF InWindow, DenseInv, RawInv, TypeOK
  <1>9. WindowsApart'
    BY <1>4, <1>8 DEF DenseInv, WindowsApart
  <1>10. ReadStillCurrent'
    <2> SUFFICES ASSUME NEW q \in Proc, InWindow(q)',
                        proc'[q].match \notin overlapped'
                 PROVE  (/\ \A i \in DOMAIN manifest :
                               i > proc[q].seen =>
                               manifest[i].match # proc[q].match
                         /\ Existing(proc[q].match, proc[q].content) = {})'
      BY DEF ReadStillCurrent
    <2>1. /\ q # p /\ InWindow(q) /\ proc'[q] = proc[q]
          /\ proc[q].match \notin overlapped
      BY <1>4, <1>8
    <2>2. proc[q].match # m
      BY <1>1, <2>1 DEF DenseInv, WindowsApart
    <2>3. /\ \A i \in 1..N : i > proc[q].seen =>
                             manifest[i].match # proc[q].match
          /\ \A i \in 1..N : ~(/\ manifest[i].match = proc[q].match
                               /\ manifest[i].hash = proc[q].content)
      BY <1>6, <2>1 DEF DenseInv, ReadStillCurrent, Existing
    <2> QED
      BY <1>3, <1>6, <1>7, <2>1, <2>2, <2>3 DEF Existing
  <1>11. m \notin overlapped =>
             /\ \A j \in 1..N : ~(manifest[j].match = m /\ manifest[j].hash = c)
             /\ VersionsOf(m, n) = VersionsOf(m, N)
    <2> SUFFICES ASSUME m \notin overlapped
                 PROVE  /\ \A j \in 1..N :
                             ~(manifest[j].match = m /\ manifest[j].hash = c)
                        /\ VersionsOf(m, n) = VersionsOf(m, N)
      OBVIOUS
    <2>1. /\ \A j \in 1..N : j > n => manifest[j].match # m
          /\ Existing(m, c) = {}
      BY <1>1, <1>6 DEF DenseInv, ReadStillCurrent
    <2>2. \A j \in 1..N : j \in 1..n \/ j > n
      BY <1>3
    <2>3. 1..n \subseteq 1..N
      BY <1>3
    <2> QED
      BY <1>6, <2>1, <2>2, <2>3 DEF VersionsOf, Existing
  <1>12. ASSUME NEW i \in 1..(N + 1), NEW k \in Match PROVE DenseAt(k, i)'
    <2> SUFFICES ASSUME manifest'[i].match = k, k \notin overlapped'
                 PROVE  (/\ manifest[i].version = Cardinality(VersionsOf(k, i))
                         /\ \A j \in DOMAIN manifest :
                              (/\ manifest[j].match = k
                               /\ manifest[j].hash = manifest[i].hash)
                                  => j = i)'
      BY DEF DenseAt
    <2>1. CASE i \in 1..N
      <3>1. DenseAt(k, i) /\ manifest[i].match = k /\ k \notin overlapped
        BY <1>1, <1>4, <1>6, <2>1, DensePointwise DEF DenseInv
      <3>2. VersionsOf(k, i)' = VersionsOf(k, i)
        BY <1>6, <2>1
      <3> QED
        BY <1>3, <1>6, <1>7, <1>11, <2>1, <3>1, <3>2 DEF DenseAt
    <2>2. CASE i = N + 1
      <3>1. k = m /\ m \notin overlapped
        BY <1>3, <1>4, <1>6, <2>2
      <3>2. /\ IsFiniteSet(VersionsOf(m, N))
            /\ Cardinality(VersionsOf(m, N)) \in Nat
        BY VersionsFinite
      <3>3. N + 1 \notin VersionsOf(m, N)
        BY DEF VersionsOf
      <3>4. Cardinality(VersionsOf(m, N) \cup {N + 1}) =
               Cardinality(VersionsOf(m, N)) + 1
        BY <3>2, <3>3, FS_AddElement
      <3> QED
        BY <1>3, <1>6, <1>7, <1>11, <2>2, <3>1, <3>4
    <2> QED
      BY <1>7, <2>1, <2>2
  <1>13. VersionsDense'
    <2>1. \A i \in 1..(N + 1) : manifest'[i] \in Record
      BY <1>1, <1>6
    <2> QED
      BY <1>6, <1>12, <2>1 DEF VersionsDense, DenseAt, Existing, Record
  <1> QED
    BY <1>9, <1>10, <1>13 DEF DenseInv

\* Every step keeps the versions dense.
LEMMA DenseStep == DenseInv /\ [Next]_vars => DenseInv'
  <1> SUFFICES ASSUME DenseInv, [Next]_vars PROVE DenseInv'
    OBVIOUS
  <1>0. RawInv' /\ TypeOK
    BY RawStep DEF DenseInv, RawInv
  <1>1. CASE UNCHANGED vars
    BY <1>0, <1>1 DEF vars, DenseInv, WindowsApart, ReadStillCurrent,
                      VersionsDense, VersionsOf, Existing, InWindow
  <1>2. ASSUME NEW p \in Proc, NEW m \in Match, Start(p, m) PROVE DenseInv'
    <2> DEFINE s == [Idle EXCEPT !.pc = "fetch", !.match = m, !.try = 1]
    <2>1. s.pc = "fetch"
      BY DEF Idle
    <2>2. /\ proc' = [proc EXCEPT ![p] = s]
          /\ UNCHANGED <<manifest, overlapped>>
      BY <1>2 DEF Start
    <2> HIDE DEF s
    <2> QED
      BY <1>0, <2>1, <2>2, DenseLocal
  <1>3. ASSUME NEW p \in Proc, NEW b \in BOOLEAN,
               proc' = [proc EXCEPT ![p] = Ended(p, b)],
               UNCHANGED <<manifest, overlapped>>
        PROVE  DenseInv'
    <2> DEFINE s == Ended(p, b)
    <2>1. s.pc \in {"idle", "up_for_retry"}
      BY <1>0, EndedType DEF TypeOK
    <2> HIDE DEF s
    <2>2. proc' = [proc EXCEPT ![p] = s]
      BY <1>3 DEF s
    <2> QED
      BY <1>0, <1>3, <2>1, <2>2, DenseLocal
  <1>4. ASSUME NEW p \in Proc, Proceed(p) PROVE DenseInv'
    <2>0. proc[p] \in ProcState
      BY <1>0 DEF TypeOK
    <2>1. CASE Retry(p)
      <3> DEFINE s == [proc[p] EXCEPT !.pc = "fetch", !.try = proc[p].try + 1]
      <3>1. s.pc = "fetch"
        BY <2>0 DEF ProcState
      <3>2. /\ proc' = [proc EXCEPT ![p] = s]
            /\ UNCHANGED <<manifest, overlapped>>
        BY <2>1 DEF Retry
      <3> HIDE DEF s
      <3> QED
        BY <1>0, <3>1, <3>2, DenseLocal
    <2>2. CASE Fetch(p)
      <3>1. PICK c \in Serves[proc[p].match] :
                proc' = [proc EXCEPT ![p].pc = "lookup", ![p].content = c]
        BY <2>2 DEF Fetch
      <3> DEFINE s == [proc[p] EXCEPT !.pc = "lookup", !.content = c]
      <3>2. s.pc = "lookup"
        BY <2>0 DEF ProcState
      <3>3. /\ proc' = [proc EXCEPT ![p] = s]
            /\ UNCHANGED <<manifest, overlapped>>
        BY <2>2, <3>1 DEF Fetch
      <3> HIDE DEF s
      <3> QED
        BY <1>0, <3>2, <3>3, DenseLocal
    <2>3. CASE AlreadyIngested(p)
      <3>1. PICK i : proc' = [proc EXCEPT ![p] = Returned(p, manifest[i])]
        BY <2>3 DEF AlreadyIngested
      <3>2. Returned(p, manifest[i]).pc = "done"
        BY DEF Returned, Idle
      <3> DEFINE s == Returned(p, manifest[i])
      <3>3. /\ proc' = [proc EXCEPT ![p] = s]
            /\ UNCHANGED <<manifest, overlapped>>
            /\ s.pc = "done"
        BY <2>3, <3>1, <3>2 DEF AlreadyIngested
      <3> HIDE DEF s
      <3> QED
        BY <1>0, <3>3, DenseLocal
    <2>4. CASE NotFound(p)
      BY <1>0, <2>4, DenseNotFound
    <2>5. CASE ManifestUnreadable(p)
      <3>1. RetryPolicy("JSONDecodeError") \in BOOLEAN
        BY DEF RetryPolicy
      <3> QED
        BY <2>5, <3>1, <1>3 DEF ManifestUnreadable
    <2>6. CASE PutRaw(p)
      <3> DEFINE s == [proc[p] EXCEPT !.pc = "append"]
      <3>1. /\ InWindow(p)
            /\ s.match = proc[p].match /\ s.content = proc[p].content
            /\ s.seen = proc[p].seen
        BY <2>0, <2>6 DEF PutRaw, InWindow, ProcState
      <3>2. /\ proc' = [proc EXCEPT ![p] = s]
            /\ UNCHANGED <<manifest, overlapped>>
        BY <2>6 DEF PutRaw
      <3> HIDE DEF s
      <3> QED
        BY <1>0, <3>1, <3>2, DenseLocal
    <2>7. CASE AppendRecord(p)
      <3>1. CASE torn
        <4>1. Returned(p, NewRecord(proc[p])).pc = "done"
          BY DEF Returned, Idle
        <4>2. /\ proc' = [proc EXCEPT ![p] = Returned(p, NewRecord(proc[p]))]
              /\ UNCHANGED <<manifest, overlapped>>
          BY <2>7, <3>1 DEF AppendRecord
        <4> QED
          BY <1>0, <4>1, <4>2, DenseLocal
      <3>2. CASE ~torn
        BY <1>0, <2>7, <3>2, DenseAppend
      <3> QED
        BY <3>1, <3>2
    <2> QED
      BY <1>4, <2>1, <2>2, <2>3, <2>4, <2>5, <2>6, <2>7 DEF Proceed
  <1>5. ASSUME NEW p \in Proc, GoWrong(p) PROVE DenseInv'
    <2>0. \A e : RetryPolicy(e) \in BOOLEAN
      BY DEF RetryPolicy
    <2>1. ASSUME NEW e \in Exception, FetchFails(p, e) PROVE DenseInv'
      BY <2>0, <2>1, <1>3 DEF FetchFails
    <2>2. CASE TearRecord(p)
      BY <2>0, <2>2, <1>3 DEF TearRecord
    <2>3. CASE StepFails(p)
      BY <2>0, <2>3, <1>3 DEF StepFails
    <2>4. CASE Crash(p)
      BY <2>4, <1>3 DEF Crash
    <2> QED
      BY <1>5, <2>1, <2>2, <2>3, <2>4 DEF GoWrong
  <1> QED
    BY <1>1, <1>2, <1>4, <1>5 DEF Next

\* On a match whose ingests did not overlap, source versions are 1, 2, 3, ...
\* and each payload has one, whatever other matches, crashes and retries do.
THEOREM VersionsAlwaysDense == Spec => []VersionsDense
  <1>1. DenseInv => VersionsDense
    BY DEF DenseInv
  <1> QED
    BY DenseInit, DenseStep, <1>1, PTL DEF Spec

-----------------------------------------------------------------------------
(* Version numbers where executions overlap, and what is handed on *)

\* A step appends a line, reads the manifest without finding the payload, or
\* leaves the lines alone; a record is then handed on by an execution that
\* found it, or whose line is lost behind an incomplete one.
LEMMA StepKinds ==
    ASSUME TypeOK, [Next]_vars
    PROVE  \/ \E p \in Proc : AppendRecord(p) /\ ~torn
           \/ \E p \in Proc : NotFound(p)
           \/ /\ UNCHANGED <<manifest, overlapped>>
              /\ torn => torn'
              /\ \A q \in Proc : proc'[q].pc = "done" =>
                    \/ proc'[q] = proc[q]
                    \/ AlreadyIngested(q)
                    \/ AppendRecord(q) /\ torn
  <1> DEFINE Quiet ==
        /\ UNCHANGED <<manifest, overlapped>>
        /\ torn => torn'
        /\ \A q \in Proc : proc'[q].pc = "done" =>
              \/ proc'[q] = proc[q]
              \/ AlreadyIngested(q)
              \/ AppendRecord(q) /\ torn
  <1>0. proc \in [Proc -> ProcState]
    BY DEF TypeOK
  <1>1. CASE UNCHANGED vars
    BY <1>1 DEF vars
  <1>2. ASSUME NEW p \in Proc, NEW s, s.pc # "done",
               proc' = [proc EXCEPT ![p] = s],
               UNCHANGED <<manifest, overlapped>>, torn => torn'
        PROVE  Quiet
    BY <1>0, <1>2
  <1>3. ASSUME NEW p \in Proc, NEW m \in Match, Start(p, m) PROVE Quiet
    <2>1. [Idle EXCEPT !.pc = "fetch", !.match = m, !.try = 1].pc # "done"
      BY DEF Idle
    <2> QED
      BY <1>2, <1>3, <2>1 DEF Start
  <1>4. ASSUME NEW p \in Proc, NEW b \in BOOLEAN,
               proc' = [proc EXCEPT ![p] = Ended(p, b)],
               UNCHANGED <<manifest, overlapped>>, torn => torn'
        PROVE  Quiet
    <2>1. Ended(p, b).pc # "done"
      BY <1>0, EndedType
    <2> QED
      BY <1>2, <1>4, <2>1
  <1>5. \A e : RetryPolicy(e) \in BOOLEAN
    BY DEF RetryPolicy
  <1>6. ASSUME NEW p \in Proc, GoWrong(p) PROVE Quiet
    <2>1. ASSUME NEW e, FetchFails(p, e) PROVE Quiet
      BY <1>4, <1>5, <2>1 DEF FetchFails
    <2>2. CASE TearRecord(p)
      BY <1>4, <1>5, <2>2 DEF TearRecord
    <2>3. CASE StepFails(p)
      BY <1>4, <1>5, <2>3 DEF StepFails
    <2>4. CASE Crash(p)
      BY <1>4, <2>4 DEF Crash
    <2> QED
      BY <1>6, <2>1, <2>2, <2>3, <2>4 DEF GoWrong
  <1>7. ASSUME NEW p \in Proc, Proceed(p)
        PROVE  Quiet \/ NotFound(p) \/ (AppendRecord(p) /\ ~torn)
    <2>0. proc[p] \in ProcState
      BY <1>0
    <2>1. CASE Retry(p)
      <3> DEFINE s == [proc[p] EXCEPT !.pc = "fetch", !.try = proc[p].try + 1]
      <3>1. s.pc = "fetch"
        BY <2>0 DEF ProcState
      <3>2. /\ proc' = [proc EXCEPT ![p] = s]
            /\ UNCHANGED <<manifest, overlapped, torn>>
        BY <2>1 DEF Retry
      <3> HIDE DEF s
      <3> QED
        BY <1>2, <3>1, <3>2
    <2>2. CASE Fetch(p)
      <3>1. PICK c \in Serves[proc[p].match] :
                proc' = [proc EXCEPT ![p].pc = "lookup", ![p].content = c]
        BY <2>2 DEF Fetch
      <3> DEFINE s == [proc[p] EXCEPT !.pc = "lookup", !.content = c]
      <3>2. s.pc = "lookup"
        BY <2>0 DEF ProcState
      <3>3. /\ proc' = [proc EXCEPT ![p] = s]
            /\ UNCHANGED <<manifest, overlapped, torn>>
        BY <2>2, <3>1 DEF Fetch
      <3> HIDE DEF s
      <3> QED
        BY <1>2, <3>2, <3>3
    <2>3. CASE AlreadyIngested(p)
      <3>1. PICK i : proc' = [proc EXCEPT ![p] = Returned(p, manifest[i])]
        BY <2>3 DEF AlreadyIngested
      <3> QED
        BY <1>0, <2>3, <3>1 DEF AlreadyIngested
    <2>4. CASE ManifestUnreadable(p)
      BY <1>4, <1>5, <2>4 DEF ManifestUnreadable
    <2>5. CASE PutRaw(p)
      <3>1. [proc[p] EXCEPT !.pc = "append"].pc = "append"
        BY <2>0 DEF ProcState
      <3> QED
        BY <1>2, <2>5, <3>1 DEF PutRaw
    <2>6. CASE AppendRecord(p) /\ torn
      BY <1>0, <2>6 DEF AppendRecord
    <2> QED
      BY <1>7, <2>1, <2>2, <2>3, <2>4, <2>5, <2>6 DEF Proceed
  <1> QED
    BY <1>1, <1>3, <1>6, <1>7 DEF Next

\* A line's number is at most the count of the match's lines so far: the list
\* an execution read may be old, but it is a prefix of the file.
LEMMA NeverAheadStep ==
    ASSUME RawInv, VersionsNeverAhead, [Next]_vars
    PROVE  VersionsNeverAhead'
  <1>1. CASE UNCHANGED manifest
    BY <1>1 DEF VersionsNeverAhead, VersionsOf
  <1>2. ASSUME NEW p \in Proc, AppendRecord(p), ~torn
        PROVE  VersionsNeverAhead'
    <2>1. /\ proc[p] \in ProcState /\ proc[p].pc = "append" /\ InWindow(p)
          /\ manifest \in Seq(Record)
      BY <1>2 DEF RawInv, TypeOK, AppendRecord, InWindow
    <2>2. /\ proc[p].match \in Match /\ proc[p].content \in Content
          /\ proc[p].seen \in 0..Len(manifest)
      BY <2>1 DEF RawInv, LocalOK, Resting
    <2>3. NewRecord(proc[p]) \in Record
      BY <2>1, <2>2, NewRecordType
    <2> PICK N \in Nat : N = Len(manifest)
      BY <2>1
    <2> PICK n \in 0..N : n = proc[p].seen
      BY <2>2
    <2> PICK m \in Match : m = proc[p].match
      BY <2>2
    <2> PICK r \in Record : r = NewRecord(proc[p])
      BY <2>3
    <2>4. /\ r.match = m /\ r.version = Cardinality(VersionsOf(m, n)) + 1
          /\ manifest' = Append(manifest, r)
      BY <1>2 DEF NewRecord, AppendRecord
    <2>5. /\ DOMAIN manifest = 1..N /\ DOMAIN manifest' = 1..(N + 1)
          /\ \A i \in 1..N : manifest'[i] = manifest[i]
          /\ manifest'[N + 1] = r
          /\ \A k : \A i \in 0..N : VersionsOf(k, i)' = VersionsOf(k, i)
          /\ VersionsOf(m, N + 1)' = VersionsOf(m, N) \cup {N + 1}
      BY <2>1, <2>4, AppendVersions
    <2> SUFFICES ASSUME NEW i \in 1..(N + 1)
                 PROVE  manifest'[i].version \in
                            1..Cardinality(VersionsOf(manifest[i].match, i)')
      BY <2>5 DEF VersionsNeverAhead
    <2>6. CASE i \in 1..N
      BY <2>5, <2>6 DEF VersionsNeverAhead
    <2>7. CASE i = N + 1
      <3>1. /\ IsFiniteSet(VersionsOf(m, N))
            /\ Cardinality(VersionsOf(m, N)) \in Nat
            /\ Cardinality(VersionsOf(m, n)) \in Nat
        BY VersionsFinite
      <3>2. VersionsOf(m, n) \subseteq VersionsOf(m, N)
        BY DEF VersionsOf
      <3>3. Cardinality(VersionsOf(m, n)) <= Cardinality(VersionsOf(m, N))
        BY <3>1, <3>2, FS_Subset
      <3>4. N + 1 \notin VersionsOf(m, N)
        BY DEF VersionsOf
      <3>5. Cardinality(VersionsOf(m, N) \cup {N + 1}) =
               Cardinality(VersionsOf(m, N)) + 1
        BY <3>1, <3>4, FS_AddElement
      <3>6. Cardinality(VersionsOf(m, N + 1)') = Cardinality(VersionsOf(m, N)) + 1
        BY <2>5, <3>5
      <3> QED
        BY <2>4, <2>5, <2>7, <3>1, <3>3, <3>6
    <2> QED
      BY <2>6, <2>7
  <1> QED
    BY <1>1, <1>2, StepKinds DEF RawInv, NotFound

\* Overlapping executions of a match may give two of its lines one version
\* number, but never a number that no earlier count of its lines justifies.
THEOREM VersionsAreNeverAhead == Spec => []VersionsNeverAhead
  <1>1. Init => VersionsNeverAhead
    BY DEF Init, VersionsNeverAhead
  <1> QED
    BY RawInit, RawStep, NeverAheadStep, <1>1, PTL DEF Spec

\* An execution hands on a record of the manifest, or one it lost behind an
\* incomplete line.
LEMMA ReturnedStep ==
    ASSUME RawInv, ReturnedIsRegistered, [Next]_vars
    PROVE  ReturnedIsRegistered'
  <1>0. TypeOK /\ proc \in [Proc -> ProcState]
    BY DEF RawInv, TypeOK
  <1>1. ASSUME NEW p \in Proc, AppendRecord(p), ~torn
        PROVE  ReturnedIsRegistered'
    <2>1. /\ proc[p] \in ProcState /\ proc[p].pc = "append"
          /\ manifest \in Seq(Record)
      BY <1>0, <1>1 DEF TypeOK, AppendRecord
    <2>2. proc[p].match \in Match /\ proc[p].content \in Content
      BY <2>1 DEF RawInv, LocalOK, Resting
    <2>3. NewRecord(proc[p]) \in Record
      BY <2>1, <2>2, NewRecordType
    <2> PICK N \in Nat : N = Len(manifest)
      BY <2>1
    <2> PICK r \in Record : r = NewRecord(proc[p])
      BY <2>3
    <2>4. /\ r.match = proc[p].match /\ r.hash = proc[p].content
          /\ manifest' = Append(manifest, r)
          /\ proc' = [proc EXCEPT ![p] = Returned(p, r)]
      BY <1>1 DEF NewRecord, AppendRecord
    <2>5. /\ DOMAIN manifest = 1..N /\ DOMAIN manifest' = 1..(N + 1)
          /\ \A i \in 1..N : manifest'[i] = manifest[i]
          /\ manifest'[N + 1] = r
      BY <2>1, <2>4, AppendVersions
    <2>6. /\ Returned(p, r).match = proc[p].match
          /\ Returned(p, r).content = proc[p].content
          /\ Returned(p, r).result = r
      BY DEF Returned, Idle
    <2>7. ~torn'
      BY <1>1 DEF AppendRecord
    <2> SUFFICES ASSUME NEW q \in Proc, proc'[q].pc = "done"
                 PROVE  /\ proc'[q].result.match = proc'[q].match
                        /\ proc'[q].result.hash = proc'[q].content
                        /\ \E i \in DOMAIN manifest' : manifest'[i] = proc'[q].result
      BY DEF ReturnedIsRegistered
    <2>8. CASE q = p
      BY <1>0, <2>4, <2>5, <2>6, <2>8
    <2>9. CASE q # p
      <3>1. proc'[q] = proc[q]
        BY <1>0, <2>4, <2>9
      <3>2. PICK i \in DOMAIN manifest : manifest[i] = proc[q].result
        BY <1>1, <3>1 DEF ReturnedIsRegistered
      <3>3. i \in DOMAIN manifest' /\ manifest'[i] = proc'[q].result
        BY <2>5, <3>1, <3>2
      <3> QED
        BY <3>1, <3>3 DEF ReturnedIsRegistered
    <2> QED
      BY <2>8, <2>9
  <1>2. ASSUME NEW p \in Proc, NotFound(p)
        PROVE  ReturnedIsRegistered'
    <2> DEFINE s == [proc[p] EXCEPT !.pc = "put", !.seen = Len(manifest)]
    <2>1. /\ proc' = [proc EXCEPT ![p] = s]
          /\ UNCHANGED <<manifest, torn>>
      BY <1>2 DEF NotFound
    <2>2. s.pc = "put"
      BY <1>0 DEF ProcState
    <2> HIDE DEF s
    <2> QED
      BY <1>0, <2>1, <2>2 DEF ReturnedIsRegistered
  <1>3. ASSUME UNCHANGED manifest, torn => torn',
               \A q \in Proc : proc'[q].pc = "done" =>
                    \/ proc'[q] = proc[q]
                    \/ AlreadyIngested(q)
                    \/ AppendRecord(q) /\ torn
        PROVE  ReturnedIsRegistered'
    <2> SUFFICES ASSUME NEW q \in Proc, proc'[q].pc = "done"
                 PROVE  /\ proc'[q].result.match = proc'[q].match
                        /\ proc'[q].result.hash = proc'[q].content
                        /\ \/ torn'
                           \/ \E i \in DOMAIN manifest : manifest[i] = proc'[q].result
      BY <1>3 DEF ReturnedIsRegistered
    <2>1. CASE proc'[q] = proc[q]
      BY <1>3, <2>1 DEF ReturnedIsRegistered
    <2>2. CASE AlreadyIngested(q)
      <3>1. PICK i \in Existing(proc[q].match, proc[q].content) :
                proc' = [proc EXCEPT ![q] = Returned(q, manifest[i])]
        BY <2>2 DEF AlreadyIngested
      <3>2. proc'[q] = Returned(q, manifest[i])
        BY <1>0, <3>1
      <3>3. /\ proc'[q].match = proc[q].match
            /\ proc'[q].content = proc[q].content
            /\ proc'[q].result = manifest[i]
        BY <3>2 DEF Returned, Idle
      <3>4. /\ i \in DOMAIN manifest
            /\ manifest[i].match = proc[q].match
            /\ manifest[i].hash = proc[q].content
        BY <3>1 DEF Existing
      <3> QED
        BY <3>3, <3>4
    <2>3. CASE AppendRecord(q) /\ torn
      <3>1. proc'[q] = Returned(q, NewRecord(proc[q]))
        BY <1>0, <2>3 DEF AppendRecord
      <3> QED
        BY <1>3, <2>3, <3>1 DEF Returned, Idle, NewRecord
    <2> QED
      BY <1>3, <2>1, <2>2, <2>3
  <1> QED
    BY <1>0, <1>1, <1>2, <1>3, StepKinds

\* The record the bronze task gets is of the match and payload that were
\* asked for, and is a line of the manifest unless the file was torn.
THEOREM ReturnedIsAlwaysRegistered == Spec => []ReturnedIsRegistered
  <1>1. Init => ReturnedIsRegistered
    BY DEF Init, ReturnedIsRegistered, Idle
  <1> QED
    BY RawInit, RawStep, ReturnedStep, <1>1, PTL DEF Spec

-----------------------------------------------------------------------------
(* The manifest implements the ledger *)

\* How many lines of match m the manifest has.
Lines(m) == Cardinality(VersionsOf(m, Len(manifest)))

\* Every rank up to the number of a match's lines is the rank of one of them.
RanksTaken ==
    \A m \in Match : \A n \in 1..Lines(m) :
        \E i \in VersionsOf(m, Len(manifest)) : Cardinality(VersionsOf(m, i)) = n

\* Under what the mapping to the ledger is a step of it.
LedgerInv == DenseInv /\ RanksTaken

\* Different lines of a match have different ranks, and none exceeds the
\* number of its lines.
LEMMA RanksDiffer ==
    ASSUME NEW m, NEW N \in Nat, NEW i \in VersionsOf(m, N)
    PROVE  /\ i \in VersionsOf(m, i)
           /\ Cardinality(VersionsOf(m, i)) \in 1..Cardinality(VersionsOf(m, N))
           /\ \A j \in VersionsOf(m, N) :
                 Cardinality(VersionsOf(m, j)) = Cardinality(VersionsOf(m, i)) => j = i
  <1>0. i \in Nat /\ i \in 1..N /\ manifest[i].match = m
    BY DEF VersionsOf
  <1>1. i \in VersionsOf(m, i)
    BY <1>0 DEF VersionsOf
  <1>2. \A j \in Nat : /\ IsFiniteSet(VersionsOf(m, j))
                       /\ Cardinality(VersionsOf(m, j)) \in Nat
    BY VersionsFinite
  <1>3. Cardinality(VersionsOf(m, i)) <= Cardinality(VersionsOf(m, N))
    <2>1. VersionsOf(m, i) \subseteq VersionsOf(m, N)
      BY <1>0 DEF VersionsOf
    <2> QED
      BY <1>2, <2>1, FS_Subset
  <1>4. Cardinality(VersionsOf(m, i)) # 0
    BY <1>0, <1>1, <1>2, FS_EmptySet
  <1>5. ASSUME NEW j \in Nat, NEW k \in VersionsOf(m, N), j < k
        PROVE  Cardinality(VersionsOf(m, j)) < Cardinality(VersionsOf(m, k))
    <2>1. k \in Nat /\ k \in VersionsOf(m, k) /\ k \notin VersionsOf(m, j)
      BY <1>5 DEF VersionsOf
    <2>2. VersionsOf(m, j) \subseteq VersionsOf(m, k)
      BY <1>5, <2>1 DEF VersionsOf
    <2>3. /\ Cardinality(VersionsOf(m, j)) <= Cardinality(VersionsOf(m, k))
          /\ Cardinality(VersionsOf(m, j)) # Cardinality(VersionsOf(m, k))
      BY <1>2, <2>1, <2>2, FS_Subset
    <2> QED
      BY <1>2, <2>1, <2>3
  <1>6. ASSUME NEW j \in VersionsOf(m, N),
               Cardinality(VersionsOf(m, j)) = Cardinality(VersionsOf(m, i))
        PROVE  j = i
    <2>1. j \in Nat
      BY DEF VersionsOf
    <2>2. ~(j < i) /\ ~(i < j)
      BY <1>0, <1>2, <1>5, <1>6, <2>1
    <2> QED
      BY <1>0, <2>1, <2>2
  <1> QED
    BY <1>0, <1>1, <1>2, <1>3, <1>4, <1>6

\* The n-th line of a match is the line of rank n.
LEMMA NthLineRank ==
    ASSUME RanksTaken, manifest \in Seq(Record), NEW m \in Match,
           NEW n \in 1..Lines(m)
    PROVE  /\ NthLine(m, n) \in VersionsOf(m, Len(manifest))
           /\ Cardinality(VersionsOf(m, NthLine(m, n))) = n
           /\ manifest[NthLine(m, n)] \in Record
           /\ manifest[NthLine(m, n)].match = m
  <1>1. \E i \in VersionsOf(m, Len(manifest)) : Cardinality(VersionsOf(m, i)) = n
    BY DEF RanksTaken
  <1>2. /\ NthLine(m, n) \in VersionsOf(m, Len(manifest))
        /\ Cardinality(VersionsOf(m, NthLine(m, n))) = n
    BY <1>1 DEF NthLine
  <1> QED
    BY <1>2 DEF VersionsOf

\* A new line gets the next rank of its match; every other line keeps its own.
LEMMA LineAppended ==
    ASSUME RanksTaken, manifest \in Seq(Record), NEW r \in Record,
           manifest' = Append(manifest, r), NEW m \in Match
    PROVE  /\ Lines(m) \in Nat
           /\ Lines(m)' = IF m = r.match THEN Lines(m) + 1 ELSE Lines(m)
           /\ \A n \in 1..Lines(m)' :
                 /\ \E i \in VersionsOf(m, Len(manifest))' :
                       Cardinality(VersionsOf(m, i))' = n
                 /\ manifest'[NthLine(m, n)'] =
                       IF n \in 1..Lines(m) THEN manifest[NthLine(m, n)] ELSE r
  <1> PICK N \in Nat : N = Len(manifest)
    OBVIOUS
  <1> DEFINE V(i) == VersionsOf(m, i)
             W(i) == VersionsOf(m, i)'
             L == Cardinality(V(N))
  <1>1. /\ DOMAIN manifest = 1..N /\ DOMAIN manifest' = 1..(N + 1)
        /\ \A i \in 1..N : manifest'[i] = manifest[i]
        /\ manifest'[N + 1] = r
        /\ \A i \in 0..N : W(i) = V(i)
        /\ Len(manifest') = N + 1
    BY AppendVersions
  <1>2. W(N + 1) = IF m = r.match THEN V(N) \cup {N + 1} ELSE V(N)
    <2>1. CASE m = r.match
      BY <2>1, AppendVersions
    <2>2. CASE m # r.match
      BY <1>1, <2>2 DEF VersionsOf
    <2> QED
      BY <2>1, <2>2
  <1>3. /\ IsFiniteSet(V(N)) /\ L \in Nat /\ N + 1 \notin V(N)
        /\ Lines(m) = L
    <2>1. IsFiniteSet(V(N)) /\ L \in Nat
      BY VersionsFinite
    <2>2. N + 1 \notin V(N)
      BY DEF VersionsOf
    <2> QED
      BY <2>1, <2>2 DEF Lines
  <1>4. Cardinality(V(N) \cup {N + 1}) = L + 1
    BY <1>3, FS_AddElement
  <1>5. Lines(m)' = IF m = r.match THEN L + 1 ELSE L
    <2>1. Lines(m)' = Cardinality(W(N + 1))
      BY <1>1 DEF Lines
    <2> QED
      BY <1>2, <1>4, <2>1
  <1>6. \A i \in V(N) : i \in 1..N /\ V(i) = W(i)
    <2>1. \A i \in V(N) : i \in 1..N
      BY DEF VersionsOf
    <2> QED
      BY <1>1, <2>1
  <1>7. \A i \in V(N) : /\ Cardinality(V(i)) \in 1..L
                        /\ \A j \in V(N) :
                              Cardinality(V(j)) = Cardinality(V(i)) => j = i
    BY RanksDiffer
  <1>8. \A n \in 1..L : NthLine(m, n) \in V(N) /\ Cardinality(V(NthLine(m, n))) = n
    BY <1>3, NthLineRank
  <1> SUFFICES ASSUME NEW n \in 1..Lines(m)'
               PROVE  /\ \E i \in W(N + 1) : Cardinality(W(i)) = n
                      /\ manifest'[CHOOSE i \in W(N + 1) : Cardinality(W(i)) = n] =
                            IF n \in 1..L THEN manifest[NthLine(m, n)] ELSE r
    BY <1>1, <1>3, <1>5 DEF NthLine
  <1> PICK k : k = CHOOSE i \in W(N + 1) : Cardinality(W(i)) = n
    OBVIOUS
  <1>9. CASE n \in 1..L
    <2> PICK z : z = NthLine(m, n)
      OBVIOUS
    <2>0. z \in V(N) /\ Cardinality(V(z)) = n
      BY <1>8, <1>9
    <2>1. z \in W(N + 1) /\ Cardinality(W(z)) = n
      BY <1>2, <1>6, <2>0
    <2>2. k \in W(N + 1) /\ Cardinality(W(k)) = n
      BY <2>1
    <2>3. k # N + 1
      BY <1>2, <1>3, <1>4, <1>9, <2>2
    <2>4. k \in V(N) /\ Cardinality(V(k)) = n
      BY <1>2, <1>6, <2>2, <2>3
    <2>5. k = z
      BY <1>7, <2>0, <2>4
    <2>6. manifest'[k] = manifest[z]
      BY <1>1, <1>6, <2>4, <2>5
    <2> QED
      BY <1>9, <2>1, <2>6
  <1>10. CASE n \notin 1..L
    <2>1. m = r.match /\ n = L + 1
      BY <1>3, <1>5, <1>10
    <2>2. N + 1 \in W(N + 1) /\ Cardinality(W(N + 1)) = n
      BY <1>2, <1>4, <2>1
    <2>3. k \in W(N + 1) /\ Cardinality(W(k)) = n
      BY <2>2
    <2>4. k = N + 1
      <3>1. CASE k \in V(N)
        BY <1>3, <1>6, <1>7, <2>1, <2>3, <3>1
      <3> QED
        BY <1>2, <2>3, <3>1
    <2> QED
      BY <1>1, <1>10, <2>2, <2>4
  <1> QED
    BY <1>9, <1>10

\* The payloads of a match's lines are a sequence of the ledger.
LEMMA KnownType ==
    ASSUME RanksTaken, manifest \in Seq(Record), NEW m \in Match
    PROVE  /\ Lines(m) \in Nat
           /\ Known(m) \in Seq(Content)
           /\ Len(Known(m)) = Lines(m)
           /\ DOMAIN Known(m) = 1..Lines(m)
           /\ \A n \in 1..Lines(m) : Known(m)[n] = manifest[NthLine(m, n)].hash
  <1>1. Lines(m) \in Nat
    BY VersionsFinite DEF Lines
  <1>2. \A n \in 1..Lines(m) : manifest[NthLine(m, n)].hash \in Content
    BY NthLineRank DEF Record
  <1>3. Known(m) = [n \in 1..Lines(m) |-> manifest[NthLine(m, n)].hash]
    BY DEF Known, Lines
  <1> QED
    BY <1>1, <1>2, <1>3

\* An append is a registration in the ledger.
LEMMA AppendRegisters ==
    ASSUME LedgerInv, NEW p \in Proc, AppendRecord(p), ~torn
    PROVE  RanksTaken' /\ Ledger!Next
  <1>1. /\ TypeOK /\ LocalOK /\ ReadStillCurrent /\ RanksTaken
        /\ manifest \in Seq(Record) /\ proc[p] \in ProcState
        /\ proc[p].pc = "append" /\ InWindow(p)
    BY DEF LedgerInv, DenseInv, RawInv, TypeOK, AppendRecord, InWindow
  <1>2. /\ proc[p].match \in Match /\ proc[p].content \in Content
        /\ proc[p].seen \in 0..Len(manifest)
    BY <1>1 DEF LocalOK, Resting
  <1>3. NewRecord(proc[p]) \in Record
    BY <1>1, <1>2, NewRecordType
  <1> PICK r \in Record : r = NewRecord(proc[p])
    BY <1>3
  <1>4. /\ r.match = proc[p].match /\ r.hash = proc[p].content
        /\ manifest' = Append(manifest, r)
        /\ UNCHANGED overlapped
    BY DEF NewRecord, AppendRecord
  <1>5. r.match \in Match /\ r.hash \in Content
    BY <1>2, <1>4
  <1>6. RanksTaken'
    BY <1>1, <1>4, LineAppended DEF RanksTaken
  <1>7. ASSUME NEW m \in Match, m # r.match PROVE Known(m)' = Known(m)
    <2>1. /\ Lines(m)' = Lines(m)
          /\ \A n \in 1..Lines(m) : manifest'[NthLine(m, n)'] = manifest[NthLine(m, n)]
      BY <1>1, <1>4, <1>7, LineAppended
    <2>2. Known(m)' = [n \in 1..Lines(m)' |-> manifest'[NthLine(m, n)'].hash]
      BY DEF Known, Lines
    <2>3. Known(m) = [n \in 1..Lines(m) |-> manifest[NthLine(m, n)].hash]
      BY DEF Known, Lines
    <2> QED
      BY <2>1, <2>2, <2>3
  <1>8. Known(r.match)' = Append(Known(r.match), r.hash)
    <2> DEFINE m == r.match
    <2>1. /\ Lines(m)' = Lines(m) + 1
          /\ \A n \in 1..(Lines(m) + 1) : manifest'[NthLine(m, n)'] =
                IF n \in 1..Lines(m) THEN manifest[NthLine(m, n)] ELSE r
      BY <1>1, <1>4, <1>5, LineAppended
    <2>2. Known(m)' = [n \in 1..(Lines(m) + 1) |-> manifest'[NthLine(m, n)'].hash]
      BY <2>1 DEF Known, Lines
    <2>3. /\ Lines(m) \in Nat
          /\ Known(m) \in Seq(Content)
          /\ Len(Known(m)) = Lines(m)
          /\ \A n \in 1..Lines(m) : Known(m)[n] = manifest[NthLine(m, n)].hash
      BY <1>1, <1>5, KnownType
    <2>4. Append(Known(m), r.hash) =
             [n \in 1..(Lines(m) + 1) |->
                 IF n \in 1..Lines(m) THEN Known(m)[n] ELSE r.hash]
      BY <1>5, <2>3
    <2> QED
      BY <2>1, <2>2, <2>3, <2>4
  <1>9. ASSUME r.match \notin overlapped PROVE r.hash \notin Ledger!Payloads(r.match)
    <2>1. Existing(r.match, r.hash) = {}
      BY <1>1, <1>4, <1>9 DEF ReadStillCurrent
    <2>2. ASSUME NEW n \in 1..Lines(r.match) PROVE Known(r.match)[n] # r.hash
      <3> PICK z : z = NthLine(r.match, n)
        OBVIOUS
      <3>1. z \in VersionsOf(r.match, Len(manifest)) /\ manifest[z].match = r.match
        BY <1>1, <1>5, NthLineRank
      <3>2. z \in DOMAIN manifest
        BY <1>1, <3>1 DEF VersionsOf
      <3>3. manifest[z].hash # r.hash
        BY <2>1, <3>1, <3>2 DEF Existing
      <3> QED
        BY <1>1, <1>5, <3>3, KnownType
    <2> QED
      BY <1>1, <1>5, <2>2, KnownType DEF Ledger!Payloads
  <1>10. Ledger!Register(r.match, r.hash)
    <2> DEFINE known == [m \in Match |-> Known(m)]
    <2>1. known' = [m \in Match |-> Known(m)']
      OBVIOUS
    <2>2. known' = [known EXCEPT ![r.match] = Append(known[r.match], r.hash)]
      BY <1>5, <1>7, <1>8, <2>1
    <2> QED
      BY <1>4, <1>5, <1>9, <2>2 DEF Ledger!Register
  <1> QED
    BY <1>5, <1>6, <1>10 DEF Ledger!Next

\* Every other step leaves the ledger alone or disputes a match.
LEMMA LedgerStep ==
    ASSUME LedgerInv, [Next]_vars
    PROVE  RanksTaken' /\ [Ledger!Next]_(Ledger!vars)
  <1>1. ASSUME UNCHANGED manifest
        PROVE  RanksTaken' /\ \A m \in Match : Known(m)' = Known(m)
    BY <1>1 DEF LedgerInv, RanksTaken, Lines, VersionsOf, Known, NthLine
  <1>2. ASSUME UNCHANGED <<manifest, overlapped>>
        PROVE  RanksTaken' /\ UNCHANGED Ledger!vars
    BY <1>1, <1>2 DEF Ledger!vars
  <1>3. ASSUME NEW p \in Proc, NotFound(p)
        PROVE  RanksTaken' /\ [Ledger!Next]_(Ledger!vars)
    <2>1. UNCHANGED manifest
      BY <1>3 DEF NotFound
    <2>2. overlapped' = overlapped \/ overlapped' = overlapped \cup {proc[p].match}
      BY <1>3 DEF NotFound
    <2>3. proc[p].match \in Match
      BY <1>3 DEF NotFound, LedgerInv, DenseInv, RawInv, LocalOK, Resting
    <2>4. CASE overlapped' = overlapped
      BY <1>2, <2>1, <2>4
    <2>5. CASE overlapped' = overlapped \cup {proc[p].match}
      <3>1. Ledger!Dispute(proc[p].match)
        BY <1>1, <2>1, <2>5 DEF Ledger!Dispute
      <3> QED
        BY <1>1, <2>1, <2>3, <3>1 DEF Ledger!Next
    <2> QED
      BY <2>2, <2>4, <2>5
  <1>4. TypeOK
    BY DEF LedgerInv, DenseInv, RawInv
  <1> QED
    BY <1>2, <1>3, <1>4, AppendRegisters, StepKinds

\* The lines of the manifest are, match by match, the ledger of distinct
\* payloads in the order of their registration, except for a match two
\* executions worked on at once, which only grows.
THEOREM ManifestImplementsLedger == Spec => LedgerSpec
  <1>1. Init => RanksTaken /\ Ledger!Init
    <2> SUFFICES ASSUME Init PROVE RanksTaken /\ Ledger!Init
      OBVIOUS
    <2>1. \A m \in Match : Lines(m) = 0
      BY FS_EmptySet DEF Init, Lines, VersionsOf
    <2>2. \A m \in Match : Known(m) = <<>>
      BY <2>1 DEF Known, Lines
    <2> QED
      BY <2>1, <2>2 DEF Init, RanksTaken, Ledger!Init
  <1>2. LedgerInv /\ [Next]_vars => LedgerInv' /\ [Ledger!Next]_(Ledger!vars)
    BY DenseStep, LedgerStep DEF LedgerInv
  <1>3. Init => LedgerInv
    BY <1>1, DenseInit DEF LedgerInv
  <1> QED
    BY <1>1, <1>2, <1>3, PTL DEF Spec, LedgerSpec, Ledger!Spec
=============================================================================
