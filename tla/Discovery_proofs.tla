-------------------------- MODULE Discovery_proofs --------------------------
(***************************************************************************)
(* Proofs about Discovery, for any listing, season, scopes, batch size,    *)
(* number of discovery runs and number of failures.                        *)
(***************************************************************************)
EXTENDS Discovery, TLAPS

\* While bulk triggers, each match it listed is still to be triggered, or was
\* in the manifest when it looked, or has its bulk run.
BulkAccounts ==
    ctl[Bulk].phase = "trigger" =>
        \A m \in ctl[Bulk].scope :
            \/ m \in ctl[Bulk].configs
            \/ m \in ingested
            \/ dagrun[RunIdOf(Bulk, m)] # "none"

\* What makes BulkLeavesNoneBehind hold of every step.
DiscoveryInv == TypeOK /\ BulkAccounts

-----------------------------------------------------------------------------
\* A selection takes none but the missing matches, and bulk takes them all.
LEMMA SelectionOf ==
    ASSUME NEW c, NEW S \in SUBSET Match
    PROVE  /\ Selection(c, S) \subseteq S
           /\ Selection(Bulk, S) = S
  BY DEF Selection, FirstOf

\* Nothing is listed and nobody acts.
LEMMA DiscoveryInit == Init => DiscoveryInv
  <1> SUFFICES ASSUME Init PROVE DiscoveryInv
    OBVIOUS
  <1>1. Resting \in Controllers /\ Resting.phase = "rest"
    BY DEF Resting, Controllers
  <1>2. ctl \in [Controller -> Controllers] /\ ctl[Bulk].phase = "rest"
    BY <1>1 DEF Init, Controller
  <1>3. failures \in 0..MaxFailures
    BY ControllerAssumption DEF Init
  <1>4. dagrun \in [RunId -> RunState]
    BY DEF Init, RunState
  <1> QED
    BY <1>2, <1>3, <1>4 DEF Init, DiscoveryInv, TypeOK, BulkAccounts

\* Worker runs come and go, but none that was created is forgotten.
LEMMA WorkerSteps ==
    ASSUME DiscoveryInv, NEW id \in RunId,
           BeginRun(id) \/ IngestDone(id) \/ EndRun(id)
    PROVE  DiscoveryInv'
  <1>0. TypeOK /\ BulkAccounts /\ MatchOf(id) \in Match
    BY DEF DiscoveryInv, MatchOf, RunId
  <1>1. PICK s \in RunState \ {"none"} : dagrun' = [dagrun EXCEPT ![id] = s]
    BY DEF BeginRun, IngestDone, EndRun, RunState
  <1>2. /\ UNCHANGED <<listed, described, ctl, failures>>
        /\ ingested \subseteq ingested' /\ ingested' \subseteq Match
    BY <1>0 DEF BeginRun, IngestDone, EndRun, TypeOK
  <1>3. TypeOK'
    BY <1>0, <1>1, <1>2 DEF TypeOK
  <1>4. \A other \in RunId : dagrun[other] # "none" => dagrun'[other] # "none"
    BY <1>0, <1>1 DEF TypeOK
  <1>5. ASSUME NEW m \in Match PROVE RunIdOf(Bulk, m) \in RunId
    BY DEF RunIdOf, RunId
  <1>6. BulkAccounts'
    <2> SUFFICES ASSUME ctl[Bulk].phase = "trigger", NEW m \in ctl[Bulk].scope
                 PROVE  \/ m \in ctl[Bulk].configs
                        \/ m \in ingested'
                        \/ dagrun'[RunIdOf(Bulk, m)] # "none"
      BY <1>2 DEF BulkAccounts, RunIdOf
    <2>1. m \in Match
      BY <1>0 DEF TypeOK, Controllers, Controller
    <2> QED
      BY <1>0, <1>2, <1>4, <1>5, <2>1 DEF BulkAccounts
  <1> QED
    BY <1>3, <1>6 DEF DiscoveryInv

\* A controller changes its own entry, and no run that exists.
LEMMA ControllerSteps ==
    ASSUME DiscoveryInv, NEW c \in Controller,
           ListMatches(c) \/ Control(c) \/ ControllerFails(c)
    PROVE  DiscoveryInv'
  <1>0. /\ TypeOK /\ BulkAccounts
        /\ ctl \in [Controller -> Controllers] /\ ctl[c] \in Controllers
        /\ Bulk \in Controller
    BY DEF DiscoveryInv, TypeOK, Controller
  <1>1. ASSUME NEW s \in Controllers, ctl' = [ctl EXCEPT ![c] = s],
               s.phase # "trigger", UNCHANGED <<listed, ingested, dagrun>>,
               described' \subseteq Match, failures' \in 0..MaxFailures
        PROVE  DiscoveryInv'
    <2>1. TypeOK'
      BY <1>0, <1>1 DEF TypeOK
    <2>2. BulkAccounts'
      BY <1>0, <1>1 DEF BulkAccounts, RunIdOf
    <2> QED
      BY <2>1, <2>2 DEF DiscoveryInv
  <1>2. CASE ListMatches(c)
    <2>1. PICK S \in IF c = Bulk THEN BulkScopes ELSE {Season} :
              /\ IF c = Bulk THEN UNCHANGED described ELSE Upsert(listed \cap S)
              /\ ctl' = [ctl EXCEPT ![c].phase = "find", ![c].scope = listed \cap S]
      BY <1>2 DEF ListMatches
    <2> DEFINE s == [ctl[c] EXCEPT !.phase = "find", !.scope = listed \cap S]
    <2>2. listed \cap S \in SUBSET Match
      BY <1>0 DEF TypeOK
    <2>3. s \in Controllers /\ s.phase = "find"
      BY ONLY <1>0, <2>2 DEF Controllers
    <2>4. ctl' = [ctl EXCEPT ![c] = s]
      BY <2>1
    <2>5. described' \subseteq Match
      BY <1>0, <2>1, <2>2 DEF Upsert, TypeOK
    <2>6. UNCHANGED <<listed, ingested, dagrun, failures>>
      BY <1>2 DEF ListMatches
    <2> HIDE DEF s
    <2> QED
      BY <1>0, <1>1, <2>3, <2>4, <2>5, <2>6 DEF TypeOK
  <1>3. CASE Find(c)
    <2> DEFINE chosen == Selection(c, ctl[c].scope \ ingested)
               s == [ctl[c] EXCEPT !.phase = "trigger", !.configs = chosen]
    <2>0. ctl[c].scope \ ingested \in SUBSET Match
      BY <1>0 DEF Controllers
    <2>1. chosen \in SUBSET Match /\ (c = Bulk => chosen = ctl[c].scope \ ingested)
      BY <2>0, SelectionOf
    <2>2. s \in Controllers /\ s.scope = ctl[c].scope /\ s.configs = chosen
      BY ONLY <1>0, <2>1 DEF Controllers
    <2>3. /\ ctl' = [ctl EXCEPT ![c] = s]
          /\ UNCHANGED <<listed, described, ingested, dagrun, failures>>
      BY <1>3 DEF Find
    <2> HIDE DEF s, chosen
    <2>4. TypeOK'
      BY <1>0, <2>2, <2>3 DEF TypeOK
    <2>5. BulkAccounts'
      <3>1. CASE c = Bulk
        BY <1>0, <2>1, <2>2, <2>3, <3>1 DEF BulkAccounts
      <3>2. CASE c # Bulk
        BY <1>0, <2>3, <3>2 DEF BulkAccounts, RunIdOf
      <3> QED
        BY <3>1, <3>2
    <2> QED
      BY <2>4, <2>5 DEF DiscoveryInv
  <1>4. ASSUME NEW m \in Match, TriggerRun(c, m) PROVE DiscoveryInv'
    <2> DEFINE id == RunIdOf(c, m)
               s == [ctl[c] EXCEPT !.configs = ctl[c].configs \ {m}]
    <2>0. id \in RunId
      BY DEF RunIdOf, RunId
    <2>1. /\ s \in Controllers /\ s.scope = ctl[c].scope
          /\ s.phase = ctl[c].phase /\ s.configs = ctl[c].configs \ {m}
      BY ONLY <1>0 DEF Controllers
    <2>2. /\ ctl' = [ctl EXCEPT ![c] = s]
          /\ dagrun' = IF dagrun[id] = "none" THEN [dagrun EXCEPT ![id] = "queued"]
                                              ELSE dagrun
          /\ UNCHANGED <<listed, described, ingested, failures>>
      BY <1>4 DEF TriggerRun
    <2> HIDE DEF s
    <2>3. TypeOK'
      BY <1>0, <2>0, <2>1, <2>2 DEF TypeOK, RunState
    <2>4. /\ dagrun'[id] # "none"
          /\ \A other \in RunId : dagrun[other] # "none" => dagrun'[other] # "none"
      BY <1>0, <2>0, <2>2 DEF TypeOK
    <2>5. BulkAccounts'
      <3> SUFFICES ASSUME ctl'[Bulk].phase = "trigger", NEW k \in ctl'[Bulk].scope
                   PROVE  \/ k \in ctl'[Bulk].configs
                          \/ k \in ingested
                          \/ dagrun'[RunIdOf(Bulk, k)] # "none"
        BY <2>2 DEF BulkAccounts, RunIdOf
      <3>1. /\ ctl'[Bulk].phase = ctl[Bulk].phase
            /\ ctl'[Bulk].scope = ctl[Bulk].scope
            /\ ctl'[Bulk].configs = IF c = Bulk THEN ctl[Bulk].configs \ {m}
                                    ELSE ctl[Bulk].configs
        BY <1>0, <2>1, <2>2
      <3>2. k \in Match /\ RunIdOf(Bulk, k) \in RunId
        BY <1>0, <3>1 DEF Controllers, RunIdOf, RunId
      <3>3. \/ k \in ctl[Bulk].configs
            \/ k \in ingested
            \/ dagrun[RunIdOf(Bulk, k)] # "none"
        BY <1>0, <3>1 DEF BulkAccounts
      <3>4. CASE c = Bulk /\ k = m
        BY <2>4, <3>4
      <3> QED
        BY <2>4, <3>1, <3>2, <3>3, <3>4
    <2> QED
      BY <2>3, <2>5 DEF DiscoveryInv
  <1>5. Resting \in Controllers /\ Resting.phase = "rest"
    BY DEF Resting, Controllers
  <1>6. CASE Finish(c)
    BY <1>0, <1>1, <1>5, <1>6 DEF Finish, TypeOK
  <1>7. CASE ControllerFails(c)
    <2>1. failures' \in 0..MaxFailures
      BY <1>0, <1>7, ControllerAssumption DEF ControllerFails, TypeOK
    <2> QED
      BY <1>0, <1>1, <1>5, <1>7, <2>1 DEF ControllerFails, TypeOK
  <1> QED
    BY <1>2, <1>3, <1>4, <1>6, <1>7 DEF Control

\* The invariant is inductive.
LEMMA DiscoveryStep == DiscoveryInv /\ [Next]_vars => DiscoveryInv'
  <1> SUFFICES ASSUME DiscoveryInv, [Next]_vars PROVE DiscoveryInv'
    OBVIOUS
  <1>1. ASSUME NEW m \in Match, Publish(m) PROVE DiscoveryInv'
    BY <1>1 DEF Publish, DiscoveryInv, TypeOK, BulkAccounts, RunIdOf
  <1>2. CASE UNCHANGED vars
    BY <1>2 DEF vars, DiscoveryInv, TypeOK, BulkAccounts, RunIdOf
  <1> QED
    BY <1>1, <1>2, ControllerSteps, WorkerSteps DEF Next

\* Controllers are in a phase of theirs, with matches of the listing only, and
\* each worker run has a state.
THEOREM TypeCorrect == Spec => []TypeOK
  <1>1. DiscoveryInv => TypeOK
    BY DEF DiscoveryInv
  <1> QED
    BY DiscoveryInit, DiscoveryStep, <1>1, PTL DEF Spec

\* A bulk run that comes to its end leaves no match it listed without a
\* manifest line or a bulk run, whatever failed or was dispatched meanwhile.
THEOREM BulkNeverLeavesOne == Spec => BulkLeavesNoneBehind
  <1> DEFINE Leaves ==
        \A m \in Match :
          (/\ ctl[Bulk].phase = "trigger" /\ ctl'[Bulk].phase = "rest"
           /\ failures' = failures
           /\ m \in ctl[Bulk].scope)
              => m \in ingested \/ dagrun[RunIdOf(Bulk, m)] # "none"
  <1>1. DiscoveryInv /\ [Next]_vars => [Leaves]_vars
    <2> SUFFICES ASSUME DiscoveryInv, Next, ctl[Bulk].phase = "trigger",
                        ctl'[Bulk].phase = "rest", failures' = failures
                 PROVE  ctl[Bulk].configs = {}
      BY DEF DiscoveryInv, BulkAccounts
    <2>0. /\ ctl \in [Controller -> Controllers] /\ Bulk \in Controller
          /\ failures \in Nat
      BY ControllerAssumption DEF DiscoveryInv, TypeOK, Controller
    <2>1. PICK c \in Controller : ListMatches(c) \/ Control(c) \/ ControllerFails(c)
      BY DEF Next, Publish, BeginRun, IngestDone, EndRun
    <2>2. CASE ListMatches(c)
      BY <2>0, <2>2 DEF ListMatches, Controllers
    <2>3. CASE Find(c)
      BY <2>0, <2>3 DEF Find, Controllers
    <2>4. ASSUME NEW m \in Match, TriggerRun(c, m) PROVE FALSE
      BY <2>0, <2>4 DEF TriggerRun, Controllers
    <2>5. CASE Finish(c)
      BY <2>0, <2>5 DEF Finish
    <2>6. CASE ControllerFails(c)
      BY <2>0, <2>6 DEF ControllerFails
    <2> QED
      BY <2>1, <2>2, <2>3, <2>4, <2>5, <2>6 DEF Control
  <1> QED
    BY DiscoveryInit, DiscoveryStep, <1>1, PTL DEF Spec, BulkLeavesNoneBehind
=============================================================================
