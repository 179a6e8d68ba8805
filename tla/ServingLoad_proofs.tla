------------------------- MODULE ServingLoad_proofs -------------------------
(***************************************************************************)
(* Proofs about ServingLoad, for any matches, payloads and number of loads *)
(* and of rows.                                                            *)
(***************************************************************************)
EXTENDS ServingLoad, TLAPS

\* The loads of match m that have committed.
Done(m) == {l \in Load : Committed(l) /\ load[l].match = m}

\* A committed load has taken l's rows away.
Deleted(l) == deleter[l] \in Load /\ Committed(deleter[l])

\* What a load knows before, and at, its end.
Local ==
    \A l \in Load :
        /\ load[l].state # "none" => load[l].content \in Content
        /\ load[l].state \in {"none", "scanned"} => load[l].target = {}
        /\ Committed(l) => rows[l] = Size[load[l].content]

\* Loads start in their order, and only one the scheduler took for dead
\* still runs when the next one has started.
StartedInOrder ==
    \A k, l \in Load : (k < l /\ load[l].state # "none") =>
        load[k].state # "none" /\ (Running(k) => k \in dead)

\* A DELETE sees and takes rows of committed loads of its own match only, and
\* of earlier ones unless its load was taken for dead.
TargetsCommitted ==
    \A l, k \in Load : k \in load[l].target =>
        /\ Committed(k) /\ load[k].match = load[l].match
        /\ k < l \/ l \in dead

DeletersLater ==
    \A l, k \in Load : deleter[k] = l =>
        /\ Committed(k) /\ load[k].match = load[l].match
        /\ load[l].state \in {"copying", "committed", "failed"}
        /\ k < l \/ l \in dead

\* A load that has its match for itself is the only open one of it.
CleanApart ==
    \A l \in clean : \A k \in open : k # l => load[k].match # load[l].match

\* No load of its match can commit beside load l.
Alone(l) ==
    l \in clean \/ (l \notin dead /\ Done(load[l].match) \cap dead = {})

\* Such a load deletes every copy of its match there is.
DeletesAll ==
    \A l \in Load : Alone(l) => \A k \in Done(load[l].match) :
        /\ load[l].state = "deleting" => Deleted(k) \/ k \in load[l].target
        /\ load[l].state = "copying" => Deleted(k) \/ deleter[k] = l

\* Unless a dead load committed, only the newest copy is not deleted.
OlderDeleted ==
    \A m \in Match : Done(m) \cap dead = {} =>
        \A k, l \in Done(m) : k < l => Deleted(k)

\* What makes OneCopy inductive.
LoadInv == /\ TypeOK /\ Local /\ StartedInOrder
           /\ TargetsCommitted /\ DeletersLater
           /\ CleanApart /\ DeletesAll /\ OlderDeleted

-----------------------------------------------------------------------------
(* Types *)

\* The initial state is well-typed.
LEMMA TypeInit == Init => TypeOK
  <1> SUFFICES ASSUME Init PROVE TypeOK
    OBVIOUS
  <1>1. (CHOOSE m \in Match : TRUE) \in Match
    BY LoadAssumption
  <1>2. load \in [Load -> Loads]
    BY <1>1 DEF Init, Loads, States
  <1>3. \A l \in Load : load[l].state = "none"
    BY DEF Init
  <1> QED
    BY <1>2, <1>3 DEF Init, TypeOK, NoLoad

\* What a step does to the loads: it changes one, and not the rows it has seen
\* unless it begins to delete.
LEMMA TypeStep == TypeOK /\ [Next]_vars => TypeOK'
  <1> SUFFICES ASSUME TypeOK, [Next]_vars PROVE TypeOK'
    OBVIOUS
  <1> USE DEF TypeOK
  <1>1. ASSUME NEW l \in Load, NEW s \in Loads,
               load' = [load EXCEPT ![l] = s]
        PROVE  /\ load' \in [Load -> Loads]
               /\ s.state \in {"deleting", "copying"} =>
                     {k \in Load : load'[k].state \in {"deleting", "copying"}} =
                        open \cup {l}
               /\ s.state \notin {"deleting", "copying"} =>
                     {k \in Load : load'[k].state \in {"deleting", "copying"}} =
                        open \ {l}
    BY <1>1
  <1>2. ASSUME NEW l \in Load, NEW m \in Match, NEW c \in Content, Start(l, m, c)
        PROVE  TypeOK'
    <2> DEFINE s == [load[l] EXCEPT !.state = "scanned", !.match = m, !.content = c]
    <2>0. load[l] \in Loads
      OBVIOUS
    <2>1. s \in Loads /\ s.state = "scanned"
      BY ONLY <2>0, m \in Match, c \in Content DEF Loads, States
    <2>2. load' = [load EXCEPT ![l] = s]
      BY <1>2 DEF Start
    <2> HIDE DEF s
    <2>3. load[l].state = "none" /\ UNCHANGED <<rows, deleter, open, dead, clean>>
      BY <1>2 DEF Start
    <2> QED
      BY <1>1, <2>1, <2>2, <2>3
  <1>3. ASSUME NEW l \in Load, BeginDelete(l) PROVE TypeOK'
    <2> DEFINE s == [load[l] EXCEPT !.state = "deleting",
                                    !.target = Visible(load[l].match)]
    <2>0. load[l] \in Loads /\ Visible(load[l].match) \subseteq Load
      BY DEF Visible
    <2>1. s \in Loads /\ s.state = "deleting"
      BY ONLY <2>0 DEF Loads, States
    <2>2. load' = [load EXCEPT ![l] = s]
      BY <1>3 DEF BeginDelete
    <2> HIDE DEF s
    <2>3. /\ open' = open \cup {l} /\ clean' \subseteq clean \cup {l}
          /\ UNCHANGED <<rows, deleter, dead>>
      BY <1>3 DEF BeginDelete
    <2> QED
      BY <1>1, <2>1, <2>2, <2>3
  <1>4. ASSUME NEW l \in Load, Delete(l) PROVE TypeOK'
    <2> DEFINE s == [load[l] EXCEPT !.state = "copying"]
    <2>1. s \in Loads /\ s.state = "copying"
      BY DEF Loads, States
    <2>2. load' = [load EXCEPT ![l] = s]
      BY <1>4 DEF Delete
    <2> HIDE DEF s
    <2>3. load[l].state = "deleting" /\ UNCHANGED <<rows, open, dead, clean>>
      BY <1>4 DEF Delete
    <2>4. deleter' \in [Load -> Load \cup {NoLoad}]
      BY <1>4 DEF Delete
    <2> QED
      BY <1>1, <2>1, <2>2, <2>3, <2>4
  <1>5. ASSUME NEW l \in Load, Copy(l) PROVE TypeOK'
    <2>1. rows[l] + 1 \in Nat
      OBVIOUS
    <2> QED
      BY <1>5, <2>1 DEF Copy
  <1>6. ASSUME NEW l \in Load, NEW t \in {"committed", "failed"},
               load' = [load EXCEPT ![l].state = t],
               open' = open \ {l}, clean' = clean \ {l},
               UNCHANGED <<rows, deleter, dead>>
        PROVE  TypeOK'
    <2> DEFINE s == [load[l] EXCEPT !.state = t]
    <2>1. s \in Loads /\ s.state = t
      BY DEF Loads, States
    <2>2. load' = [load EXCEPT ![l] = s]
      BY <1>6
    <2> HIDE DEF s
    <2> QED
      BY <1>1, <1>6, <2>1, <2>2
  <1>7. ASSUME NEW l \in Load, Commit(l) \/ Fail(l) PROVE TypeOK'
    BY <1>6, <1>7 DEF Commit, Fail
  <1>8. ASSUME NEW l \in Load, TakenForDead(l) PROVE TypeOK'
    BY <1>8 DEF TakenForDead
  <1>9. CASE UNCHANGED vars
    BY <1>9 DEF vars
  <1> QED
    BY <1>2, <1>3, <1>4, <1>5, <1>7, <1>8, <1>9 DEF Next, Proceed

\* A load is in one of its states, and in a transaction between its DELETE
\* and its end only, through failures and overlaps.
THEOREM TypeCorrect == Spec => []TypeOK
  BY TypeInit, TypeStep, PTL DEF Spec

-----------------------------------------------------------------------------
(* One copy of a match *)

\* No load has started yet.
LEMMA InvInit == Init => LoadInv
  <1> SUFFICES ASSUME Init PROVE LoadInv
    OBVIOUS
  <1>1. \A l \in Load : /\ load[l].state = "none" /\ load[l].target = {}
                        /\ deleter[l] \notin Load /\ ~Committed(l)
    BY LoadAssumption DEF Init, NoLoad, Committed
  <1>2. \A m : Done(m) = {}
    BY <1>1 DEF Done
  <1> QED
    BY <1>1, <1>2, TypeInit
       DEF LoadInv, Local, StartedInOrder, TargetsCommitted, DeletersLater,
           CleanApart, DeletesAll, OlderDeleted, Init, Committed, Running

\* A step that commits nothing, leaves what is deleted as it is and lets no
\* load begin to delete or to copy keeps what is known of the copies.
LEMMA QuietStep ==
    ASSUME LoadInv, TypeOK', dead \subseteq dead', clean' \subseteq clean,
           UNCHANGED deleter,
           \A k \in Load :
              \/ load'[k] = load[k]
              \/ /\ load[k].state = "none" /\ load'[k].state = "scanned"
                 /\ load'[k].target = load[k].target
              \/ /\ Running(k) /\ load'[k].state = "failed"
                 /\ load'[k].match = load[k].match
                 /\ load'[k].target = load[k].target
    PROVE  /\ TargetsCommitted' /\ DeletersLater' /\ CleanApart'
           /\ DeletesAll' /\ OlderDeleted'
  <1> USE DEF LoadInv, TypeOK
  <1>0. \A k \in Load : /\ Committed(k)' = Committed(k)
                        /\ Committed(k) => load'[k] = load[k]
    BY DEF Committed, Running
  <1>1. \A k \in Load : Deleted(k)' = Deleted(k)
    BY <1>0 DEF Deleted
  <1>2. \A m : Done(m)' = Done(m)
    BY <1>0 DEF Done
  <1>3. TargetsCommitted'
    BY <1>0 DEF TargetsCommitted, Local
  <1>4. DeletersLater'
    BY <1>0 DEF DeletersLater
  <1>5. open' \subseteq open
    OBVIOUS
  <1>6. CleanApart'
    BY <1>5 DEF CleanApart
  <1>7. ASSUME NEW l \in Load, Alone(l)', load'[l].state \in {"deleting", "copying"}
        PROVE  load'[l] = load[l] /\ Alone(l)
    BY <1>2, <1>7 DEF Alone
  <1>8. DeletesAll'
    <2> SUFFICES ASSUME NEW l \in Load, Alone(l)', NEW k \in Done(load[l].match)',
                        load'[l].state \in {"deleting", "copying"}
                 PROVE  /\ load'[l].state = "deleting" =>
                              Deleted(k)' \/ k \in load'[l].target
                        /\ load'[l].state = "copying" => Deleted(k)' \/ deleter[k] = l
      BY DEF DeletesAll
    <2>1. load'[l] = load[l] /\ Alone(l)
      BY <1>7
    <2>2. k \in Done(load[l].match) /\ k \in Load
      BY <1>0, <2>1 DEF Done
    <2>3. Deleted(k)' = Deleted(k)
      BY <1>1, <2>2
    <2> QED
      BY <2>1, <2>2, <2>3 DEF DeletesAll
  <1>9. OlderDeleted'
    <2> SUFFICES ASSUME NEW m \in Match, Done(m) \cap dead = {},
                        NEW k \in Done(m), NEW l \in Done(m), k < l
                 PROVE  Deleted(k)'
      BY <1>2 DEF OlderDeleted
    <2>1. Deleted(k)
      BY DEF OlderDeleted
    <2> QED
      BY <1>1, <2>1 DEF Done
  <1> QED
    BY <1>3, <1>4, <1>6, <1>8, <1>9

\* Steps after which the copies are what they were.
LEMMA QuietActions ==
    ASSUME LoadInv, TypeOK', NEW l \in Load,
           \/ \E m \in Match, c \in Content : Start(l, m, c)
           \/ Copy(l) \/ Fail(l) \/ TakenForDead(l)
    PROVE  LoadInv'
  <1> USE DEF LoadInv, TypeOK
  <1>0. \A k \in Load : k \in Nat
    BY LoadAssumption
  <1>1. ASSUME NEW m \in Match, NEW c \in Content, Start(l, m, c)
        PROVE  LoadInv'
    <2>1. /\ load[l].state = "none"
          /\ \A k \in Load : k < l => load[k].state # "none" /\ (Running(k) => k \in dead)
          /\ UNCHANGED <<rows, deleter, open, dead, clean>>
      BY <1>1 DEF Start
    <2>2. /\ load'[l].state = "scanned" /\ load'[l].content = c
          /\ load'[l].target = load[l].target
          /\ \A k \in Load : k # l => load'[k] = load[k]
      BY <1>1 DEF Start, Loads
    <2>3. Local'
      BY <2>1, <2>2 DEF Local, Committed
    <2>4. StartedInOrder'
      BY <1>0, <2>1, <2>2 DEF StartedInOrder, Running
    <2> QED
      BY <2>1, <2>2, <2>3, <2>4, QuietStep
  <1>2. CASE Copy(l)
    <2>1. /\ load[l].state = "copying" /\ UNCHANGED <<load, deleter, open, dead, clean>>
          /\ \A k \in Load : k # l => rows'[k] = rows[k]
      BY <1>2 DEF Copy
    <2>2. Local'
      BY <2>1 DEF Local, Committed
    <2>3. StartedInOrder'
      BY <2>1 DEF StartedInOrder, Running
    <2> QED
      BY <2>1, <2>2, <2>3, QuietStep
  <1>3. CASE Fail(l)
    <2>1. /\ Running(l) /\ clean' \subseteq clean /\ UNCHANGED <<rows, deleter, dead>>
      BY <1>3 DEF Fail
    <2>2. /\ load'[l].state = "failed" /\ load'[l].content = load[l].content
          /\ load'[l].target = load[l].target /\ load'[l].match = load[l].match
          /\ \A k \in Load : k # l => load'[k] = load[k]
      BY <1>3 DEF Fail, Loads
    <2>3. Local'
      BY <2>1, <2>2 DEF Local, Committed, Running
    <2>4. StartedInOrder'
      BY <2>1, <2>2 DEF StartedInOrder, Running
    <2> QED
      BY <2>1, <2>2, <2>3, <2>4, QuietStep
  <1>4. CASE TakenForDead(l)
    <2>1. dead' = dead \cup {l} /\ UNCHANGED <<load, rows, deleter, open, clean>>
      BY <1>4 DEF TakenForDead
    <2>2. Local'
      BY <2>1 DEF Local, Committed
    <2>3. StartedInOrder'
      BY <2>1 DEF StartedInOrder, Running
    <2> QED
      BY <2>1, <2>2, <2>3, QuietStep
  <1> QED
    BY <1>1, <1>2, <1>3, <1>4

\* A DELETE that begins sees every copy of its match that is there.
LEMMA BeginDeleteStep ==
    ASSUME LoadInv, TypeOK', NEW l \in Load, BeginDelete(l)
    PROVE  LoadInv'
  <1> USE DEF LoadInv, TypeOK
  <1> DEFINE m == load[l].match
  <1>0. \A k \in Load : k \in Nat
    BY LoadAssumption
  <1>1. /\ load[l].state = "scanned" /\ UNCHANGED <<rows, deleter, dead>>
        /\ open' = open \cup {l}
        /\ clean' = IF {k \in open : load[k].match = m} = {} THEN clean \cup {l}
                    ELSE clean \ {k \in open : load[k].match = m}
    BY DEF BeginDelete
  <1>2. /\ load'[l].state = "deleting" /\ load'[l].content = load[l].content
        /\ load'[l].target = Visible(m) /\ load'[l].match = m
        /\ \A k \in Load : k # l => load'[k] = load[k]
    <2>1. Visible(m) \subseteq Load
      BY DEF Visible
    <2> QED
      BY <2>1 DEF BeginDelete, Loads
  <1>3. \A k \in Load : /\ Committed(k)' = Committed(k)
                        /\ Committed(k) => load'[k] = load[k]
                        /\ load'[k].match = load[k].match
    BY <1>1, <1>2 DEF Committed
  <1>4. \A k \in Load : Deleted(k)' = Deleted(k)
    BY <1>1, <1>3 DEF Deleted
  <1>5. \A k : Done(k)' = Done(k)
    BY <1>3 DEF Done
  <1>6. Visible(m) = {k \in Done(m) : ~Deleted(k)}
    BY DEF Visible, Done, Deleted
  <1>7. Local'
    BY <1>1, <1>2, <1>3 DEF Local
  <1>8. StartedInOrder'
    BY <1>1, <1>2 DEF StartedInOrder, Running
  <1>9. TargetsCommitted'
    <2> SUFFICES ASSUME NEW j \in Load, NEW k \in Load, k \in load'[j].target
                 PROVE  /\ Committed(k) /\ load[k].match = load[j].match
                        /\ k < j \/ j \in dead
      BY <1>1, <1>3 DEF TargetsCommitted
    <2>1. CASE j # l
      BY <1>2, <2>1 DEF TargetsCommitted
    <2>2. CASE j = l
      <3>1. Committed(k) /\ load[k].match = m
        BY <1>2, <2>2 DEF Visible
      <3>2. k < l \/ l \in dead
        <4>1. Running(l) /\ load[k].state # "none" /\ k # l
          BY <1>1, <3>1 DEF Committed, Running
        <4>2. l < k => l \in dead
          BY <4>1 DEF StartedInOrder
        <4> QED
          BY <1>0, <4>1, <4>2
      <3> QED
        BY <2>2, <3>1, <3>2
    <2> QED
      BY <2>1, <2>2
  <1>10. DeletersLater'
    BY <1>1, <1>2, <1>3 DEF DeletersLater
  <1>11. CleanApart'
    BY <1>1, <1>3 DEF CleanApart
  <1>12. DeletesAll'
    <2> SUFFICES ASSUME NEW j \in Load, Alone(j)', NEW k \in Done(load[j].match),
                        load'[j].state \in {"deleting", "copying"}
                 PROVE  /\ load'[j].state = "deleting" =>
                              Deleted(k)' \/ k \in load'[j].target
                        /\ load'[j].state = "copying" => Deleted(k)' \/ deleter[k] = j
      BY <1>1, <1>3, <1>5 DEF DeletesAll, Done
    <2>1. k \in Load /\ Deleted(k)' = Deleted(k)
      BY <1>4 DEF Done
    <2>2. CASE j = l
      BY <1>2, <1>6, <2>1, <2>2
    <2>3. CASE j # l
      <3>1. Alone(j)
        BY <1>1, <1>3, <2>3 DEF Alone, Done
      <3> QED
        BY <1>2, <2>1, <2>3, <3>1 DEF DeletesAll
    <2> QED
      BY <2>2, <2>3
  <1>13. OlderDeleted'
    <2> SUFFICES ASSUME NEW i \in Match, Done(i) \cap dead = {},
                        NEW k \in Done(i), NEW j \in Done(i), k < j
                 PROVE  Deleted(k)'
      BY <1>1, <1>5 DEF OlderDeleted
    <2>1. Deleted(k) /\ k \in Load
      BY DEF OlderDeleted, Done
    <2> QED
      BY <1>4, <2>1
  <1> QED
    BY <1>7, <1>8, <1>9, <1>10, <1>11, <1>12, <1>13

\* A DELETE that ends has taken the copies it saw, except those that another
\* committed load took; rows an open transaction took make it wait.
LEMMA DeleteStep ==
    ASSUME LoadInv, TypeOK', NEW l \in Load, Delete(l)
    PROVE  LoadInv'
  <1> USE DEF LoadInv, TypeOK
  <1>1. /\ load[l].state = "deleting" /\ UNCHANGED <<rows, open, dead, clean>>
        /\ \A k \in load[l].target : deleter[k] \notin open
    BY DEF Delete
  <1>2. /\ load'[l].state = "copying" /\ load'[l].content = load[l].content
        /\ load'[l].target = load[l].target /\ load'[l].match = load[l].match
        /\ \A k \in Load : k # l => load'[k] = load[k]
    BY DEF Delete, Loads
  <1>3. \A k \in Load : deleter'[k] = IF k \in load[l].target /\ ~Deleted(k)
                                      THEN l ELSE deleter[k]
    BY DEF Delete, Deleted
  <1>4. \A k \in Load : /\ Committed(k)' = Committed(k)
                        /\ Committed(k) => load'[k] = load[k]
                        /\ load'[k].match = load[k].match
                        /\ load'[k].target = load[k].target
    BY <1>1, <1>2 DEF Committed
  <1>5. \A k \in Load : Deleted(k)' = Deleted(k)
    <2> SUFFICES ASSUME NEW k \in Load PROVE Deleted(k)' = Deleted(k)
      OBVIOUS
    <2>1. CASE deleter'[k] = deleter[k]
      BY <1>4, <2>1 DEF Deleted
    <2>2. CASE deleter'[k] # deleter[k]
      <3>1. deleter'[k] = l /\ ~Deleted(k)
        BY <1>3, <2>2
      <3>2. ~Committed(l)
        BY <1>1 DEF Committed
      <3> QED
        BY <1>4, <3>1, <3>2 DEF Deleted
    <2> QED
      BY <2>1, <2>2
  <1>6. \A k : Done(k)' = Done(k)
    BY <1>4 DEF Done
  <1>7. Local'
    BY <1>1, <1>2, <1>4 DEF Local
  <1>8. StartedInOrder'
    BY <1>1, <1>2 DEF StartedInOrder, Running
  <1>9. TargetsCommitted'
    BY <1>1, <1>4 DEF TargetsCommitted
  <1>10. DeletersLater'
    BY <1>1, <1>2, <1>3, <1>4 DEF DeletersLater, TargetsCommitted
  <1>11. CleanApart'
    BY <1>1, <1>4 DEF CleanApart
  <1>12. DeletesAll'
    <2> SUFFICES ASSUME NEW j \in Load, Alone(j)', NEW k \in Done(load[j].match),
                        load'[j].state \in {"deleting", "copying"}
                 PROVE  /\ load'[j].state = "deleting" =>
                              Deleted(k)' \/ k \in load'[j].target
                        /\ load'[j].state = "copying" => Deleted(k)' \/ deleter'[k] = j
      BY <1>1, <1>4, <1>6 DEF DeletesAll, Done
    <2>1. k \in Load /\ Deleted(k)' = Deleted(k)
      BY <1>5 DEF Done
    <2>2. Alone(j)
      BY <1>1, <1>4 DEF Alone, Done
    <2>3. CASE j = l
      <3>1. Deleted(k) \/ k \in load[l].target
        BY <1>1, <2>2, <2>3 DEF DeletesAll
      <3> QED
        BY <1>2, <1>3, <2>1, <2>3, <3>1
    <2>4. CASE j # l
      <3>1. load'[j] = load[j]
        BY <1>2, <2>4
      <3>2. deleter[k] = j /\ load[j].state = "copying" => deleter'[k] = j
        BY <1>1, <1>3, <2>1
      <3> QED
        BY <2>1, <2>2, <3>1, <3>2 DEF DeletesAll
    <2> QED
      BY <2>3, <2>4
  <1>13. OlderDeleted'
    <2> SUFFICES ASSUME NEW i \in Match, Done(i) \cap dead = {},
                        NEW k \in Done(i), NEW j \in Done(i), k < j
                 PROVE  Deleted(k)'
      BY <1>1, <1>6 DEF OlderDeleted
    <2>1. Deleted(k) /\ k \in Load
      BY DEF OlderDeleted, Done
    <2> QED
      BY <1>5, <2>1
  <1> QED
    BY <1>7, <1>8, <1>9, <1>10, <1>11, <1>12, <1>13

\* What a COMMIT does to the copies: the load's own is there, those it deleted
\* are gone, and other matches keep theirs.
LEMMA CommitCopies ==
    ASSUME LoadInv, NEW l \in Load, Commit(l)
    PROVE  /\ load[l].state = "copying" /\ rows[l] = Size[load[l].content]
           /\ UNCHANGED <<rows, deleter, dead>>
           /\ open' = open \ {l} /\ clean' = clean \ {l}
           /\ \A k \in Load : k # l => load'[k] = load[k]
           /\ load'[l].state = "committed" /\ load'[l].content = load[l].content
           /\ load'[l].match = load[l].match /\ load'[l].target = load[l].target
           /\ \A k \in Load : /\ Committed(k)' <=> Committed(k) \/ k = l
                              /\ Deleted(k)' <=> Deleted(k) \/ deleter[k] = l
           /\ ~Deleted(l)'
           /\ Done(load[l].match)' = Done(load[l].match) \cup {l}
           /\ \A m \in Match : m # load[l].match =>
                 /\ Done(m)' = Done(m)
                 /\ \A k \in Done(m) : Deleted(k)' <=> Deleted(k)
  <1> USE DEF LoadInv, TypeOK
  <1>1. /\ load[l].state = "copying" /\ rows[l] = Size[load[l].content]
        /\ UNCHANGED <<rows, deleter, dead>>
        /\ open' = open \ {l} /\ clean' = clean \ {l}
    BY DEF Commit
  <1>2. /\ load'[l].state = "committed" /\ load'[l].content = load[l].content
        /\ load'[l].target = load[l].target /\ load'[l].match = load[l].match
        /\ \A k \in Load : k # l => load'[k] = load[k]
    BY DEF Commit, Loads
  <1>3. \A k \in Load : Committed(k)' <=> Committed(k) \/ k = l
    BY <1>2 DEF Committed
  <1>4. \A k \in Load : Deleted(k)' <=> Deleted(k) \/ deleter[k] = l
    BY <1>1, <1>3 DEF Deleted
  <1>5. ~Deleted(l)'
    <2>1. ~Committed(l)
      BY <1>1 DEF Committed
    <2>2. deleter[l] \notin Load
      BY <2>1 DEF DeletersLater
    <2> QED
      BY <1>1, <2>2 DEF Deleted
  <1>6. Done(load[l].match)' = Done(load[l].match) \cup {l}
    BY <1>1, <1>2, <1>3 DEF Done
  <1>7. ASSUME NEW m \in Match, m # load[l].match
        PROVE  /\ Done(m)' = Done(m)
               /\ \A k \in Done(m) : Deleted(k)' <=> Deleted(k)
    <2>1. Done(m)' = Done(m)
      BY <1>2, <1>3, <1>7 DEF Done
    <2>2. \A k \in Done(m) : k \in Load /\ deleter[k] # l
      BY <1>7 DEF Done, DeletersLater
    <2> QED
      BY <1>4, <2>1, <2>2
  <1> QED
    BY <1>1, <1>2, <1>3, <1>4, <1>5, <1>6, <1>7

\* No other load of the match can commit while a load has it for itself.
LEMMA CommitStep ==
    ASSUME LoadInv, TypeOK', NEW l \in Load, Commit(l)
    PROVE  LoadInv'
  <1> USE DEF LoadInv, TypeOK
  <1>0. \A k \in Load : k \in Nat
    BY LoadAssumption
  <1>1. /\ load[l].state = "copying" /\ rows[l] = Size[load[l].content]
        /\ UNCHANGED <<rows, deleter, dead>>
        /\ open' = open \ {l} /\ clean' = clean \ {l}
        /\ \A k \in Load : k # l => load'[k] = load[k]
        /\ load'[l].state = "committed" /\ load'[l].content = load[l].content
        /\ load'[l].match = load[l].match /\ load'[l].target = load[l].target
        /\ \A k \in Load : /\ Committed(k)' <=> Committed(k) \/ k = l
                           /\ Deleted(k)' <=> Deleted(k) \/ deleter[k] = l
        /\ Done(load[l].match)' = Done(load[l].match) \cup {l}
        /\ \A m \in Match : m # load[l].match =>
              /\ Done(m)' = Done(m)
              /\ \A k \in Done(m) : Deleted(k)' <=> Deleted(k)
    BY CommitCopies
  <1>2. Local'
    BY <1>1 DEF Local
  <1>3. StartedInOrder'
    BY <1>1 DEF StartedInOrder, Running
  <1>4. TargetsCommitted'
    BY <1>1 DEF TargetsCommitted
  <1>5. DeletersLater'
    BY <1>1 DEF DeletersLater
  <1>6. CleanApart'
    BY <1>1 DEF CleanApart
  <1>7. ASSUME NEW k \in Load, k # l, Running(k), load[k].match = load[l].match,
               k \in clean \/ (k \notin dead /\ l \notin dead)
        PROVE  FALSE
    <2>1. Running(l)
      BY <1>1 DEF Running
    <2>2. k \in dead \/ l \in dead
      <3>1. CASE k < l
        BY <1>1, <1>7, <3>1 DEF StartedInOrder
      <3>2. CASE l < k
        BY <1>7, <2>1, <3>2 DEF StartedInOrder, Running
      <3>3. k < l \/ l < k
        <4>1. k \in Nat /\ l \in Nat /\ k # l
          BY <1>0, <1>7
        <4> QED
          BY ONLY <4>1
      <3> QED
        BY <3>1, <3>2, <3>3
    <2>3. k \in clean
      BY <1>7, <2>2
    <2>4. l \in open
      BY <1>1
    <2> QED
      BY <1>7, <2>3, <2>4 DEF CleanApart
  <1>8. DeletesAll'
    <2> SUFFICES ASSUME NEW j \in Load, Alone(j)', NEW k \in Done(load[j].match)',
                        load'[j].state \in {"deleting", "copying"}
                 PROVE  /\ load'[j].state = "deleting" =>
                              Deleted(k)' \/ k \in load'[j].target
                        /\ load'[j].state = "copying" => Deleted(k)' \/ deleter[k] = j
      BY <1>1 DEF DeletesAll
    <2>1. j # l /\ load'[j] = load[j] /\ Running(j)
      BY <1>1 DEF Running
    <2>2. load[j].match # load[l].match
      <3>1. ASSUME load[j].match = load[l].match PROVE FALSE
        <4>1. Done(load[j].match)' = Done(load[l].match)'
          BY <1>1, <2>1, <3>1 DEF Done
        <4>2. j \in clean \/ (j \notin dead /\ l \notin dead)
          BY <1>1, <4>1 DEF Alone
        <4> QED
          BY <1>7, <2>1, <3>1, <4>2
      <3> QED
        BY <3>1
    <2>3. Done(load[j].match)' = Done(load[j].match)
      BY <1>1, <2>1, <2>2 DEF Done
    <2>4. Alone(j)
      BY <1>1, <2>1, <2>3 DEF Alone
    <2>5. k \in Load /\ k \in Done(load[j].match) /\ (Deleted(k) => Deleted(k)')
      BY <1>1, <2>3 DEF Done
    <2> QED
      BY <2>1, <2>4, <2>5 DEF DeletesAll
  <1>9. OlderDeleted'
    <2> SUFFICES ASSUME NEW m \in Match, Done(m)' \cap dead = {},
                        NEW k \in Done(m)', NEW j \in Done(m)', k < j
                 PROVE  Deleted(k)'
      BY <1>1 DEF OlderDeleted
    <2>0. k \in Load /\ j \in Load
      BY DEF Done
    <2>1. CASE m # load[l].match
      BY <1>1, <2>0, <2>1 DEF OlderDeleted
    <2>2. CASE m = load[l].match
      <3>1. Done(m)' = Done(m) \cup {l}
        BY <1>1, <2>2
      <3>2. l \notin dead /\ Done(m) \cap dead = {} /\ Alone(l)
        BY <2>2, <3>1 DEF Alone
      <3>3. CASE k \in Done(m) /\ j \in Done(m)
        BY <1>1, <2>0, <3>2, <3>3 DEF OlderDeleted
      <3>4. CASE k \in Done(m) /\ j = l
        <4>1. Deleted(k) \/ deleter[k] = l
          BY <1>1, <2>2, <3>2, <3>4 DEF DeletesAll
        <4> QED
          BY <1>1, <2>0, <4>1
      <3>5. CASE k = l
        <4>1. Running(l) /\ load[j].state # "none"
          BY <1>1, <3>1, <3>5, <2>0 DEF Done, Committed, Running
        <4> QED
          BY <2>0, <3>2, <3>5, <4>1 DEF StartedInOrder
      <3> QED
        BY <3>1, <3>3, <3>4, <3>5
    <2> QED
      BY <2>1, <2>2
  <1> QED
    BY <1>2, <1>3, <1>4, <1>5, <1>6, <1>8, <1>9

\* The invariant is inductive.
LEMMA InvStep == LoadInv /\ [Next]_vars => LoadInv'
  <1> SUFFICES ASSUME LoadInv, [Next]_vars PROVE LoadInv'
    OBVIOUS
  <1>1. TypeOK'
    BY TypeStep DEF LoadInv
  <1>2. CASE UNCHANGED vars
    BY <1>2 DEF vars, LoadInv, TypeOK, Local, StartedInOrder, TargetsCommitted,
                DeletersLater, CleanApart, DeletesAll, OlderDeleted, Alone, Done,
                Deleted, Committed, Running
  <1>3. CASE Next
    BY <1>1, <1>3, QuietActions, BeginDeleteStep, DeleteStep, CommitStep
       DEF Next, Proceed
  <1> QED
    BY <1>2, <1>3

\* A retry does not append duplicate match data: readers see one whole copy of
\* a match, that of the newest load that committed, unless a load the
\* scheduler took for dead committed all the same.
THEOREM AlwaysOneCopy == Spec => []OneCopy
  <1>1. LoadInv => OneCopy
    <2> SUFFICES ASSUME LoadInv, NEW m \in Match, Done(m) \cap dead = {}
                 PROVE  /\ Visible(m) = {l \in Done(m) : \A k \in Done(m) : k <= l}
                        /\ \A l \in Visible(m) : rows[l] = Size[load[l].content]
      BY DEF OneCopy, Done
    <2>1. Visible(m) = {l \in Done(m) : ~Deleted(l)}
      BY DEF Visible, Done, Deleted
    <2>2. \A l \in Done(m) : l \in Nat /\ l \in Load
      BY LoadAssumption DEF Done
    <2>3. \A k, l \in Done(m) : k < l => Deleted(k)
      BY DEF LoadInv, OlderDeleted
    <2>4. ASSUME NEW k \in Done(m), Deleted(k) PROVE \E l \in Done(m) : k < l
      <3>1. k \in Load /\ deleter[k] \in Load /\ Committed(deleter[k])
        BY <2>2, <2>4 DEF Deleted
      <3>2. load[deleter[k]].match = m /\ (k < deleter[k] \/ deleter[k] \in dead)
        BY <3>1 DEF LoadInv, DeletersLater, Done
      <3>3. deleter[k] \in Done(m)
        BY <3>1, <3>2 DEF Done
      <3> QED
        BY <3>2, <3>3
    <2>5. Visible(m) = {l \in Done(m) : \A k \in Done(m) : k <= l}
      <3>1. ASSUME NEW l \in Done(m), ~Deleted(l), NEW k \in Done(m) PROVE k <= l
        BY <2>2, <2>3, <3>1
      <3>2. ASSUME NEW l \in Done(m), \A k \in Done(m) : k <= l PROVE ~Deleted(l)
        BY <2>2, <2>4, <3>2
      <3> QED
        BY <2>1, <3>1, <3>2
    <2> QED
      BY <2>1, <2>2, <2>5 DEF LoadInv, Local, Done
  <1> QED
    BY InvInit, InvStep, <1>1, PTL DEF Spec

\* The copies readers see are those no committed load has deleted.
LEMMA VisibleIs ==
    ASSUME NEW m
    PROVE  Visible(m) = {k \in Done(m) : ~Deleted(k)}
  BY DEF Visible, Done, Deleted

\* Only its own COMMIT makes a load committed.
LEMMA OnlyCommit ==
    ASSUME LoadInv, Next, NEW l \in Load, ~Committed(l), Committed(l)'
    PROVE  Commit(l)
  <1>0. load \in [Load -> Loads]
    BY DEF LoadInv, TypeOK
  <1>1. PICK k \in Load :
            \/ \E m \in Match, c \in Content : Start(k, m, c)
            \/ Proceed(k) \/ Fail(k) \/ TakenForDead(k)
    BY DEF Next
  <1>2. ASSUME NEW m, NEW c, Start(k, m, c) PROVE FALSE
    BY <1>0, <1>2 DEF Start, Committed, Loads
  <1>3. CASE BeginDelete(k)
    BY <1>0, <1>3 DEF BeginDelete, Committed, Loads
  <1>4. CASE Delete(k)
    BY <1>0, <1>4 DEF Delete, Committed, Loads
  <1>5. CASE Copy(k) \/ TakenForDead(k)
    BY <1>5 DEF Copy, TakenForDead, Committed
  <1>6. CASE Commit(k)
    BY <1>0, <1>6 DEF Commit, Committed, Loads
  <1>7. CASE Fail(k)
    BY <1>0, <1>7 DEF Fail, Committed, Loads
  <1> QED
    BY <1>1, <1>2, <1>3, <1>4, <1>5, <1>6, <1>7 DEF Proceed

\* A load that had its match for itself commits: it deleted all the others.
LEMMA CleanCommit ==
    ASSUME LoadInv, NEW l \in Load, l \in clean, Commit(l)
    PROVE  Visible(load[l].match)' = {l}
  <1>1. /\ load[l].state = "copying" /\ UNCHANGED deleter
        /\ \A k \in Load : Deleted(k)' <=> Deleted(k) \/ deleter[k] = l
        /\ ~Deleted(l)'
        /\ Done(load[l].match)' = Done(load[l].match) \cup {l}
    BY CommitCopies
  <1>2. \A k \in Done(load[l].match) : k \in Load /\ (Deleted(k) \/ deleter[k] = l)
    BY <1>1 DEF LoadInv, DeletesAll, Alone, Done
  <1>3. Visible(load[l].match)' = {k \in Done(load[l].match)' : ~Deleted(k)'}
    BY DEF Visible, Done, Deleted
  <1> QED
    BY <1>1, <1>2, <1>3

\* A load that had its match for itself from the DELETE to the COMMIT leaves
\* the match in one copy, its own, whatever overlapping loads left before.
THEOREM LoadAlwaysHeals == Spec => LoadHeals
  <1>1. LoadInv /\ [Next]_vars =>
           [\A l \in Load : (l \in clean /\ ~Committed(l) /\ Committed(l)') =>
                Visible(load[l].match)' = {l}]_vars
    BY OnlyCommit, CleanCommit
  <1> QED
    BY InvInit, InvStep, <1>1, PTL DEF Spec, LoadHeals

-----------------------------------------------------------------------------
(* The load implements ServedTable *)

\* What readers are shown of a match that has the same copies, of the same
\* payload and length, before and after a step.
LEMMA ServedSame ==
    ASSUME NEW m, Visible(m)' = Visible(m),
           \A k \in Visible(m) : load'[k].content = load[k].content /\ rows'[k] = rows[k]
    PROVE  Served(m)' = Served(m)
  <1>1. CASE Visible(m) = {}
    BY <1>1 DEF Served
  <1>2. CASE Visible(m) # {}
    <2> DEFINE l == CHOOSE k \in Visible(m) : \A j \in Visible(m) : j <= k
    <2>1. Served(m) = IF Visible(m) = {l} /\ rows[l] = Size[load[l].content]
                      THEN load[l].content ELSE Unknown
      BY <1>2 DEF Served
    <2>2. Served(m)' = IF Visible(m) = {l} /\ rows'[l] = Size[load'[l].content]
                       THEN load'[l].content ELSE Unknown
      BY <1>2 DEF Served
    <2> HIDE DEF l
    <2>3. CASE Visible(m) = {l}
      BY <2>1, <2>2, <2>3
    <2> QED
      BY <2>1, <2>2, <2>3
  <1> QED
    BY <1>1, <1>2

\* A load is under way in ServedTable while its transaction is open.
LEMMA LoadingIs ==
    ASSUME LoadInv
    PROVE  /\ \A k \in open : /\ k \in Load
                              /\ Loading[k] = [match |-> load[k].match,
                                               content |-> load[k].content]
                              /\ load[k].match \in Match /\ load[k].content \in Content
                              /\ Loading[k].match = load[k].match
                              /\ Loading[k].content = load[k].content
                              /\ Loading[k] # Table!Idle
           /\ \A k \in Load : k \notin open => Loading[k] = Table!Idle
  <1>1. ASSUME NEW k \in open
        PROVE  k \in Load /\ load[k].match \in Match /\ load[k].content \in Content
    BY DEF LoadInv, TypeOK, Local, Loads
  <1>2. NoContent \notin Content
    BY LoadAssumption
  <1> QED
    BY <1>1, <1>2 DEF Loading, Table!Idle

\* A step that leaves the copies alone leaves what is served.
LEMMA ServedKept ==
    ASSUME LoadInv, \A k \in Load : /\ Committed(k)' <=> Committed(k)
                                    /\ Deleted(k)' <=> Deleted(k)
                                    /\ Committed(k) => load'[k] = load[k] /\ rows'[k] = rows[k]
    PROVE  \A m \in Match : Served(m)' = Served(m)
  <1> SUFFICES ASSUME NEW m \in Match PROVE Served(m)' = Served(m)
    OBVIOUS
  <1>1. Done(m)' = Done(m)
    BY DEF Done
  <1>2. Visible(m)' = {k \in Done(m)' : ~Deleted(k)'}
    BY DEF Visible, Done, Deleted
  <1>3. Visible(m) = {k \in Done(m) : ~Deleted(k)}
    BY VisibleIs
  <1>4. \A k \in Visible(m) : load'[k] = load[k] /\ rows'[k] = rows[k]
    BY <1>3 DEF Done
  <1>5. Visible(m)' = Visible(m)
    BY <1>1, <1>2, <1>3 DEF Done
  <1> QED
    BY <1>4, <1>5, ServedSame

\* Everything before the DELETE, between it and the COMMIT, and besides.
LEMMA TableStutters ==
    ASSUME LoadInv, NEW l \in Load,
           \/ \E m \in Match, c \in Content : Start(l, m, c)
           \/ Delete(l) \/ Copy(l) \/ TakenForDead(l)
           \/ Fail(l) /\ l \notin open
    PROVE  UNCHANGED Table!vars
  <1>0. /\ load \in [Load -> Loads] /\ rows \in [Load -> Nat]
        /\ deleter \in [Load -> Load \cup {NoLoad}] /\ clean \subseteq open
        /\ open = {k \in Load : load[k].state \in {"deleting", "copying"}}
    BY DEF LoadInv, TypeOK
  <1> DEFINE Kept ==
        /\ UNCHANGED <<open, clean>>
        /\ \A k \in open : /\ load'[k].match = load[k].match
                           /\ load'[k].content = load[k].content
        /\ \A k \in Load : /\ Committed(k)' <=> Committed(k)
                           /\ Committed(k) => load'[k] = load[k] /\ rows'[k] = rows[k]
                           /\ \/ deleter'[k] = deleter[k]
                              \/ deleter'[k] = l /\ ~Deleted(k) /\ ~Committed(l)
  <1>1. Kept
    <2>1. ASSUME NEW m \in Match, NEW c \in Content, Start(l, m, c) PROVE Kept
      <3>1. /\ load[l].state = "none" /\ load'[l].state = "scanned"
            /\ \A k \in Load : k # l => load'[k] = load[k]
        BY ONLY <1>0, <2>1 DEF Start, Loads
      <3>3. UNCHANGED <<rows, deleter, open, dead, clean>>
        BY <2>1 DEF Start
      <3>2. \A k \in open : k \in Load /\ k # l
        BY <1>0, <3>1
      <3> QED
        BY <3>1, <3>2, <3>3 DEF Committed
    <2>2. CASE Delete(l)
      BY <1>0, <2>2 DEF Delete, Committed, Deleted, Loads
    <2>3. CASE Copy(l)
      BY <1>0, <2>3 DEF Copy, Committed
    <2>4. CASE TakenForDead(l)
      BY <1>0, <2>4 DEF TakenForDead, Committed
    <2>5. CASE Fail(l) /\ l \notin open
      BY <1>0, <2>5 DEF Fail, Committed, Running, Loads
    <2> QED
      BY <2>1, <2>2, <2>3, <2>4, <2>5
  <1>2. \A k \in Load : Deleted(k)' <=> Deleted(k)
    BY <1>1 DEF Deleted
  <1>3. \A m \in Match : Served(m)' = Served(m)
    BY <1>1, <1>2, ServedKept
  <1>4. Loading' = Loading
    BY <1>0, <1>1 DEF Loading
  <1> QED
    BY <1>1, <1>3, <1>4 DEF Table!vars

\* The DELETE begins the load of ServedTable.
LEMMA TableBegins ==
    ASSUME LoadInv, NEW l \in Load, BeginDelete(l)
    PROVE  Table!Next
  <1>0. /\ load \in [Load -> Loads] /\ clean \subseteq open
        /\ open = {k \in Load : load[k].state \in {"deleting", "copying"}}
    BY DEF LoadInv, TypeOK
  <1> DEFINE m == load[l].match
             c == load[l].content
             rivals == {k \in open : load[k].match = m}
  <1>1. /\ load[l].state = "scanned" /\ UNCHANGED <<rows, deleter>>
        /\ open' = open \cup {l}
        /\ clean' = IF rivals = {} THEN clean \cup {l} ELSE clean \ rivals
        /\ m \in Match /\ c \in Content
    BY DEF BeginDelete, LoadInv, TypeOK, Local, Loads
  <1>2. /\ load'[l].state = "deleting" /\ load'[l].content = c /\ load'[l].match = m
        /\ \A k \in Load : k # l => load'[k] = load[k]
    BY <1>0 DEF BeginDelete, Loads
  <1>3. l \notin open
    BY <1>0, <1>1
  <1>4. rivals = Table!Rivals(l, m)
    <2>1. \A k \in Load : Loading[k] # Table!Idle <=> k \in open
      BY LoadingIs
    <2>2. \A k \in open : Loading[k].match = load[k].match
      BY LoadingIs
    <2>3. rivals \subseteq Load \ {l}
      BY <1>0, <1>3
    <2> QED
      BY <2>1, <2>2, <2>3 DEF Table!Rivals
  <1>5. \A i \in Match : Served(i)' = Served(i)
    <2>1. \A k \in Load : /\ Committed(k)' <=> Committed(k)
                          /\ Committed(k) => load'[k] = load[k]
      BY <1>1, <1>2 DEF Committed
    <2>2. \A k \in Load : Deleted(k)' <=> Deleted(k)
      BY <1>1, <2>1 DEF Deleted
    <2> QED
      BY <1>1, <2>1, <2>2, ServedKept
  <1>6. Loading' = [Loading EXCEPT ![l] = [match |-> m, content |-> c]]
    BY <1>0, <1>1, <1>2 DEF Loading
  <1>7. Table!Begin(l, m, c)
    BY <1>1, <1>3, <1>4, <1>5, <1>6, LoadingIs DEF Table!Begin
  <1> QED
    BY <1>1, <1>7 DEF Table!Next

\* The load of ServedTable is over.
LEMMA TableEnds ==
    ASSUME LoadInv, NEW l \in open, open' = open \ {l}, clean' = clean \ {l},
           \A k \in Load : k # l => load'[k] = load[k]
    PROVE  Table!Ended(l)
  <1>0. open \subseteq Load
    BY DEF LoadInv, TypeOK
  <1>1. Loading' = [Loading EXCEPT ![l] = Table!Idle]
    BY <1>0 DEF Loading, Table!Idle
  <1> QED
    BY <1>1, LoadingIs DEF Table!Ended

\* A rollback leaves the copies, and so the table, as they were.
LEMMA TableRollsBack ==
    ASSUME LoadInv, NEW l \in Load, Fail(l), l \in open
    PROVE  Table!Next
  <1>0. load \in [Load -> Loads]
    BY DEF LoadInv, TypeOK
  <1>1. /\ Running(l) /\ open' = open \ {l} /\ clean' = clean \ {l}
        /\ UNCHANGED <<rows, deleter>>
        /\ load'[l].state = "failed"
        /\ \A k \in Load : k # l => load'[k] = load[k]
    BY <1>0 DEF Fail, Loads
  <1>2. \A k \in Load : /\ Committed(k)' <=> Committed(k)
                        /\ Committed(k) => load'[k] = load[k]
    BY <1>1 DEF Committed, Running
  <1>3. \A k \in Load : Deleted(k)' <=> Deleted(k)
    BY <1>1, <1>2 DEF Deleted
  <1>4. \A m \in Match : Served(m)' = Served(m)
    BY <1>1, <1>2, <1>3, ServedKept
  <1>5. Table!Rollback(l)
    BY <1>1, <1>4, TableEnds DEF Table!Rollback
  <1> QED
    BY <1>5 DEF Table!Next

\* A COMMIT replaces the match: by what the load brought, if the load had the
\* match for itself, and else by that or by something unknown.
LEMMA TableCommits ==
    ASSUME LoadInv, LoadInv', NEW l \in Load, Commit(l)
    PROVE  Table!Next
  <1>0. load[l].match \in Match
    BY DEF LoadInv, TypeOK, Loads
  <1> PICK m \in Match : m = load[l].match
    BY <1>0
  <1> PICK c : c = load[l].content
    OBVIOUS
  <1>1. /\ load[l].state = "copying" /\ rows[l] = Size[c]
        /\ UNCHANGED <<rows, deleter, dead>>
        /\ open' = open \ {l} /\ clean' = clean \ {l}
        /\ \A k \in Load : k # l => load'[k] = load[k]
        /\ load'[l].content = c
        /\ ~Deleted(l)'
        /\ Done(m)' = Done(m) \cup {l}
        /\ \A i \in Match : i # m =>
              /\ Done(i)' = Done(i)
              /\ \A k \in Done(i) : Deleted(k)' <=> Deleted(k)
    BY CommitCopies DEF Done
  <1>2. l \in open /\ l \in Nat
    BY <1>1, LoadAssumption DEF LoadInv, TypeOK
  <1>3. Table!Ended(l)
    BY <1>1, <1>2, TableEnds
  <1>4. ASSUME NEW i \in Match, i # m PROVE Served(i)' = Served(i)
    <2>1. Visible(i)' = {k \in Done(i)' : ~Deleted(k)'}
      BY DEF Visible, Done, Deleted
    <2>2. Visible(i)' = Visible(i)
      BY <1>1, <1>4, <2>1, VisibleIs
    <2>3. \A k \in Visible(i) : k \in Load /\ k # l
      BY <1>1, <1>4, VisibleIs DEF Done, Committed
    <2> QED
      BY <1>1, <2>2, <2>3, ServedSame
  <1>5. l \in Visible(m)'
    BY <1>1 DEF Visible, Done, Deleted
  <1> DEFINE top == CHOOSE k \in Visible(m)' : \A j \in Visible(m)' : j <= k
  <1>6. Served(m)' = IF Visible(m)' = {top} /\ rows'[top] = Size[load'[top].content]
                     THEN load'[top].content ELSE Unknown
    BY <1>5 DEF Served
  <1> HIDE DEF top
  <1>7. /\ Served(m)' \in {c, Unknown}
        /\ l \in clean => Served(m)' = c
    <2>1. Served(m)' \in {c, Unknown}
      BY <1>1, <1>5, <1>6
    <2>2. ASSUME l \in clean PROVE Served(m)' = c
      <3>1. load'[l].match = m
        BY CommitCopies
      <3>2. Visible(m)' = {l}
        BY <2>2, <3>1, CleanCommit DEF Visible
      <3>3. top = l
        BY <1>2, <3>2 DEF top
      <3> QED
        BY <1>1, <1>6, <3>2, <3>3
    <2> QED
      BY <2>1, <2>2
  <1>8. Loading[l].content = c /\ Loading[l].match = m
    BY <1>2, LoadingIs
  <1>9. [i \in Match |-> Served(i)]' =
           [[i \in Match |-> Served(i)] EXCEPT ![Loading[l].match] = Served(m)']
    BY <1>2, <1>4, <1>8
  <1>10. Served(m)' \in {Loading[l].content} \cup (IF l \in clean THEN {} ELSE {Unknown})
    BY <1>7, <1>8
  <1>11. Table!Commit(l)
    BY <1>3, <1>9, <1>10 DEF Table!Commit
  <1> QED
    BY <1>11 DEF Table!Next

\* Between the DELETE and the COMMIT, and after a failure at any point, the
\* readers see the match as it was; a load that commits replaces it at once.
THEOREM LoadImplementsTable == Spec => TableSpec
  <1>1. Init => Table!Init
    <2> SUFFICES ASSUME Init PROVE Table!Init
      OBVIOUS
    <2>1. \A m \in Match : Visible(m) = {}
      BY DEF Init, Visible, Committed
    <2>2. \A m \in Match : Served(m) = NoContent
      BY <2>1 DEF Served
    <2>3. Loading = [l \in Load |-> Table!Idle]
      BY DEF Init, Loading, Table!Idle
    <2> QED
      BY <2>2, <2>3 DEF Table!Init, Init
  <1>2. LoadInv /\ LoadInv' /\ [Next]_vars => [Table!Next]_(Table!vars)
    <2> SUFFICES ASSUME LoadInv, LoadInv', [Next]_vars
                 PROVE  [Table!Next]_(Table!vars)
      OBVIOUS
    <2>1. CASE UNCHANGED vars
      <3>1. /\ \A m : Served(m)' = Served(m)
            /\ Loading' = Loading
        BY <2>1 DEF vars, Served, Visible, Committed, Loading
      <3> QED
        BY <2>1, <3>1 DEF vars, Table!vars
    <2>2. CASE Next
      BY <2>2, TableStutters, TableBegins, TableCommits, TableRollsBack
         DEF Next, Proceed
    <2> QED
      BY <2>1, <2>2
  <1> QED
    BY InvInit, InvStep, <1>1, <1>2, PTL DEF Spec, TableSpec, Table!Spec
=============================================================================
