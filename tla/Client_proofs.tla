----------------------------- MODULE Client_proofs -----------------------------
(***************************************************************************)
(* Safety of the client, for every number of slots and inputs, however     *)
(* often streams to the node break: a job is in one place, and the slots   *)
(* are stopped only when all jobs are printed.                             *)
(***************************************************************************)
EXTENDS Client, Lemmas

-----------------------------------------------------------------------------
(* The inductive invariant, by parts.                                       *)

(* A slot has a job exactly where it works on one.                          *)
SlotInv ==
    \A s \in AllSlots :
        job[s] = None <=> slotPc[s] \in {"connect", "check", "take", "takeError", "exited"}

(* What the main thread has seen when it decides that all is printed.       *)
EndInv ==
    /\ readerPc # "read" => total = nread
    /\ finished => readerPc = "done"
    /\ mainPc = "compare" => finished
    /\ mainPc \in {"kill", "join", "exit"} => finished /\ counter = nread

Inv == TypeOK /\ SlotInv /\ EndInv /\ JobIsInOnePlace

-----------------------------------------------------------------------------
(* Where jobs are, counted.                                                 *)

LEMMA PlacesAreFinite ==
    ASSUME TypeOK, NEW j
    PROVE  /\ IsFiniteSet(InInputs(j)) /\ Cardinality(InInputs(j)) \in Nat
           /\ IsFiniteSet(InErrors(j)) /\ Cardinality(InErrors(j)) \in Nat
           /\ IsFiniteSet(InSlots(j)) /\ Cardinality(InSlots(j)) \in Nat
<1>1. /\ Len(inputs) \in Nat /\ DOMAIN inputs = 1 .. Len(inputs)
      /\ Len(errors) \in Nat /\ DOMAIN errors = 1 .. Len(errors)
  BY LenProperties DEF TypeOK
<1>2. InInputs(j) \subseteq 1 .. Len(inputs) /\ InErrors(j) \subseteq 1 .. Len(errors)
  BY <1>1 DEF InInputs, InErrors
<1>3. IsFiniteSet(AllSlots)
  BY ClientAssumption, FS_Union, Zenon DEF AllSlots
<1>4. InSlots(j) \in SUBSET AllSlots
  BY DEF InSlots
<1>5. IsFiniteSet(InSlots(j))
  BY <1>3, <1>4, FS_Subset, Zenon
<1>6. Cardinality(InSlots(j)) \in Nat
  BY <1>5, FS_CardinalityType, Zenon
<1>. QED  BY <1>1, <1>2, <1>5, <1>6, PositionsAreFinite, Zenon

LEMMA InputAdded ==
    ASSUME TypeOK, NEW x \in Jids, inputs' = Append(inputs, x)
    PROVE  \A j : Cardinality(InInputs(j)') =
                      Cardinality(InInputs(j)) + (IF j = x THEN 1 ELSE 0)
<1>. DEFINE n == Len(inputs)
<1>1. n \in Nat /\ DOMAIN inputs = 1 .. n /\ inputs \in Seq(Jids)
  BY LenProperties DEF TypeOK
<1>2. /\ inputs' \in Seq(Jids) /\ Len(inputs') = n + 1
      /\ \A i \in 1 .. n : inputs'[i] = inputs[i]
      /\ inputs'[n + 1] = x
  BY <1>1, AppendProperties
<1>3. DOMAIN inputs' = 1 .. n + 1
  BY <1>2, LenProperties
<1>. SUFFICES ASSUME NEW j
              PROVE  Cardinality(InInputs(j)') =
                         Cardinality(InInputs(j)) + (IF j = x THEN 1 ELSE 0)
  OBVIOUS
<1>. HIDE DEF n
<1>4. InInputs(j)' = IF j = x THEN InInputs(j) \cup {n + 1} ELSE InInputs(j)
  BY <1>1, <1>2, <1>3 DEF InInputs
<1>5. n + 1 \notin InInputs(j)
  BY <1>1 DEF InInputs
<1>6. IsFiniteSet(InInputs(j)) /\ Cardinality(InInputs(j)) \in Nat
  BY PlacesAreFinite, Zenon
<1>7. j = x => Cardinality(InInputs(j)') = Cardinality(InInputs(j)) + 1
  BY <1>4, <1>5, <1>6, WithOneMore, Zenon
<1>. QED  BY <1>4, <1>6, <1>7

LEMMA InputTaken ==
    ASSUME TypeOK, inputs # <<>>, inputs' = Tail(inputs)
    PROVE  /\ Head(inputs) \in Jids /\ inputs' \in Seq(Jids)
           /\ \A j : Cardinality(InInputs(j)') =
                         Cardinality(InInputs(j)) - (IF j = Head(inputs) THEN 1 ELSE 0)
<1>. DEFINE n == Len(inputs)
            x == Head(inputs)
<1>1. n \in Nat \ {0} /\ DOMAIN inputs = 1 .. n /\ inputs \in Seq(Jids)
  BY LenProperties, EmptySeq DEF TypeOK
<1>2. /\ x \in Jids
      /\ inputs' \in Seq(Jids) /\ Len(inputs') = n - 1
      /\ \A i \in 1 .. n - 1 : inputs'[i] = inputs[i + 1]
  BY <1>1, HeadTailProperties
<1>3. DOMAIN inputs' = 1 .. n - 1 /\ x = inputs[1]
  BY <1>2, LenProperties
<1>. SUFFICES ASSUME NEW j
              PROVE  Cardinality(InInputs(j)') =
                         Cardinality(InInputs(j)) - (IF j = x THEN 1 ELSE 0)
  BY <1>2
<1>. HIDE DEF n, x
<1>. DEFINE rest == InInputs(j) \ {1}
<1>4. IsFiniteSet(InInputs(j)) /\ Cardinality(InInputs(j)) \in Nat
  BY PlacesAreFinite, Zenon
<1>5. IsFiniteSet(rest)
  BY <1>4, FS_RemoveElement, Zenon
<1>6. rest \in SUBSET (Nat \ {0})
  BY <1>1 DEF InInputs
<1>7. \A i : i \in InInputs(j)' <=> i \in Nat /\ i + 1 \in rest
  BY <1>1, <1>2, <1>3 DEF InInputs
<1>8. Cardinality(InInputs(j)') = Cardinality(rest)
  <2>. HIDE DEF rest
  <2>. QED  BY <1>5, <1>6, <1>7, MovedPositions, Zenon
<1>9. 1 \in InInputs(j) <=> j = x
  BY <1>1, <1>3 DEF InInputs
<1>10. j = x => Cardinality(rest) = Cardinality(InInputs(j)) - 1
  BY <1>4, <1>9, WithOneLess, Zenon
<1>11. j # x => rest = InInputs(j)
  BY <1>9
<1>. HIDE DEF rest
<1>. QED  BY <1>4, <1>8, <1>10, <1>11

LEMMA ErrorAdded ==
    ASSUME TypeOK, NEW x \in Jobs, errors' = Append(errors, x)
    PROVE  \A j : Cardinality(InErrors(j)') =
                      Cardinality(InErrors(j)) + (IF j = x.jid THEN 1 ELSE 0)
<1>. DEFINE n == Len(errors)
<1>1. n \in Nat /\ DOMAIN errors = 1 .. n /\ errors \in Seq(Jobs)
  BY LenProperties DEF TypeOK
<1>2. /\ errors' \in Seq(Jobs) /\ Len(errors') = n + 1
      /\ \A i \in 1 .. n : errors'[i] = errors[i]
      /\ errors'[n + 1] = x
  BY <1>1, AppendProperties
<1>3. DOMAIN errors' = 1 .. n + 1
  BY <1>2, LenProperties
<1>. SUFFICES ASSUME NEW j
              PROVE  Cardinality(InErrors(j)') =
                         Cardinality(InErrors(j)) + (IF j = x.jid THEN 1 ELSE 0)
  OBVIOUS
<1>. HIDE DEF n
<1>4. InErrors(j)' = IF j = x.jid THEN InErrors(j) \cup {n + 1} ELSE InErrors(j)
  BY <1>1, <1>2, <1>3 DEF InErrors
<1>5. n + 1 \notin InErrors(j)
  BY <1>1 DEF InErrors
<1>6. IsFiniteSet(InErrors(j)) /\ Cardinality(InErrors(j)) \in Nat
  BY PlacesAreFinite, Zenon
<1>7. j = x.jid => Cardinality(InErrors(j)') = Cardinality(InErrors(j)) + 1
  BY <1>4, <1>5, <1>6, WithOneMore, Zenon
<1>. QED  BY <1>4, <1>6, <1>7

(* TakeError pops the job at the back.                                      *)
LEMMA ErrorTaken ==
    ASSUME TypeOK, Len(errors) > 0, errors' = SubSeq(errors, 1, Len(errors) - 1)
    PROVE  /\ errors[Len(errors)] \in Jobs /\ errors' \in Seq(Jobs)
           /\ \A j : Cardinality(InErrors(j)') =
                         Cardinality(InErrors(j))
                             - (IF j = errors[Len(errors)].jid THEN 1 ELSE 0)
<1>. DEFINE n == Len(errors)
            x == errors[n]
<1>1. n \in Nat \ {0} /\ DOMAIN errors = 1 .. n /\ errors \in Seq(Jobs)
  BY LenProperties DEF TypeOK
<1>2. \A i \in 1 .. n : errors[i] \in Jobs
  BY <1>1, ElementOfSeq
<1>3. /\ errors' \in Seq(Jobs) /\ Len(errors') = n - 1
      /\ \A i \in 1 .. n - 1 : errors'[i] = errors[i]
  <2>1. \A i \in 1 .. n - 1 : errors[i] \in Jobs
    BY <1>1, <1>2
  <2>2. /\ errors' \in Seq(Jobs)
        /\ Len(errors') = IF 1 <= n - 1 THEN n - 1 - 1 + 1 ELSE 0
        /\ \A i \in 1 .. n - 1 - 1 + 1 : errors'[i] = errors[1 + i - 1]
    BY <1>1, <2>1, SubSeqProperties
  <2>. QED  BY <1>1, <2>2
<1>4. DOMAIN errors' = 1 .. n - 1
  BY <1>3, LenProperties
<1>5. n \in 1 .. n /\ x \in Jobs
  BY <1>1, <1>2
<1>. SUFFICES ASSUME NEW j
              PROVE  Cardinality(InErrors(j)') =
                         Cardinality(InErrors(j)) - (IF j = x.jid THEN 1 ELSE 0)
  BY <1>3, <1>5
<1>6. InErrors(j)' = InErrors(j) \ {n}
  BY <1>1, <1>3, <1>4 DEF InErrors
<1>7. n \in InErrors(j) <=> j = x.jid
  BY <1>1, <1>5 DEF InErrors
<1>. HIDE DEF n, x
<1>8. IsFiniteSet(InErrors(j)) /\ Cardinality(InErrors(j)) \in Nat
  BY PlacesAreFinite, Zenon
<1>9. j = x.jid => Cardinality(InErrors(j)') = Cardinality(InErrors(j)) - 1
  BY <1>6, <1>7, <1>8, WithOneLess, Zenon
<1>10. j # x.jid => InErrors(j)' = InErrors(j)
  BY <1>6, <1>7
<1>. QED  BY <1>8, <1>9, <1>10

LEMMA SlotTook ==
    ASSUME TypeOK, NEW s \in AllSlots, job[s] = None, NEW x \in Jobs,
           job' = [job EXCEPT ![s] = x]
    PROVE  \A j : Cardinality(InSlots(j)') =
                      Cardinality(InSlots(j)) + (IF j = x.jid THEN 1 ELSE 0)
<1>. SUFFICES ASSUME NEW j
              PROVE  Cardinality(InSlots(j)') =
                         Cardinality(InSlots(j)) + (IF j = x.jid THEN 1 ELSE 0)
  OBVIOUS
<1>1. job'[s] = x /\ \A r \in AllSlots \ {s} : job'[r] = job[r]
  BY DEF TypeOK
<1>2. x # None
  BY ClientAssumption
<1>3. InSlots(j)' = IF j = x.jid THEN InSlots(j) \cup {s} ELSE InSlots(j)
  BY <1>1, <1>2 DEF InSlots
<1>4. s \notin InSlots(j)
  BY DEF InSlots
<1>5. IsFiniteSet(InSlots(j)) /\ Cardinality(InSlots(j)) \in Nat
  BY PlacesAreFinite, Zenon
<1>6. j = x.jid => Cardinality(InSlots(j)') = Cardinality(InSlots(j)) + 1
  BY <1>3, <1>4, <1>5, WithOneMore, Zenon
<1>. QED  BY <1>3, <1>5, <1>6

LEMMA SlotDropped ==
    ASSUME TypeOK, NEW s \in AllSlots, job[s] # None, job' = [job EXCEPT ![s] = None]
    PROVE  \A j : Cardinality(InSlots(j)') =
                      Cardinality(InSlots(j)) - (IF j = job[s].jid THEN 1 ELSE 0)
<1>. SUFFICES ASSUME NEW j
              PROVE  Cardinality(InSlots(j)') =
                         Cardinality(InSlots(j)) - (IF j = job[s].jid THEN 1 ELSE 0)
  OBVIOUS
<1>1. job'[s] = None /\ \A r \in AllSlots \ {s} : job'[r] = job[r]
  BY DEF TypeOK
<1>2. InSlots(j)' = InSlots(j) \ {s}
  BY <1>1 DEF InSlots
<1>3. s \in InSlots(j) <=> j = job[s].jid
  BY DEF InSlots
<1>4. IsFiniteSet(InSlots(j)) /\ Cardinality(InSlots(j)) \in Nat
  BY PlacesAreFinite, Zenon
<1>5. j = job[s].jid => Cardinality(InSlots(j)') = Cardinality(InSlots(j)) - 1
  BY <1>2, <1>3, <1>4, WithOneLess, Zenon
<1>6. j # job[s].jid => InSlots(j)' = InSlots(j)
  BY <1>2, <1>3
<1>. QED  BY <1>4, <1>5, <1>6

(* A job that a slot has is nowhere else.                                   *)
LEMMA HeldJob ==
    ASSUME TypeOK, JobIsInOnePlace, NEW s \in AllSlots, job[s] # None
    PROVE  /\ job[s] \in Jobs /\ job[s].jid \in Jids
           /\ Cardinality(InSlots(job[s].jid)) = 1
           /\ outputs[job[s].jid] = None /\ job[s].jid \notin failed
<1>. DEFINE x == job[s].jid
<1>1. job[s] \in Jobs /\ x \in Jids
  BY DEF TypeOK, Jobs
<1>2. Cardinality(InSlots(x)) # 0
  <2>1. s \in InSlots(x)
    BY DEF InSlots
  <2>2. IsFiniteSet(InSlots(x))
    BY PlacesAreFinite, Zenon
  <2>. QED  BY <2>1, <2>2, FS_EmptySet
<1>. HIDE DEF x
<1>3. /\ Cardinality(InInputs(x)) \in Nat /\ Cardinality(InErrors(x)) \in Nat
      /\ Cardinality(InSlots(x)) \in Nat
  BY PlacesAreFinite, Zenon
<1>4. Places(x) <= 1
  BY <1>1 DEF JobIsInOnePlace
<1>5. Cardinality(InSlots(x)) = 1 /\ outputs[x] = None /\ x \notin failed
  BY <1>2, <1>3, <1>4 DEF Places
<1>. QED  BY <1>1, <1>5 DEF x

(* A step that moves no job.                                                *)
LEMMA JobsStay ==
    ASSUME JobIsInOnePlace,
           UNCHANGED <<inputs, errors, failed, outputs, job, counter, nread>>
    PROVE  JobIsInOnePlace'
<1>1. \A j : /\ InInputs(j)' = InInputs(j) /\ InErrors(j)' = InErrors(j)
             /\ InSlots(j)' = InSlots(j)
  BY DEF InInputs, InErrors, InSlots
<1>2. \A j : Places(j)' = Places(j)
  BY <1>1 DEF Places
<1>. QED  BY <1>2 DEF JobIsInOnePlace

(* A slot that only goes on to where it has a job, or none, as before.      *)
LEMMA GoOn ==
    ASSUME Inv, NEW s \in AllSlots, NEW label, Goto(s, label),
           label \in {"connect", "check", "take", "takeError", "run",
                      "write", "read", "wait", "retry", "exited"},
           job[s] = None <=> label \in {"connect", "check", "take", "takeError", "exited"},
           UNCHANGED <<readerVars, inputs, errors, failed, outputs, mainVars, job>>,
           link' \in [Remotes -> {"none", "up", "broken"}],
           UNCHANGED <<nodeUp, breaks>>
    PROVE  Inv'
<1>. USE DEF Inv
<1>1. slotPc' = [slotPc EXCEPT ![s] = label]
  BY DEF Goto
<1>2. TypeOK'
  BY <1>1 DEF TypeOK, readerVars, mainVars
<1>3. SlotInv'
  BY <1>1 DEF SlotInv, TypeOK
<1>4. EndInv'
  BY DEF EndInv, readerVars, mainVars
<1>5. JobIsInOnePlace'
  BY JobsStay DEF readerVars, mainVars
<1>. QED  BY <1>2, <1>3, <1>4, <1>5

-----------------------------------------------------------------------------
(* The steps.                                                               *)

LEMMA InvInit == ASSUME Init PROVE Inv
<1>1. MaxInputs \in Nat /\ MaxBreaks \in Nat
  BY ClientAssumption
<1>2. TypeOK
  <2>1. inputs \in Seq(Jids) /\ errors \in Seq(Jobs)
    BY EmptySeq DEF Init
  <2>2. outputs \in [Jids -> Results \cup {None}] /\ job \in [AllSlots -> Jobs \cup {None}]
    BY DEF Init
  <2>3. nread \in 0 .. MaxInputs /\ total \in 0 .. MaxInputs /\ counter \in 0 .. MaxInputs
        /\ breaks \in 0 .. MaxBreaks
    BY <1>1 DEF Init
  <2>4. /\ link \in [Remotes -> {"none", "up", "broken"}]
        /\ slotPc \in [AllSlots -> {"connect", "check", "take", "takeError", "run",
                                    "write", "read", "wait", "retry", "exited"}]
    BY DEF Init
  <2>. QED  BY <2>1, <2>2, <2>3, <2>4 DEF Init, TypeOK
<1>3. SlotInv /\ EndInv
  BY DEF Init, SlotInv, EndInv
<1>4. JobIsInOnePlace
  <2>. SUFFICES ASSUME NEW j \in Jids PROVE Places(j) = 0 /\ ~(j < nread)
    BY DEF JobIsInOnePlace
  <2>1. j \in Nat
    BY <1>1 DEF Jids
  <2>2. InInputs(j) = {} /\ InErrors(j) = {} /\ InSlots(j) = {}
    BY DEF Init, InInputs, InErrors, InSlots
  <2>. QED  BY <2>1, <2>2, FS_EmptySet DEF Init, Places
<1>. QED  BY <1>2, <1>3, <1>4 DEF Inv

LEMMA ReadInputStep == ASSUME Inv, ReadInput PROVE Inv'
<1>. USE DEF Inv
<1>1. /\ readerPc = "read" /\ nread < MaxInputs
      /\ inputs' = Append(inputs, nread) /\ nread' = nread + 1
      /\ UNCHANGED <<readerPc, total, finished, errors, failed, outputs, mainVars,
                     slotVars, nodeVars>>
  BY DEF ReadInput
<1>2. nread \in Jids /\ nread \in Nat
  BY <1>1, ClientAssumption DEF TypeOK, Jids
<1>3. TypeOK'
  <2>1. inputs' \in Seq(Jids)
    BY <1>1, <1>2, AppendProperties DEF TypeOK
  <2>2. nread' \in 0 .. MaxInputs
    BY <1>1, ClientAssumption DEF TypeOK
  <2>. QED  BY <1>1, <2>1, <2>2 DEF TypeOK, mainVars, slotVars, nodeVars
<1>4. SlotInv'
  BY <1>1 DEF SlotInv, slotVars
<1>5. EndInv'
  BY <1>1 DEF EndInv, mainVars
<1>6. JobIsInOnePlace'
  <2>. SUFFICES ASSUME NEW j \in Jids
                PROVE  Places(j)' = IF j < nread + 1 THEN 1 ELSE 0
    BY <1>1 DEF JobIsInOnePlace
  <2>1. j \in Nat
    BY ClientAssumption DEF Jids
  <2>2. Cardinality(InInputs(j)') = Cardinality(InInputs(j)) + (IF j = nread THEN 1 ELSE 0)
    BY <1>1, <1>2, InputAdded
  <2>3. InErrors(j)' = InErrors(j) /\ InSlots(j)' = InSlots(j)
    BY <1>1 DEF InErrors, InSlots, slotVars
  <2>4. /\ failed' = failed /\ outputs' = outputs /\ counter' = counter
    BY <1>1 DEF mainVars
  <2>5. /\ Cardinality(InInputs(j)) \in Nat /\ Cardinality(InErrors(j)) \in Nat
        /\ Cardinality(InSlots(j)) \in Nat
    BY PlacesAreFinite, Zenon
  <2>6. Places(j)' = Places(j) + (IF j = nread THEN 1 ELSE 0)
    BY <2>2, <2>3, <2>4, <2>5 DEF Places
  <2>7. Places(j) = IF j < nread THEN 1 ELSE 0
    BY DEF JobIsInOnePlace
  <2>. QED  BY <1>2, <2>1, <2>6, <2>7
<1>. QED  BY <1>3, <1>4, <1>5, <1>6

LEMMA AnnounceStep == ASSUME Inv, StoreTotal \/ StoreFinished PROVE Inv'
<1>. USE DEF Inv
<1>1. UNCHANGED <<nread, inputs, errors, failed, outputs, mainVars, slotVars, nodeVars>>
  BY DEF StoreTotal, StoreFinished
<1>2. TypeOK'
  BY <1>1 DEF TypeOK, StoreTotal, StoreFinished, mainVars, slotVars, nodeVars
<1>3. SlotInv'
  BY <1>1 DEF SlotInv, slotVars
<1>4. EndInv'
  BY <1>1 DEF EndInv, StoreTotal, StoreFinished, mainVars
<1>5. JobIsInOnePlace'
  BY <1>1, JobsStay DEF mainVars, slotVars
<1>. QED  BY <1>2, <1>3, <1>4, <1>5

(* Only PrintOutput moves a job: from the map to those that are printed.    *)
LEMMA MainStep == ASSUME Inv, Main PROVE Inv'
<1>. USE DEF Inv
<1>1. UNCHANGED <<readerVars, inputs, errors, failed, slotVars, nodeVars>>
  BY DEF Main, LoadFinished, CompareTotal, PrintOutput, SetKill, JoinSlots
<1>2. SlotInv'
  BY <1>1 DEF SlotInv, slotVars
<1>3. CASE PrintOutput
  <2>1. /\ mainPc = "get" /\ counter \in Jids /\ outputs[counter] # None
        /\ outputs' = [outputs EXCEPT ![counter] = None]
        /\ counter' = counter + 1 /\ mainPc' = "loop" /\ kill' = kill
    BY <1>3 DEF PrintOutput
  <2>2. counter \in Nat /\ counter + 1 \in 0 .. MaxInputs
    BY <2>1, ClientAssumption DEF TypeOK, Jids
  <2>3. TypeOK'
    BY <1>1, <2>1, <2>2 DEF TypeOK, readerVars, slotVars, nodeVars
  <2>4. EndInv'
    BY <1>1, <2>1 DEF EndInv, readerVars
  <2>5. JobIsInOnePlace'
    <3>. SUFFICES ASSUME NEW j \in Jids PROVE Places(j)' = Places(j)
      BY <1>1 DEF JobIsInOnePlace, readerVars
    <3>1. j \in Nat
      BY ClientAssumption DEF Jids
    <3>2. InInputs(j)' = InInputs(j) /\ InErrors(j)' = InErrors(j) /\ InSlots(j)' = InSlots(j)
      BY <1>1 DEF InInputs, InErrors, InSlots, slotVars
    <3>3. /\ Cardinality(InInputs(j)) \in Nat /\ Cardinality(InErrors(j)) \in Nat
          /\ Cardinality(InSlots(j)) \in Nat
      BY PlacesAreFinite, Zenon
    <3>4. failed' = failed
      BY <1>1
    <3>5. CASE j = counter
      <4>1. outputs[j] # None /\ outputs'[j] = None /\ ~(j < counter) /\ j < counter'
        BY <2>1, <2>2, <3>5 DEF TypeOK
      <4>. QED  BY <3>2, <3>3, <3>4, <4>1 DEF Places
    <3>6. CASE j # counter
      <4>1. outputs'[j] = outputs[j] /\ (j < counter' <=> j < counter)
        BY <2>1, <2>2, <3>1, <3>6 DEF TypeOK
      <4>. QED  BY <3>2, <3>3, <3>4, <4>1 DEF Places
    <3>. QED  BY <3>5, <3>6
  <2>. QED  BY <1>2, <2>3, <2>4, <2>5
<1>4. CASE LoadFinished \/ CompareTotal \/ SetKill \/ JoinSlots
  <2>1. outputs' = outputs /\ counter' = counter
    BY <1>4 DEF LoadFinished, CompareTotal, SetKill, JoinSlots
  <2>2. TypeOK'
    BY <1>1, <1>4, <2>1
       DEF LoadFinished, CompareTotal, SetKill, JoinSlots, TypeOK, readerVars, slotVars, nodeVars
  <2>3. EndInv'
    BY <1>1, <1>4, <2>1
       DEF LoadFinished, CompareTotal, SetKill, JoinSlots, EndInv, readerVars
  <2>4. JobIsInOnePlace'
    BY <1>1, <2>1, JobsStay DEF readerVars, slotVars
  <2>. QED  BY <1>2, <2>2, <2>3, <2>4
<1>. QED  BY <1>3, <1>4 DEF Main

(* The steps of a slot that take no job and leave none.                     *)
LEMMA SlotGoesOn ==
    ASSUME Inv, NEW s \in AllSlots,
           CheckKill(s) \/ MissInput(s) \/ MissError(s) \/ Write(s) \/ ReadErr(s) \/ ReadEnd(s)
    PROVE  Inv'
<1>1. /\ link' = link /\ nodeUp' = nodeUp /\ breaks' = breaks
      /\ UNCHANGED <<readerVars, inputs, errors, failed, outputs, mainVars, job>>
  BY DEF CheckKill, MissInput, MissError, Write, ReadErr, ReadEnd, nodeVars
<1>2. link' \in [Remotes -> {"none", "up", "broken"}]
  BY <1>1 DEF Inv, TypeOK
<1>3. \A label : Goto(s, label)
          /\ (\/ /\ slotPc[s] \in {"connect", "check", "take", "takeError", "exited"}
                 /\ label \in {"connect", "check", "take", "takeError", "exited"}
              \/ /\ slotPc[s] \notin {"connect", "check", "take", "takeError", "exited"}
                 /\ label \in {"run", "write", "read", "wait", "retry"})
          => Inv'
  BY <1>1, <1>2, GoOn DEF Inv, SlotInv
<1>4. CASE CheckKill(s) \/ MissInput(s) \/ MissError(s)
  BY <1>3, <1>4 DEF CheckKill, MissInput, MissError
<1>5. CASE Write(s) \/ ReadErr(s) \/ ReadEnd(s)
  BY <1>3, <1>5 DEF Write, ReadErr, ReadEnd
<1>. QED  BY <1>4, <1>5

LEMMA ConnectStep == ASSUME Inv, NEW s \in Remotes, Connect(s) PROVE Inv'
<1>1. /\ slotPc[s] = "connect" /\ Goto(s, "check")
      /\ link' = [link EXCEPT ![s] = "up"]
      /\ UNCHANGED <<readerVars, inputs, errors, failed, outputs, mainVars, job>>
      /\ UNCHANGED <<nodeUp, breaks>>
  BY DEF Connect
<1>2. link' \in [Remotes -> {"none", "up", "broken"}] /\ s \in AllSlots /\ job[s] = None
  BY <1>1 DEF Inv, TypeOK, AllSlots, SlotInv
<1>. QED  BY <1>1, <1>2, GoOn

(* What the steps have in common in which a slot gets a job.                *)
LEMMA SlotWorks ==
    ASSUME TypeOK, SlotInv, NEW s \in AllSlots, NEW x \in Jobs, NEW label \in {"run", "write"},
           job' = [job EXCEPT ![s] = x], Goto(s, label)
    PROVE  /\ SlotInv'
           /\ job' \in [AllSlots -> Jobs \cup {None}]
           /\ slotPc' \in [AllSlots -> {"connect", "check", "take", "takeError", "run",
                                       "write", "read", "wait", "retry", "exited"}]
<1>1. x # None
  BY ClientAssumption
<1>2. slotPc' = [slotPc EXCEPT ![s] = label]
  BY DEF Goto
<1>3. SlotInv'
  BY <1>1, <1>2 DEF SlotInv, TypeOK
<1>. QED  BY <1>2, <1>3 DEF TypeOK

LEMMA TakeInputStep == ASSUME Inv, NEW s \in AllSlots, TakeInput(s) PROVE Inv'
<1>. USE DEF Inv
<1>. DEFINE x == [jid |-> Head(inputs), tries |-> 0]
<1>1. /\ slotPc[s] = "take" /\ inputs # <<>>
      /\ job' = [job EXCEPT ![s] = x] /\ inputs' = Tail(inputs)
      /\ UNCHANGED <<readerVars, errors, failed, outputs, mainVars, nodeVars>>
  BY DEF TakeInput
<1>2. \E label \in {"run", "write"} : Goto(s, label)
  BY DEF TakeInput
<1>3. /\ Head(inputs) \in Jids /\ inputs' \in Seq(Jids)
      /\ \A j : Cardinality(InInputs(j)') =
                    Cardinality(InInputs(j)) - (IF j = Head(inputs) THEN 1 ELSE 0)
  BY <1>1, InputTaken
<1>4. x \in Jobs /\ x.jid = Head(inputs)
  BY <1>3 DEF Jobs, LastTry
<1>. HIDE DEF x
<1>5. job[s] = None
  BY <1>1 DEF SlotInv
<1>6. /\ SlotInv'
      /\ job' \in [AllSlots -> Jobs \cup {None}]
      /\ slotPc' \in [AllSlots -> {"connect", "check", "take", "takeError", "run",
                                  "write", "read", "wait", "retry", "exited"}]
  BY <1>1, <1>2, <1>4, SlotWorks
<1>7. TypeOK'
  BY <1>1, <1>3, <1>6 DEF TypeOK, readerVars, mainVars, nodeVars
<1>8. EndInv'
  BY <1>1 DEF EndInv, readerVars, mainVars
<1>9. \A j : Cardinality(InSlots(j)') =
                 Cardinality(InSlots(j)) + (IF j = x.jid THEN 1 ELSE 0)
  BY <1>1, <1>4, <1>5, SlotTook
<1>10. JobIsInOnePlace'
  <2>. SUFFICES ASSUME NEW j \in Jids PROVE Places(j)' = Places(j)
    BY <1>1 DEF JobIsInOnePlace, readerVars
  <2>1. InErrors(j)' = InErrors(j)
    BY <1>1 DEF InErrors
  <2>2. failed' = failed /\ outputs' = outputs /\ counter' = counter
    BY <1>1 DEF mainVars
  <2>3. /\ Cardinality(InInputs(j)) \in Nat /\ Cardinality(InErrors(j)) \in Nat
        /\ Cardinality(InSlots(j)) \in Nat
    BY PlacesAreFinite, Zenon
  <2>. QED  BY <1>3, <1>4, <1>9, <2>1, <2>2, <2>3 DEF Places
<1>. QED  BY <1>6, <1>7, <1>8, <1>10

LEMMA TakeErrorStep == ASSUME Inv, NEW s \in AllSlots, TakeError(s) PROVE Inv'
<1>. USE DEF Inv
<1>. DEFINE x == errors[Len(errors)]
<1>1. /\ slotPc[s] = "takeError" /\ Len(errors) > 0
      /\ job' = [job EXCEPT ![s] = x] /\ errors' = SubSeq(errors, 1, Len(errors) - 1)
      /\ Goto(s, "write")
      /\ UNCHANGED <<readerVars, inputs, failed, outputs, mainVars, nodeVars>>
  BY DEF TakeError
<1>2. /\ x \in Jobs /\ errors' \in Seq(Jobs)
      /\ \A j : Cardinality(InErrors(j)') =
                    Cardinality(InErrors(j)) - (IF j = x.jid THEN 1 ELSE 0)
  BY <1>1, ErrorTaken
<1>. HIDE DEF x
<1>3. job[s] = None
  BY <1>1 DEF SlotInv
<1>4. /\ SlotInv'
      /\ job' \in [AllSlots -> Jobs \cup {None}]
      /\ slotPc' \in [AllSlots -> {"connect", "check", "take", "takeError", "run",
                                  "write", "read", "wait", "retry", "exited"}]
  BY <1>1, <1>2, SlotWorks
<1>5. TypeOK'
  BY <1>1, <1>2, <1>4 DEF TypeOK, readerVars, mainVars, nodeVars
<1>6. EndInv'
  BY <1>1 DEF EndInv, readerVars, mainVars
<1>7. \A j : Cardinality(InSlots(j)') =
                 Cardinality(InSlots(j)) + (IF j = x.jid THEN 1 ELSE 0)
  BY <1>1, <1>2, <1>3, SlotTook
<1>8. JobIsInOnePlace'
  <2>. SUFFICES ASSUME NEW j \in Jids PROVE Places(j)' = Places(j)
    BY <1>1 DEF JobIsInOnePlace, readerVars
  <2>1. InInputs(j)' = InInputs(j)
    BY <1>1 DEF InInputs
  <2>2. failed' = failed /\ outputs' = outputs /\ counter' = counter
    BY <1>1 DEF mainVars
  <2>3. /\ Cardinality(InInputs(j)) \in Nat /\ Cardinality(InErrors(j)) \in Nat
        /\ Cardinality(InSlots(j)) \in Nat
    BY PlacesAreFinite, Zenon
  <2>. QED  BY <1>2, <1>7, <2>1, <2>2, <2>3 DEF Places
<1>. QED  BY <1>4, <1>5, <1>6, <1>8

(* What the steps have in common in which a slot has done with its job.     *)
LEMMA SlotRests ==
    ASSUME Inv, NEW s \in AllSlots, job[s] # None, Finish(s)
    PROVE  /\ SlotInv'
           /\ job' \in [AllSlots -> Jobs \cup {None}]
           /\ slotPc' \in [AllSlots -> {"connect", "check", "take", "takeError", "run",
                                       "write", "read", "wait", "retry", "exited"}]
           /\ \A j : Cardinality(InSlots(j)') =
                         Cardinality(InSlots(j)) - (IF j = job[s].jid THEN 1 ELSE 0)
<1>. USE DEF Inv
<1>1. job' = [job EXCEPT ![s] = None] /\ slotPc' = [slotPc EXCEPT ![s] = "check"]
  BY DEF Finish, Goto
<1>2. SlotInv'
  BY <1>1 DEF SlotInv, TypeOK
<1>3. \A j : Cardinality(InSlots(j)') =
                 Cardinality(InSlots(j)) - (IF j = job[s].jid THEN 1 ELSE 0)
  BY <1>1, SlotDropped
<1>. QED  BY <1>1, <1>2, <1>3 DEF TypeOK

LEMMA OutputStoredStep ==
    ASSUME Inv, NEW s \in AllSlots, NEW result \in Results,
           slotPc[s] \in {"run", "read"}, StoreOutput(s, result), Finish(s),
           UNCHANGED <<readerVars, inputs, errors, failed, mainVars, nodeVars>>
    PROVE  Inv'
<1>. USE DEF Inv
<1>. DEFINE x == job[s].jid
<1>1. job[s] # None
  BY DEF SlotInv
<1>2. x \in Jids /\ outputs[x] = None /\ outputs' = [outputs EXCEPT ![x] = result]
  BY <1>1, HeldJob DEF StoreOutput
<1>3. /\ SlotInv'
      /\ job' \in [AllSlots -> Jobs \cup {None}]
      /\ slotPc' \in [AllSlots -> {"connect", "check", "take", "takeError", "run",
                                  "write", "read", "wait", "retry", "exited"}]
      /\ \A j : Cardinality(InSlots(j)') =
                    Cardinality(InSlots(j)) - (IF j = x THEN 1 ELSE 0)
  BY <1>1, SlotRests
<1>. HIDE DEF x
<1>4. TypeOK'
  BY <1>2, <1>3 DEF TypeOK, readerVars, mainVars, nodeVars
<1>5. EndInv'
  BY DEF EndInv, readerVars, mainVars
<1>6. JobIsInOnePlace'
  <2>. SUFFICES ASSUME NEW j \in Jids PROVE Places(j)' = Places(j)
    BY DEF JobIsInOnePlace, readerVars
  <2>1. InInputs(j)' = InInputs(j) /\ InErrors(j)' = InErrors(j)
    BY DEF InInputs, InErrors
  <2>2. failed' = failed /\ counter' = counter
    BY DEF mainVars
  <2>3. /\ Cardinality(InInputs(j)) \in Nat /\ Cardinality(InErrors(j)) \in Nat
        /\ Cardinality(InSlots(j)) \in Nat
    BY PlacesAreFinite, Zenon
  <2>4. outputs'[j] = IF j = x THEN result ELSE outputs[j]
    BY <1>2 DEF TypeOK
  <2>5. result # None
    BY ClientAssumption
  <2>. QED  BY <1>2, <1>3, <2>1, <2>2, <2>3, <2>4, <2>5 DEF Places
<1>. QED  BY <1>3, <1>4, <1>5, <1>6

LEMMA GiveUpStep == ASSUME Inv, NEW s \in AllSlots, GiveUp(s) PROVE Inv'
<1>. USE DEF Inv
<1>. DEFINE x == job[s].jid
<1>1. /\ slotPc[s] = "retry" /\ failed' = failed \cup {x} /\ Finish(s)
      /\ UNCHANGED <<readerVars, inputs, errors, outputs, mainVars, nodeVars>>
  BY DEF GiveUp
<1>2. job[s] # None
  BY <1>1 DEF SlotInv
<1>3. x \in Jids /\ x \notin failed
  BY <1>2, HeldJob
<1>4. /\ SlotInv'
      /\ job' \in [AllSlots -> Jobs \cup {None}]
      /\ slotPc' \in [AllSlots -> {"connect", "check", "take", "takeError", "run",
                                  "write", "read", "wait", "retry", "exited"}]
      /\ \A j : Cardinality(InSlots(j)') =
                    Cardinality(InSlots(j)) - (IF j = x THEN 1 ELSE 0)
  BY <1>1, <1>2, SlotRests
<1>. HIDE DEF x
<1>5. TypeOK'
  BY <1>1, <1>3, <1>4 DEF TypeOK, readerVars, mainVars, nodeVars
<1>6. EndInv'
  BY <1>1 DEF EndInv, readerVars, mainVars
<1>7. JobIsInOnePlace'
  <2>. SUFFICES ASSUME NEW j \in Jids PROVE Places(j)' = Places(j)
    BY <1>1 DEF JobIsInOnePlace, readerVars
  <2>1. InInputs(j)' = InInputs(j) /\ InErrors(j)' = InErrors(j)
    BY <1>1 DEF InInputs, InErrors
  <2>2. outputs' = outputs /\ counter' = counter
    BY <1>1 DEF mainVars
  <2>3. /\ Cardinality(InInputs(j)) \in Nat /\ Cardinality(InErrors(j)) \in Nat
        /\ Cardinality(InSlots(j)) \in Nat
    BY PlacesAreFinite, Zenon
  <2>4. j \in failed' <=> j = x \/ j \in failed
    BY <1>1
  <2>. QED  BY <1>3, <1>4, <2>1, <2>2, <2>3, <2>4 DEF Places
<1>. QED  BY <1>4, <1>5, <1>6, <1>7

LEMMA RetryStep == ASSUME Inv, NEW s \in AllSlots, Retry(s) PROVE Inv'
<1>. USE DEF Inv
<1>. DEFINE x == job[s].jid
            t == [job[s] EXCEPT !.tries = @ + 1]
<1>1. /\ slotPc[s] = "retry" /\ job[s].tries # LastTry
      /\ errors' = Append(errors, t) /\ Finish(s)
      /\ UNCHANGED <<readerVars, inputs, failed, outputs, mainVars, nodeVars>>
  BY DEF Retry, PutBack
<1>2. job[s] # None
  BY <1>1 DEF SlotInv
<1>3. t \in Jobs /\ t.jid = x
  <2>1. job[s] \in Jobs
    BY <1>2, HeldJob
  <2>. QED  BY <1>1, <2>1 DEF Jobs, LastTry
<1>4. /\ SlotInv'
      /\ job' \in [AllSlots -> Jobs \cup {None}]
      /\ slotPc' \in [AllSlots -> {"connect", "check", "take", "takeError", "run",
                                  "write", "read", "wait", "retry", "exited"}]
      /\ \A j : Cardinality(InSlots(j)') =
                    Cardinality(InSlots(j)) - (IF j = x THEN 1 ELSE 0)
  BY <1>1, <1>2, SlotRests
<1>. HIDE DEF x, t
<1>5. \A j : Cardinality(InErrors(j)') =
                 Cardinality(InErrors(j)) + (IF j = x THEN 1 ELSE 0)
  BY <1>1, <1>3, ErrorAdded
<1>6. TypeOK'
  <2>1. errors' \in Seq(Jobs)
    BY <1>1, <1>3, AppendProperties DEF TypeOK
  <2>. QED  BY <1>1, <1>4, <2>1 DEF TypeOK, readerVars, mainVars, nodeVars
<1>7. EndInv'
  BY <1>1 DEF EndInv, readerVars, mainVars
<1>8. JobIsInOnePlace'
  <2>. SUFFICES ASSUME NEW j \in Jids PROVE Places(j)' = Places(j)
    BY <1>1 DEF JobIsInOnePlace, readerVars
  <2>1. InInputs(j)' = InInputs(j)
    BY <1>1 DEF InInputs
  <2>2. failed' = failed /\ outputs' = outputs /\ counter' = counter
    BY <1>1 DEF mainVars
  <2>3. /\ Cardinality(InInputs(j)) \in Nat /\ Cardinality(InErrors(j)) \in Nat
        /\ Cardinality(InSlots(j)) \in Nat
    BY PlacesAreFinite, Zenon
  <2>. QED  BY <1>4, <1>5, <2>1, <2>2, <2>3 DEF Places
<1>. QED  BY <1>4, <1>6, <1>7, <1>8

LEMMA NodeStep == ASSUME Inv, Node PROVE Inv'
<1>. USE DEF Inv
<1>1. UNCHANGED <<readerVars, inputs, errors, failed, outputs, mainVars, slotVars>>
  BY DEF Node, NodeDown, NodeBack, StreamBreaks
<1>2. /\ link' \in [Remotes -> {"none", "up", "broken"}] /\ nodeUp' \in BOOLEAN
      /\ breaks' \in 0 .. MaxBreaks
  <2>0. /\ link \in [Remotes -> {"none", "up", "broken"}] /\ nodeUp \in BOOLEAN
        /\ breaks \in 0 .. MaxBreaks /\ MaxBreaks \in Nat
    BY ClientAssumption DEF TypeOK
  <2>1. CASE NodeDown
    <3>1. \A s \in Remotes : (IF link[s] = "up" THEN "broken" ELSE link[s])
                                 \in {"none", "up", "broken"}
      BY <2>0
    <3>2. link' \in [Remotes -> {"none", "up", "broken"}]
      BY <2>1, <3>1, Zenon DEF NodeDown
    <3>3. nodeUp' \in BOOLEAN
      BY <2>1, Zenon DEF NodeDown
    <3>4. breaks < MaxBreaks /\ breaks' = breaks + 1
      BY <2>1, Zenon DEF NodeDown
    <3>. QED  BY <2>0, <3>2, <3>3, <3>4
  <2>2. CASE NodeBack
    BY <2>0, <2>2 DEF NodeBack
  <2>3. ASSUME NEW s \in Remotes, StreamBreaks(s)
        PROVE  /\ link' \in [Remotes -> {"none", "up", "broken"}] /\ nodeUp' \in BOOLEAN
               /\ breaks' \in 0 .. MaxBreaks
    BY <2>0, <2>3 DEF StreamBreaks
  <2>. QED  BY <2>1, <2>2, <2>3 DEF Node
<1>3. TypeOK'
  BY <1>1, <1>2 DEF TypeOK, readerVars, mainVars, slotVars
<1>4. SlotInv' /\ EndInv'
  BY <1>1 DEF SlotInv, EndInv, readerVars, mainVars, slotVars
<1>5. JobIsInOnePlace'
  BY <1>1, JobsStay DEF readerVars, mainVars, slotVars
<1>. QED  BY <1>3, <1>4, <1>5

LEMMA InvStutter == ASSUME Inv, UNCHANGED vars PROVE Inv'
<1>. USE DEF Inv, vars, readerVars, mainVars, slotVars, nodeVars
<1>1. TypeOK' /\ SlotInv' /\ EndInv'
  BY DEF TypeOK, SlotInv, EndInv
<1>2. JobIsInOnePlace'
  BY JobsStay
<1>. QED  BY <1>1, <1>2

LEMMA InvNext == ASSUME Inv, [Next]_vars PROVE Inv'
<1>1. ASSUME NEW s \in AllSlots,
             RunLocally(s) \/ ReadOutput(s) \/ ReadCutOutput(s)
      PROVE  Inv'
  <2>1. /\ slotPc[s] \in {"run", "read"} /\ Finish(s)
        /\ UNCHANGED <<readerVars, inputs, errors, failed, mainVars, nodeVars>>
    BY <1>1 DEF RunLocally, ReadOutput, ReadCutOutput
  <2>2. \E result \in Results : StoreOutput(s, result)
    BY <1>1 DEF RunLocally, ReadOutput, ReadCutOutput, Results
  <2>. QED  BY <2>1, <2>2, OutputStoredStep
<1>2. ASSUME NEW s \in Locals, LocalSlot(s) PROVE Inv'
  <2>1. s \in AllSlots
    BY DEF AllSlots
  <2>. QED  BY <1>1, <1>2, <2>1, SlotGoesOn, TakeInputStep DEF LocalSlot
<1>3. ASSUME NEW s \in Remotes, RemoteSlot(s) PROVE Inv'
  <2>1. s \in AllSlots
    BY DEF AllSlots
  <2>. QED  BY <1>1, <1>3, <2>1, SlotGoesOn, ConnectStep, TakeInputStep, TakeErrorStep,
               GiveUpStep, RetryStep DEF RemoteSlot
<1>. QED  BY <1>2, <1>3, ReadInputStep, AnnounceStep, MainStep, NodeStep, InvStutter
          DEF Next, Reader

-----------------------------------------------------------------------------
(* The theorems.                                                            *)

(* The invariant holds in every state of the client.                        *)
THEOREM Invariance == Spec => []Inv
<1>. QED  BY InvInit, InvNext, PTL DEF Spec

(* Every variable keeps its type: in particular no job is attempted more    *)
(* than four times, and no output is stored for a job that is none.         *)
THEOREM TypeCorrect == Spec => []TypeOK
<1>1. Inv => TypeOK
  BY DEF Inv
<1>. QED  BY <1>1, Invariance, PTL

(* Whatever streams break and whichever slots race for it, a job that was   *)
(* read is in exactly one place: it is neither lost nor done twice.         *)
THEOREM JobsAreInOnePlace == Spec => []JobIsInOnePlace
<1>1. Inv => JobIsInOnePlace
  BY DEF Inv
<1>. QED  BY <1>1, Invariance, PTL

(* The main thread raises the kill flag only when the source has ended,     *)
(* every input is printed, and no slot has work left.                       *)
THEOREM KillsWhenAllPrinted == Spec => []KillOnlyWhenAllPrinted
<1>1. ASSUME Inv, mainPc \in {"kill", "join", "exit"}
      PROVE  /\ finished /\ counter = nread
             /\ inputs = <<>> /\ errors = <<>> /\ failed = {}
             /\ \A s \in AllSlots : job[s] = None
  <2>1. finished /\ counter = nread
    BY <1>1 DEF Inv, EndInv
  <2>2. ASSUME NEW j \in Jids
        PROVE  j \notin failed /\ InInputs(j) = {} /\ InErrors(j) = {} /\ InSlots(j) = {}
    <3>1. /\ Cardinality(InInputs(j)) \in Nat /\ Cardinality(InErrors(j)) \in Nat
          /\ Cardinality(InSlots(j)) \in Nat
          /\ Cardinality(InInputs(j)) = 0 => InInputs(j) = {}
          /\ Cardinality(InErrors(j)) = 0 => InErrors(j) = {}
          /\ Cardinality(InSlots(j)) = 0 => InSlots(j) = {}
      BY <1>1, PlacesAreFinite, FS_EmptySet, Zenon DEF Inv
    <3>2. Places(j) = IF j < counter THEN 1 ELSE 0
      BY <1>1, <2>1 DEF Inv, JobIsInOnePlace
    <3>3. /\ Cardinality(InInputs(j)) = 0 /\ Cardinality(InErrors(j)) = 0
          /\ Cardinality(InSlots(j)) = 0 /\ j \notin failed
      BY <3>1, <3>2 DEF Places
    <3>. QED  BY <3>1, <3>3
  <2>3. failed = {}
    BY <1>1, <2>2 DEF Inv, TypeOK
  <2>4. inputs = <<>>
    <3>. SUFFICES ASSUME inputs # <<>> PROVE FALSE
      OBVIOUS
    <3>1. 1 \in DOMAIN inputs /\ inputs[1] \in Jids
      BY <1>1, EmptySeq, LenProperties, ElementOfSeq DEF Inv, TypeOK
    <3>. QED  BY <2>2, <3>1 DEF InInputs
  <2>5. errors = <<>>
    <3>. SUFFICES ASSUME errors # <<>> PROVE FALSE
      OBVIOUS
    <3>1. 1 \in DOMAIN errors /\ errors[1] \in Jobs
      BY <1>1, EmptySeq, LenProperties, ElementOfSeq DEF Inv, TypeOK
    <3>. QED  BY <2>2, <3>1 DEF InErrors, Jobs
  <2>6. ASSUME NEW s \in AllSlots PROVE job[s] = None
    <3>1. job[s] \in Jobs \cup {None}
      BY <1>1 DEF Inv, TypeOK
    <3>. QED  BY <2>2, <3>1 DEF InSlots, Jobs
  <2>. QED  BY <2>1, <2>3, <2>4, <2>5, <2>6
<1>2. Inv => KillOnlyWhenAllPrinted
  BY <1>1 DEF KillOnlyWhenAllPrinted
<1>. QED  BY <1>2, Invariance, PTL

=============================================================================
