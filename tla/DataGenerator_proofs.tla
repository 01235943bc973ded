------------------------ MODULE DataGenerator_proofs ------------------------
(***************************************************************************)
(* Kahn's algorithm is right for every schema: what is sorted comes after  *)
(* its parents, what is left over has a reason, nothing is listed twice.   *)
(* The generator that goes by its result is right for every schema too:    *)
(* it takes steps of the sort, its keys follow the order of the tables,    *)
(* and a schema that can be ranked gets a script that goes in.             *)
(***************************************************************************)
EXTENDS DataGenerator, FiniteSetTheorems, SequenceTheorems, WellFoundedInduction, TLAPS

\* The keys of t that are not ticked off: their table is not out (or not of this
\* schema), or it is and the loop over its dependents has yet to reach the key.
Pending(t) == {r \in Keys(t) : rel[r].target \notin Tables \cap Emitted \/ r \in visiting}

Counted == \A t \in Ids : inDegree[t] = Cardinality(Pending(t))

\* The loop over dependents is inside the turn of a table that is out.
Current == \A r \in visiting : Edge(r) /\ rel[r].target \in Tables \cap Emitted

\* Queued or out are exactly the tables nothing holds back.
Listed(t) == t \in ToSet(queue) \cup Emitted

Ready == \A t \in Ids : Listed(t) <=> Pending(t) = {} /\ (t \in Tables \/ Keys(t) # {})

NoRepeat(s) == \A i, k \in DOMAIN s : s[i] = s[k] => i = k

Distinct == NoRepeat(queue) /\ NoRepeat(sorted) /\ ToSet(queue) \cap Emitted = {}

Finished == returned => visiting = {} /\ queue = <<>>

IInv == TypeOK /\ Counted /\ Current /\ Ready /\ Distinct /\ Finished /\ ParentsFirst /\ EachOnce

-----------------------------------------------------------------------------
(* Sequences *)

\* The elements of a longer sequence.
LEMMA AppendSet ==
  ASSUME NEW S, NEW s \in Seq(S), NEW e \in S
  PROVE  /\ Append(s, e) \in Seq(S)
         /\ ToSet(Append(s, e)) = ToSet(s) \cup {e}
         /\ NoRepeat(s) /\ e \notin ToSet(s) => NoRepeat(Append(s, e))
<1>1. /\ Append(s, e) \in Seq(S) /\ Len(Append(s, e)) = Len(s) + 1
      /\ Append(s, e)[Len(s) + 1] = e
      /\ \A i \in 1..Len(s) : Append(s, e)[i] = s[i]
  BY AppendProperties
<1>2. DOMAIN s = 1..Len(s) /\ DOMAIN Append(s, e) = 1..(Len(s) + 1) /\ Len(s) \in Nat
  BY <1>1
<1>3. ToSet(Append(s, e)) = ToSet(s) \cup {e}
  BY <1>1, <1>2 DEF ToSet
<1>4. ASSUME NoRepeat(s), e \notin ToSet(s) PROVE NoRepeat(Append(s, e))
  BY <1>1, <1>2, <1>4 DEF NoRepeat, ToSet
<1> QED
  BY <1>1, <1>3, <1>4

\* A sequence is its head and its tail.
LEMMA HeadTailSet ==
  ASSUME NEW S, NEW s \in Seq(S), s # <<>>
  PROVE  /\ Head(s) \in S /\ Tail(s) \in Seq(S)
         /\ ToSet(s) = ToSet(Tail(s)) \cup {Head(s)}
         /\ NoRepeat(s) => NoRepeat(Tail(s)) /\ Head(s) \notin ToSet(Tail(s))
<1>1. /\ Head(s) = s[1] /\ Head(s) \in S /\ Tail(s) \in Seq(S)
      /\ Len(Tail(s)) = Len(s) - 1 /\ \A i \in 1..Len(Tail(s)) : Tail(s)[i] = s[i + 1]
  BY HeadTailProperties
<1>2. DOMAIN s = 1..Len(s) /\ DOMAIN Tail(s) = 1..(Len(s) - 1) /\ Len(s) \in Nat \ {0}
  BY <1>1, EmptySeq
<1>3. ToSet(s) = ToSet(Tail(s)) \cup {Head(s)}
  <2>1. \A i \in 1..Len(s) : i = 1 \/ (i - 1 \in 1..(Len(s) - 1) /\ Tail(s)[i - 1] = s[i])
    BY <1>1, <1>2
  <2>2. ToSet(s) \subseteq ToSet(Tail(s)) \cup {Head(s)}
    <3> SUFFICES ASSUME NEW i \in 1..Len(s) PROVE s[i] \in ToSet(Tail(s)) \cup {Head(s)}
      BY <1>2 DEF ToSet
    <3> QED
      BY <1>1, <1>2, <2>1 DEF ToSet
  <2>3. Head(s) \in ToSet(s)
    BY <1>1, <1>2 DEF ToSet
  <2>4. ToSet(Tail(s)) \subseteq ToSet(s)
    <3> SUFFICES ASSUME NEW i \in 1..(Len(s) - 1) PROVE Tail(s)[i] \in ToSet(s)
      BY <1>2 DEF ToSet
    <3>1. i + 1 \in 1..Len(s) /\ Tail(s)[i] = s[i + 1]
      BY <1>1, <1>2
    <3> QED
      BY <1>2, <3>1 DEF ToSet
  <2> QED
    BY <2>2, <2>3, <2>4
<1>4. ASSUME NoRepeat(s) PROVE NoRepeat(Tail(s)) /\ Head(s) \notin ToSet(Tail(s))
  <2>1. \A i \in DOMAIN Tail(s) : i + 1 \in DOMAIN s /\ Tail(s)[i] = s[i + 1] /\ i \in Nat /\ i >= 1
    BY <1>1, <1>2
  <2>2. NoRepeat(Tail(s))
    BY <1>4, <2>1 DEF NoRepeat
  <2>3. 1 \in DOMAIN s
    BY <1>2
  <2> QED
    BY <1>1, <1>4, <2>1, <2>2, <2>3 DEF NoRepeat, ToSet
<1> QED
  BY <1>1, <1>3, <1>4

\* Listing a finite set gives each element one place.
LEMMA Listing ==
  ASSUME NEW S, IsFiniteSet(S), NEW q \in SetToSeqs(S)
  PROVE  q \in Seq(S) /\ ToSet(q) = S /\ NoRepeat(q)
<1> DEFINE n == Cardinality(S)
<1>0. n \in Nat
  BY FS_CardinalityType
<1>1. q \in [1..n -> S] /\ \A i, j \in 1..n : i # j => q[i] # q[j]
  BY DEF SetToSeqs
<1>2. q \in Injection(1..n, S)
  BY <1>1 DEF Injection, IsInjective
<1>3. IsFiniteSet(1..n) /\ Cardinality(1..n) = n
  BY <1>0, FS_Interval
<1>4. q \in Surjection(1..n, S)
  BY <1>2, <1>3, FS_Injection
<1> QED
  BY <1>0, <1>1, <1>4 DEF Surjection, ToSet, NoRepeat

-----------------------------------------------------------------------------
(* The invariant *)

\* The keys of a table are finitely many.
LEMMA KeysFinite ==
  ASSUME NEW t PROVE /\ IsFiniteSet(Keys(t)) /\ Cardinality(Keys(t)) \in Nat
                     /\ Cardinality(Keys(t)) = 0 <=> Keys(t) = {}
<1>1. Keys(t) \subseteq Rels
  BY DEF Keys
<1>2. IsFiniteSet(Keys(t))
  BY <1>1, FiniteAssumption, FS_Subset
<1> QED
  BY <1>2, FS_CardinalityType, FS_EmptySet

\* The invariant holds initially.
LEMMA InitIInv == Init => IInv
<1> SUFFICES ASSUME Init PROVE IInv
  OBVIOUS
<1> DEFINE Roots == {t \in Tables : inDegree[t] = 0}
<1>1. /\ rel \in [Rels -> [source : Ids, target : Ids]] /\ visiting = {} /\ sorted = <<>>
      /\ inDegree = [t \in Ids |-> Cardinality(Keys(t))] /\ result = <<>> /\ returned = FALSE
      /\ queue \in SetToSeqs(Roots)
  BY DEF Init, Degree, InitialQueue
<1>2. IsFiniteSet(Roots)
  BY FiniteAssumption, FS_Subset
<1>3. queue \in Seq(Roots) /\ ToSet(queue) = Roots /\ NoRepeat(queue)
  BY <1>1, <1>2, Listing
<1>4. Emitted = {}
  BY <1>1 DEF Emitted, ToSet
<1>5. \A t : Pending(t) = Keys(t)
  BY <1>1, <1>4 DEF Pending
<1>6. TypeOK
  <2>1. Seq(Roots) \subseteq Seq(Ids)
    BY SeqMonotonic DEF Ids
  <2>2. inDegree \in [Ids -> Nat]
    BY <1>1, KeysFinite
  <2>3. queue \in Seq(Ids)
    BY <1>3, <2>1
  <2>4. sorted \in Seq(Ids) /\ result \in Seq(Tables \cup {Undefined})
    BY <1>1, EmptySeq
  <2> QED
    BY <1>1, <2>2, <2>3, <2>4 DEF TypeOK
<1>7. Counted
  BY <1>1, <1>5 DEF Counted
<1>8. Ready
  <2> SUFFICES ASSUME NEW t \in Ids
               PROVE  Listed(t) <=> Pending(t) = {} /\ (t \in Tables \/ Keys(t) # {})
    BY DEF Ready
  <2>1. Listed(t) <=> t \in Tables /\ Keys(t) = {}
    BY <1>1, <1>3, <1>4, KeysFinite DEF Listed
  <2> QED
    BY <1>5, <2>1
<1>9. Distinct
  BY <1>1, <1>3, <1>4 DEF Distinct, NoRepeat
<1>10. Current /\ Finished /\ ParentsFirst /\ EachOnce
  BY <1>1 DEF Current, Finished, ParentsFirst, EachOnce
<1> QED
  BY <1>6, <1>7, <1>8, <1>9, <1>10 DEF IInv

\* A table leaves the queue: nothing is ticked off yet, its own keys are all met.
LEMMA ShiftStep == ASSUME IInv, Shift PROVE IInv'
<1> DEFINE t == Head(queue)
<1>0. /\ visiting = {} /\ queue \in Seq(Ids) /\ queue # <<>> /\ sorted \in Seq(Ids)
      /\ queue' = Tail(queue) /\ sorted' = Append(sorted, t) /\ visiting' = Dependents(t)
      /\ UNCHANGED <<rel, inDegree, result, returned>> /\ ~ returned
  BY DEF IInv, TypeOK, Shift, Finished
<1>1. /\ t \in Ids /\ queue' \in Seq(Ids) /\ ToSet(queue) = ToSet(queue') \cup {t}
      /\ NoRepeat(queue') /\ t \notin ToSet(queue')
  BY <1>0, HeadTailSet DEF IInv, Distinct
<1>2. t \notin Emitted
  BY <1>1 DEF IInv, Distinct
<1>3. sorted' \in Seq(Ids) /\ Emitted' = Emitted \cup {t} /\ NoRepeat(sorted')
  BY <1>0, <1>1, <1>2, AppendSet DEF IInv, Distinct, Emitted
<1>4. \A u : Keys(u)' = Keys(u)
  BY <1>0 DEF Keys, Edge
<1>5. \A u : Pending(u)' = Pending(u)
  BY <1>0, <1>2, <1>3, <1>4 DEF Pending, Dependents, Keys
<1>6. TypeOK'
  BY <1>0, <1>1, <1>3 DEF IInv, TypeOK, Dependents
<1>7. Counted'
  BY <1>0, <1>5 DEF IInv, Counted
<1>8. Current'
  BY <1>0, <1>3 DEF Current, Dependents, Edge
<1>9. \A u : Listed(u)' <=> Listed(u)
  BY <1>1, <1>3 DEF Listed
<1>10. Ready'
  BY <1>4, <1>5, <1>9 DEF IInv, Ready
<1>11. Distinct'
  BY <1>1, <1>3 DEF IInv, Distinct
<1>12. Finished' /\ EachOnce'
  BY <1>0 DEF Finished, EachOnce
<1>13. ParentsFirst'
  <2>1. \A u : Parents(u)' = Parents(u)
    BY <1>0 DEF Parents
  <2>2. /\ DOMAIN sorted = 1..Len(sorted) /\ DOMAIN sorted' = 1..(Len(sorted) + 1)
        /\ Len(sorted) \in Nat /\ sorted'[Len(sorted) + 1] = t
        /\ \A i \in 1..Len(sorted) : sorted'[i] = sorted[i]
    BY <1>0, <1>1, AppendProperties
  <2>3. Parents(t) \subseteq Emitted
    <3>1. Listed(t)
      BY <1>1 DEF Listed
    <3>2. Pending(t) = {}
      BY <1>1, <3>1 DEF IInv, Ready
    <3> QED
      BY <3>2 DEF Pending, Keys, Parents, Edge
  <2>4. \A u \in Parents(t) : \E k \in 1..Len(sorted) : sorted'[k] = u
    BY <2>2, <2>3 DEF Emitted, ToSet
  <2>5. ASSUME NEW i \in 1..Len(sorted), NEW u \in Parents(sorted[i])
        PROVE  \E k \in 1..(i - 1) : sorted'[k] = u
    <3>1. PICK k \in 1..(i - 1) : sorted[k] = u
      BY <2>2, <2>5 DEF IInv, ParentsFirst
    <3> QED
      BY <2>2, <3>1
  <2> SUFFICES ASSUME NEW i \in DOMAIN sorted', NEW u \in Parents(sorted'[i])
               PROVE  \E k \in 1..(i - 1) : sorted'[k] = u
    BY <2>1 DEF ParentsFirst
  <2>6. CASE i \in 1..Len(sorted)
    BY <2>2, <2>5, <2>6
  <2>7. CASE i = Len(sorted) + 1
    BY <2>2, <2>4, <2>7
  <2> QED
    BY <2>2, <2>6, <2>7
<1> QED
  BY <1>6, <1>7, <1>8, <1>10, <1>11, <1>12, <1>13 DEF IInv

\* A key is ticked off: its table is queued with its last one.
LEMMA VisitStep == ASSUME IInv, NEW r \in Rels, Visit(r) PROVE IInv'
<1>d. PICK dep \in Ids : dep = rel[r].source
  BY DEF IInv, TypeOK
<1> DEFINE newDeg == inDegree[dep] - 1
<1>0. /\ r \in visiting /\ visiting' = visiting \ {r} /\ queue \in Seq(Ids) /\ sorted \in Seq(Ids)
      /\ inDegree \in [Ids -> Nat] /\ inDegree' = [inDegree EXCEPT ![dep] = newDeg]
      /\ queue' = IF newDeg = 0 THEN Append(queue, dep) ELSE queue
      /\ UNCHANGED <<rel, sorted, result, returned>> /\ ~ returned
  BY <1>d DEF IInv, TypeOK, Visit, Finished
<1>1. Emitted' = Emitted /\ \A u : Keys(u)' = Keys(u)
  BY <1>0 DEF Emitted, Keys, Edge
<1>2. r \in Pending(dep) /\ rel[r].target \in Tables \cap Emitted
  BY <1>0, <1>d DEF Pending, Keys, IInv, Current
<1>3. Pending(dep)' = Pending(dep) \ {r} /\ \A u : u # dep => Pending(u)' = Pending(u)
  BY <1>0, <1>1, <1>2, <1>d DEF Pending, Keys
<1>4. /\ IsFiniteSet(Pending(dep)) /\ IsFiniteSet(Pending(dep)')
      /\ Cardinality(Pending(dep)') = Cardinality(Pending(dep)) - 1
      /\ Cardinality(Pending(dep)') \in Nat
  <2>1. Pending(dep) \subseteq Keys(dep)
    BY DEF Pending
  <2>2. IsFiniteSet(Pending(dep))
    BY <2>1, KeysFinite, FS_Subset
  <2> QED
    BY <1>2, <1>3, <2>2, FS_RemoveElement, FS_CardinalityType
<1>5. newDeg = Cardinality(Pending(dep)') /\ newDeg \in Nat /\ inDegree'[dep] = newDeg
  BY <1>0, <1>4 DEF IInv, Counted
<1>6. newDeg = 0 <=> Pending(dep)' = {}
  BY <1>4, <1>5, FS_EmptySet
<1>7. ~ Listed(dep)
  BY <1>0, <1>2 DEF IInv, Ready
<1>8. /\ queue' \in Seq(Ids) /\ NoRepeat(queue')
      /\ ToSet(queue') = ToSet(queue) \cup (IF newDeg = 0 THEN {dep} ELSE {})
  BY <1>0, <1>7, AppendSet DEF Listed, IInv, Distinct
<1>9. TypeOK'
  BY <1>0, <1>5, <1>8 DEF IInv, TypeOK
<1>10. Counted'
  BY <1>0, <1>3, <1>5 DEF IInv, Counted
<1>11. Current'
  BY <1>0, <1>1 DEF IInv, Current, Edge
<1>12. Ready'
  <2> SUFFICES ASSUME NEW u \in Ids
               PROVE  Listed(u)' <=> Pending(u)' = {} /\ (u \in Tables \/ Keys(u)' # {})
    BY DEF Ready
  <2>1. CASE u = dep
    <3>1. Keys(u) # {}
      BY <1>2, <2>1 DEF Pending
    <3>2. Listed(u)' <=> newDeg = 0
      BY <1>1, <1>7, <1>8, <2>1 DEF Listed
    <3> QED
      BY <1>1, <1>6, <2>1, <3>1, <3>2
  <2>2. CASE u # dep
    <3>1. Listed(u)' <=> Listed(u)
      BY <1>1, <1>8, <2>2 DEF Listed
    <3> QED
      BY <1>1, <1>3, <2>2, <3>1 DEF IInv, Ready
  <2> QED
    BY <2>1, <2>2
<1>13. Distinct'
  BY <1>0, <1>1, <1>7, <1>8 DEF IInv, Distinct, Listed
<1>14. Finished' /\ EachOnce'
  BY <1>0 DEF Finished, EachOnce
<1>15. ParentsFirst'
  <2>1. \A u : Parents(u)' = Parents(u)
    BY <1>0 DEF Parents
  <2> QED
    BY <1>0, <2>1 DEF IInv, ParentsFirst
<1> QED
  BY <1>9, <1>10, <1>11, <1>12, <1>13, <1>14, <1>15 DEF IInv

\* The tables that are left are appended: each table has one place.
LEMMA ReturnStep == ASSUME IInv, Return PROVE IInv'
<1> DEFINE found == [i \in 1..Len(sorted) |-> Found(sorted[i])]
           left == Tables \ Emitted
           n == Len(sorted)
<1>0. /\ UNCHANGED <<rel, inDegree, queue, sorted, visiting>> /\ returned' = TRUE
      /\ visiting = {} /\ queue = <<>> /\ sorted \in Seq(Ids)
  BY DEF IInv, TypeOK, Return
<1>1. PICK tail \in SetToSeqs(left) : result' = found \o tail
  BY DEF Return, Remaining
<1>2. IsFiniteSet(left)
  BY FiniteAssumption, FS_Subset
<1>3. tail \in Seq(left) /\ ToSet(tail) = left /\ NoRepeat(tail)
  BY <1>2, Listing
<1>4. /\ n \in Nat /\ DOMAIN sorted = 1..n /\ \A i \in 1..n : sorted[i] \in Ids
      /\ found \in Seq(Tables \cup {Undefined}) /\ Len(found) = n
  BY <1>0 DEF Found
<1>5. tail \in Seq(Tables \cup {Undefined}) /\ DOMAIN tail = 1..Len(tail) /\ Len(tail) \in Nat
  BY <1>3, SeqMonotonic
<1>6. /\ result' \in Seq(Tables \cup {Undefined}) /\ DOMAIN result' = 1..(n + Len(tail))
      /\ \A i \in 1..(n + Len(tail)) :
           result'[i] = IF i <= n THEN found[i] ELSE tail[i - n]
  BY <1>1, <1>4, <1>5, ConcatProperties
<1>7. /\ \A i \in 1..n : result'[i] = Found(sorted[i])
      /\ \A i \in 1..Len(tail) : i + n \in DOMAIN result' /\ result'[i + n] = tail[i]
      /\ \A i \in DOMAIN result' : i \in 1..n \/ (i - n \in 1..Len(tail) /\ result'[i] = tail[i - n])
  BY <1>4, <1>5, <1>6
<1>8. EachOnce'
  <2> SUFFICES ASSUME NEW t \in Tables
               PROVE  \E i \in DOMAIN result' :
                        result'[i] = t /\ \A k \in DOMAIN result' : result'[k] = t => k = i
    BY DEF EachOnce
  <2>0. \A k \in 1..n : result'[k] = t <=> sorted[k] = t
    BY <1>4, <1>7, UndefinedAssumption DEF Found, Ids
  <2>1. CASE t \in Emitted
    <3>1. PICK i \in 1..n : sorted[i] = t
      BY <1>4, <2>1 DEF Emitted, ToSet
    <3>2. i \in DOMAIN result' /\ result'[i] = t
      BY <1>4, <1>5, <1>6, <2>0, <3>1
    <3>3. ASSUME NEW k \in DOMAIN result', result'[k] = t PROVE k = i
      <4>1. CASE k \in 1..n
        BY <1>4, <2>0, <3>1, <3>3, <4>1 DEF IInv, Distinct, NoRepeat
      <4>2. CASE k - n \in 1..Len(tail) /\ result'[k] = tail[k - n]
        <5>1. tail[k - n] \in left
          BY <1>3, <1>5, <4>2 DEF ToSet
        <5> QED
          BY <2>1, <3>3, <4>2, <5>1
      <4> QED
        BY <1>7, <4>1, <4>2
    <3> QED
      BY <3>2, <3>3
  <2>2. CASE t \notin Emitted
    <3>1. PICK i \in 1..Len(tail) : tail[i] = t
      BY <1>3, <1>5, <2>2 DEF ToSet
    <3>2. i + n \in DOMAIN result' /\ result'[i + n] = t
      BY <1>7, <3>1
    <3>3. ASSUME NEW k \in DOMAIN result', result'[k] = t PROVE k = i + n
      <4>1. CASE k \in 1..n
        BY <1>4, <2>0, <2>2, <3>3, <4>1 DEF Emitted, ToSet
      <4>2. CASE k - n \in 1..Len(tail) /\ result'[k] = tail[k - n]
        <5>1. k - n = i
          BY <1>3, <1>5, <3>1, <3>3, <4>2 DEF NoRepeat
        <5>2. k \in Int /\ n \in Nat
          BY <1>4, <1>5, <1>6
        <5> QED
          BY <5>1, <5>2
      <4> QED
        BY <1>7, <4>1, <4>2
    <3> QED
      BY <3>2, <3>3
  <2> QED
    BY <2>1, <2>2
<1>9. /\ Emitted' = Emitted /\ \A u : Keys(u)' = Keys(u) /\ Pending(u)' = Pending(u)
                                      /\ Parents(u)' = Parents(u)
  BY <1>0 DEF Emitted, Keys, Edge, Pending, Parents
<1>10. TypeOK' /\ Counted'
  BY <1>0, <1>6, <1>9 DEF IInv, TypeOK, Counted
<1>11. Current'
  BY <1>0 DEF Current
<1>12. Ready' /\ Distinct' /\ Finished'
  BY <1>0, <1>9 DEF IInv, Ready, Listed, Distinct, Finished
<1>13. ParentsFirst'
  BY <1>0, <1>9 DEF IInv, ParentsFirst
<1> QED
  BY <1>8, <1>10, <1>11, <1>12, <1>13 DEF IInv

\* Nothing changes, nothing breaks.
LEMMA StutterStep == ASSUME IInv, UNCHANGED vars PROVE IInv'
<1>1. /\ UNCHANGED <<rel, inDegree, queue, sorted, visiting, result, returned>>
      /\ Emitted' = Emitted /\ \A u : Keys(u)' = Keys(u) /\ Pending(u)' = Pending(u)
                                      /\ Parents(u)' = Parents(u)
  BY DEF vars, Emitted, Keys, Edge, Pending, Parents
<1>2. TypeOK' /\ Counted'
  BY <1>1 DEF IInv, TypeOK, Counted
<1>3. Current'
  BY <1>1 DEF IInv, Current, Edge
<1>4. Ready' /\ Distinct' /\ Finished'
  BY <1>1 DEF IInv, Ready, Listed, Distinct, Finished
<1>5. ParentsFirst' /\ EachOnce'
  BY <1>1 DEF IInv, ParentsFirst, EachOnce
<1> QED
  BY <1>2, <1>3, <1>4, <1>5 DEF IInv

\* The invariant holds in every reachable state.
LEMMA Invariance == Spec => []IInv
<1>1. IInv /\ [Next]_vars => IInv'
  BY ShiftStep, VisitStep, ReturnStep, StutterStep DEF Next, Stop
<1> QED
  BY <1>1, InitIInv, PTL DEF Spec

\* Every reachable state is well typed.
THEOREM TypeCorrect == Spec => []TypeOK
<1>1. IInv => TypeOK
  BY DEF IInv
<1> QED
  BY <1>1, Invariance, PTL

\* Whatever the relationships, a sorted table comes after all it refers to.
THEOREM SortedAfterParents == Spec => []ParentsFirst
<1>1. IInv => ParentsFirst
  BY DEF IInv
<1> QED
  BY <1>1, Invariance, PTL

\* Whatever the relationships, the result has every table exactly once.
THEOREM NothingLostOrRepeated == Spec => []EachOnce
<1>1. IInv => EachOnce
  BY DEF IInv
<1> QED
  BY <1>1, Invariance, PTL

\* A table left for the end refers to another that was left, or to a stranger.
THEOREM LeftoversHaveCause == Spec => []LeftoversBlocked
<1>1. IInv => LeftoversBlocked
  <2> SUFFICES ASSUME IInv, returned, NEW t \in Tables \ Emitted
               PROVE  ~ (Parents(t) \subseteq Tables \cap Emitted)
    BY DEF LeftoversBlocked
  <2>1. visiting = {} /\ ToSet(queue) = {}
    BY DEF IInv, Finished, ToSet
  <2>2. Pending(t) # {}
    BY <2>1 DEF IInv, Ready, Listed, Ids
  <2>3. PICK r \in Keys(t) : rel[r].target \notin Tables \cap Emitted
    BY <2>1, <2>2 DEF Pending
  <2> QED
    BY <2>3 DEF Keys, Edge, Parents
<1> QED
  BY <1>1, Invariance, PTL

-----------------------------------------------------------------------------
(* The generator sorts: its specification implements that of the sort. *)

\* Every step of the generator is a step of the sort or leaves it alone.
THEOREM GeneratorSorts == GenSpec => Spec
<1>1. GenInit => Init
  BY DEF GenInit
<1>2. [GenNext]_genVars => [Next]_vars
  <2> SUFFICES ASSUME [GenNext]_genVars PROVE Next \/ UNCHANGED vars
    BY DEF vars
  <2>1. CASE Sort
    BY <2>1 DEF Sort, Next
  <2>2. CASE Begin \/ Row \/ EndTable \/ Throw
    BY <2>2, Zenon DEF Begin, Row, EndTable, Throw
  <2>3. CASE GenStop \/ UNCHANGED genVars
    BY <2>3 DEF GenStop, genVars
  <2> QED
    BY <2>1, <2>2, <2>3 DEF GenNext
<1> QED
  BY <1>1, <1>2, PTL DEF GenSpec, Spec

-----------------------------------------------------------------------------
(* The invariant of the generator *)

Drawn == [value : Values, forced : BOOLEAN]

GenTypeOK ==
  /\ form \in [Rels -> Form]
  /\ at \in Nat
  /\ key \in [Rels -> Outcome]
  /\ column \in Seq(Drawn)
  /\ thrown \in BOOLEAN

\* The result begins with what was sorted; it is as long as it is only at the end.
Prefixed ==
  returned => /\ Len(sorted) <= Len(result)
              /\ \A i \in DOMAIN sorted : result[i] = Found(sorted[i])

\* Tables are generated out of a result that has no table of another schema.
Started == at > 0 => returned /\ at <= Len(result) + 1 /\ Undefined \notin ToSet(result)

\* The tables before place i.
Before(i) == {result[k] : k \in 1..(i - 1)}

\* At its own place a source column was given a key if its target was before it.
KeyedAt(r, i) ==
  /\ result[i] = rel[r].source
  /\ IF rel[r].target \in Before(i) THEN key[r] = "found" ELSE key[r] \in {"null", "madeUp"}

Keyed ==
  \A r \in Rels :
    Plain(r) => \/ key[r] = "open" /\ rel[r].source \notin Before(at)
                \/ \E i \in 1..(at - 1) : KeyedAt(r, i)

GenIInv == IInv /\ GenTypeOK /\ Prefixed /\ Started /\ Keyed /\ UniqueUnlessForced

\* The invariant holds initially.
LEMMA GenInitIInv == GenInit => GenIInv
<1> SUFFICES ASSUME GenInit PROVE GenIInv
  OBVIOUS
<1>1. IInv /\ returned = FALSE
  BY InitIInv DEF GenInit, Init
<1>2. /\ form \in [Rels -> Form] /\ at = 0 /\ column = <<>> /\ thrown = FALSE
      /\ key = [r \in Rels |-> "open"]
  BY DEF GenInit
<1>3. GenTypeOK
  BY <1>2, EmptySeq DEF GenTypeOK, Outcome
<1>4. Keyed
  BY <1>2 DEF Keyed, Before
<1>5. Prefixed /\ Started /\ UniqueUnlessForced
  BY <1>1, <1>2 DEF Prefixed, Started, UniqueUnlessForced
<1> QED
  BY <1>1, <1>3, <1>4, <1>5 DEF GenIInv

\* Before the first table no key has a place.
LEMMA NoKeys == Before(0) = {} /\ Before(1) = {}
BY DEF Before

\* The order that the sort returns begins with the tables it took off its queue.
LEMMA ReturnPrefixed == ASSUME IInv, Return PROVE Prefixed'
<1> DEFINE found == [i \in 1..Len(sorted) |-> Found(sorted[i])]
           left  == Tables \ Emitted
<1>1. sorted \in Seq(Ids) /\ UNCHANGED sorted
  BY DEF IInv, TypeOK, Return
<1>2. PICK tail \in SetToSeqs(left) : result' = found \o tail
  BY DEF Return, Remaining
<1>3. tail \in Seq(Tables \cup {Undefined})
  <2>1. IsFiniteSet(left)
    BY FiniteAssumption, FS_Subset
  <2> QED
    BY <2>1, Listing, SeqMonotonic
<1>4. found \in Seq(Tables \cup {Undefined}) /\ Len(found) = Len(sorted)
  BY <1>1 DEF Found
<1>5. /\ Len(result') = Len(found) + Len(tail) /\ Len(tail) \in Nat
      /\ \A i \in 1..Len(found) : result'[i] = found[i]
  BY <1>2, <1>3, <1>4, ConcatProperties
<1>6. DOMAIN sorted' = 1..Len(sorted) /\ Len(sorted) \in Nat /\ sorted' = sorted
  BY <1>1
<1>7. Len(sorted) <= Len(result') /\ \A i \in 1..Len(sorted) : result'[i] = Found(sorted[i])
  BY <1>4, <1>5, <1>6
<1> QED
  BY <1>6, <1>7 DEF Prefixed, Found

\* While the sort is at it nothing is generated.
LEMMA SortStep == ASSUME GenIInv, Sort PROVE GenIInv'
<1>1. UNCHANGED <<form, at, key, column, thrown>>
  BY DEF Sort, state
<1>2. ~ returned
  BY DEF Sort, Shift, Return, Visit, GenIInv, IInv, Finished
<1>3. at = 0
  BY <1>2 DEF GenIInv, Started, GenTypeOK
<1>4. IInv'
  BY ShiftStep, ReturnStep, VisitStep DEF Sort, GenIInv
<1>5. Prefixed'
  <2>1. CASE Return
    BY <2>1, ReturnPrefixed DEF GenIInv
  <2>2. CASE Shift \/ \E r \in Rels : Visit(r)
    BY <1>2, <2>2 DEF Shift, Visit, Prefixed
  <2> QED
    BY <2>1, <2>2 DEF Sort
<1>6. rel' = rel
  BY DEF Sort, Shift, Return, Visit
<1>7. Started' /\ UniqueUnlessForced' /\ GenTypeOK'
  BY <1>1, <1>3 DEF GenIInv, Started, UniqueUnlessForced, GenTypeOK
<1>8. Keyed'
  <2>1. \A r \in Rels : Plain(r) => key[r] = "open"
    BY <1>3 DEF GenIInv, Keyed
  <2> QED
    BY <1>1, <1>3, <1>6, <2>1 DEF Keyed, Before, Plain
<1> QED
  BY <1>4, <1>5, <1>7, <1>8 DEF GenIInv

\* What holds of the sort alone goes on holding while the sort rests.
LEMMA SortRests ==
  ASSUME GenIInv, UNCHANGED vars
  PROVE  /\ IInv' /\ Prefixed'
         /\ rel' = rel /\ result' = result /\ returned' = returned
         /\ \A i : Before(i)' = Before(i)
<1>1. IInv'
  BY StutterStep DEF GenIInv
<1> QED
  BY <1>1 DEF GenIInv, Prefixed, vars, Before

\* The first table is taken, or the worker throws.
LEMMA BeginStep == ASSUME GenIInv, Begin PROVE GenIInv'
<1>00. UNCHANGED <<vars, form, key, column>> /\ returned /\ at = 0
  BY DEF Begin
<1>0. at' \in {0, 1} /\ thrown' \in BOOLEAN /\ (at' = 1 => Undefined \notin ToSet(result))
  <2>1. CASE Undefined \in ToSet(result)
    BY <2>1 DEF Begin
  <2>2. CASE Undefined \notin ToSet(result)
    BY <2>2 DEF Begin
  <2> QED
    BY <2>1, <2>2
<1>1. /\ IInv' /\ Prefixed' /\ rel' = rel /\ result' = result /\ returned' = returned
      /\ \A i : Before(i)' = Before(i)
  BY <1>00, <1>0, SortRests
<1>2. GenTypeOK' /\ UniqueUnlessForced'
  BY <1>00, <1>0 DEF GenIInv, GenTypeOK, UniqueUnlessForced
<1>3. Started'
  <2>1. Len(result) \in Nat
    BY DEF GenIInv, IInv, TypeOK
  <2> QED
    BY <1>00, <1>0, <1>1, <2>1 DEF Started
<1>4. Keyed'
  <2>1. \A r \in Rels : Plain(r) => key[r] = "open"
    BY <1>00, <1>0 DEF GenIInv, Keyed
  <2>a. \A k \in 1..(at' - 1) : FALSE
    <3>1. CASE at' = 0
      BY <3>1
    <3>2. CASE at' = 1
      BY <3>2
    <3> QED
      BY <1>0, <3>1, <3>2
  <2>2. \A r \in Rels : rel'[r].source \notin {result'[k] : k \in 1..(at' - 1)}
    BY <2>a
  <2> QED
    BY <1>00, <1>0, <1>1, <2>1, <2>2 DEF Keyed, Before, Plain
<1> QED
  BY <1>1, <1>2, <1>3, <1>4 DEF GenIInv

\* A row: what is not forced has not been there.
LEMMA RowStep == ASSUME GenIInv, Row PROVE GenIInv'
<1>0. UNCHANGED <<vars, form, at, key, thrown>> /\ column \in Seq(Drawn)
  BY DEF Row, GenIInv, GenTypeOK
<1>1. /\ IInv' /\ Prefixed' /\ rel' = rel /\ result' = result /\ returned' = returned
      /\ \A i : Before(i)' = Before(i)
  BY <1>0, SortRests
<1>2. PICK c \in Drawn : column' = Append(column, c) /\ (~ c.forced => c.value \notin Used)
  <2>1. CASE \E v \in Draws \ Used : column' = Append(column, [value |-> v, forced |-> FALSE])
    <3>1. PICK v \in Draws \ Used : column' = Append(column, [value |-> v, forced |-> FALSE])
      BY <2>1
    <3>2. [value |-> v, forced |-> FALSE] \in Drawn
      BY ValuesAssumption DEF Drawn
    <3> QED
      BY <3>1, <3>2
  <2>2. CASE \E d \in Draws : \E v \in suffixed[d] :
               column' = Append(column, [value |-> v, forced |-> TRUE])
    <3>0. PICK d \in Draws : \E v \in suffixed[d] :
            column' = Append(column, [value |-> v, forced |-> TRUE])
      BY <2>2
    <3>1. PICK v \in suffixed[d] : column' = Append(column, [value |-> v, forced |-> TRUE])
      BY <3>0
    <3>2. suffixed[d] \in SUBSET Values
      BY ValuesAssumption
    <3>3. [value |-> v, forced |-> TRUE] \in Drawn
      BY <3>2 DEF Drawn
    <3> QED
      BY <3>1, <3>3
  <2> QED
    BY <2>1, <2>2 DEF Row
<1>3. /\ column' \in Seq(Drawn) /\ DOMAIN column' = 1..(Len(column) + 1)
      /\ column'[Len(column) + 1] = c /\ \A i \in 1..Len(column) : column'[i] = column[i]
      /\ DOMAIN column = 1..Len(column) /\ Len(column) \in Nat
  BY <1>0, <1>2, AppendProperties
<1>4. UniqueUnlessForced'
  <2> SUFFICES ASSUME NEW k \in DOMAIN column', NEW i \in 1..(k - 1),
                      column'[i].value = column'[k].value
               PROVE  column'[k].forced
    BY DEF UniqueUnlessForced
  <2>1. i \in 1..Len(column) /\ k \in 1..(Len(column) + 1)
    BY <1>3
  <2>2. CASE k \in 1..Len(column)
    BY <1>3, <2>1, <2>2 DEF GenIInv, UniqueUnlessForced
  <2>3. CASE k = Len(column) + 1
    <3>1. column[i].value \in Used
      BY <1>3, <2>1 DEF Used
    <3> QED
      BY <1>2, <1>3, <2>1, <2>3, <3>1 DEF Drawn
  <2> QED
    BY <1>3, <2>1, <2>2, <2>3
<1>5. GenTypeOK' /\ Started' /\ Keyed'
  BY <1>0, <1>1, <1>3 DEF GenIInv, GenTypeOK, Started, Keyed, KeyedAt, Plain
<1> QED
  BY <1>1, <1>4, <1>5 DEF GenIInv

\* The end of a table: its keys are given, out of the tables before it.
LEMMA EndTableStep == ASSUME GenIInv, EndTable PROVE GenIInv'
<1>0. /\ at \in 1..Len(result) /\ Len(result) \in Nat /\ at' = at + 1 /\ column' = <<>>
      /\ key' = [r \in Rels |-> IF rel[r].source = result[at] THEN KeyValue(r) ELSE key[r]]
      /\ UNCHANGED <<vars, form, thrown>>
  BY DEF EndTable, Generating, GenIInv, IInv, TypeOK
<1>1. /\ IInv' /\ Prefixed' /\ rel' = rel /\ result' = result /\ returned' = returned
      /\ \A i : Before(i)' = Before(i)
  BY <1>0, SortRests
<1>2. GenTypeOK'
  <2>1. \A r \in Rels : KeyValue(r) \in Outcome
    BY DEF KeyValue, Outcome
  <2>2. key' \in [Rels -> Outcome]
    BY <1>0, <2>1 DEF GenIInv, GenTypeOK
  <2> QED
    BY <1>0, <2>2, EmptySeq DEF GenIInv, GenTypeOK
<1>3. Started' /\ UniqueUnlessForced'
  BY <1>0, <1>1 DEF GenIInv, Started, UniqueUnlessForced
<1>a. PICK a \in Nat : a = at
  BY <1>0
<1>4. Keyed'
  <2> SUFFICES ASSUME NEW r \in Rels, Plain(r)
               PROVE  \/ key'[r] = "open" /\ rel[r].source \notin Before(a + 1)
                      \/ \E i \in 1..a : KeyedAt(r, i)'
    BY <1>0, <1>1, <1>a DEF Keyed, Before, Plain
  <2>1. Before(a) = Generated /\ Before(a + 1) = Before(a) \cup {result[a]}
    BY <1>0, <1>a DEF Before, Generated
  <2>2. CASE rel[r].source = result[at]
    <3>1. key'[r] = KeyValue(r)
      BY <1>0, <2>2
    <3>2. IF rel[r].target \in Before(a) THEN key'[r] = "found" ELSE key'[r] \in {"null", "madeUp"}
      BY <2>1, <3>1 DEF KeyValue, Plain
    <3>3. KeyedAt(r, a)'
      BY <1>0, <1>1, <1>a, <2>2, <3>2 DEF KeyedAt
    <3> QED
      BY <1>0, <1>a, <3>3
  <2>3. CASE rel[r].source # result[at]
    <3>1. key'[r] = key[r]
      BY <1>0, <2>3
    <3>2. \A i : KeyedAt(r, i) => KeyedAt(r, i)'
      BY <1>1, <3>1 DEF KeyedAt
    <3>3. \A i \in 1..(a - 1) : i \in 1..a
      BY <1>0, <1>a
    <3> QED
      BY <1>a, <2>1, <2>3, <3>1, <3>2, <3>3 DEF GenIInv, Keyed
  <2> QED
    BY <2>2, <2>3
<1> QED
  BY <1>1, <1>2, <1>3, <1>4 DEF GenIInv

\* The worker throws: nothing is kept.
LEMMA ThrowStep == ASSUME GenIInv, Throw PROVE GenIInv'
<1>0. /\ at' = 0 /\ thrown' = TRUE /\ key' = [r \in Rels |-> "open"] /\ column' = <<>>
      /\ UNCHANGED <<vars, form>>
  BY DEF Throw
<1>1. /\ IInv' /\ Prefixed' /\ rel' = rel /\ result' = result /\ returned' = returned
      /\ \A i : Before(i)' = Before(i)
  BY <1>0, SortRests
<1>2. GenTypeOK' /\ Started' /\ UniqueUnlessForced'
  BY <1>0, EmptySeq DEF GenIInv, GenTypeOK, Outcome, Started, UniqueUnlessForced
<1>3. Keyed'
  BY <1>0, <1>1, NoKeys DEF Keyed, Plain
<1> QED
  BY <1>1, <1>2, <1>3 DEF GenIInv

\* Nothing changes, nothing breaks.
LEMMA GenStutterStep == ASSUME GenIInv, UNCHANGED genVars PROVE GenIInv'
<1>0. UNCHANGED <<vars, form, at, key, column, thrown>>
  BY DEF genVars, state
<1>1. /\ IInv' /\ Prefixed' /\ rel' = rel /\ result' = result /\ returned' = returned
      /\ \A i : Before(i)' = Before(i)
  BY <1>0, SortRests
<1>2. GenTypeOK' /\ Started' /\ UniqueUnlessForced' /\ Keyed'
  BY <1>0, <1>1 DEF GenIInv, GenTypeOK, Started, UniqueUnlessForced, Keyed, KeyedAt, Plain
<1> QED
  BY <1>1, <1>2 DEF GenIInv

\* The invariant holds in every reachable state of the generator.
LEMMA GenInvariance == GenSpec => []GenIInv
<1>1. GenIInv /\ [GenNext]_genVars => GenIInv'
  BY SortStep, BeginStep, RowStep, EndTableStep, ThrowStep, GenStutterStep DEF GenNext, GenStop
<1> QED
  BY <1>1, GenInitIInv, PTL DEF GenSpec

-----------------------------------------------------------------------------
(* What follows for the generated data *)

\* A set of numbers that is not empty has a least one.
LEMMA LeastNumber ==
  ASSUME NEW T, T \subseteq Nat, T # {}
  PROVE  \E x \in T : \A y \in T : x <= y
<1> DEFINE R == OpToRel(<, Nat)
<1>1. IsWellFoundedOn(R, Nat)
  BY NatLessThanWellFounded
<1>2. \A x, y \in Nat : y < x => <<y, x>> \in R
  BY DEF OpToRel
<1> HIDE DEF R
<1>3. PICK x \in T : \A y \in T : ~ (<<y, x>> \in R)
  BY <1>1, WFMin
<1>4. ASSUME NEW y \in T PROVE x <= y
  <2>1. x \in Nat /\ y \in Nat /\ ~ (y < x)
    BY <1>2, <1>3
  <2> QED
    BY <2>1
<1> QED
  BY <1>4

\* Where a sorted table stands in the result, and what stands before it.
LEMMA SortedPlaces ==
  ASSUME GenIInv, at > 0, NEW i \in DOMAIN result, NEW t \in Ids, result[i] = t, t \in Emitted,
         NEW u \in Parents(t)
  PROVE  u \in Before(i)
<1>1. /\ returned /\ Undefined \notin ToSet(result)
      /\ Len(sorted) <= Len(result) /\ \A k \in DOMAIN sorted : result[k] = Found(sorted[k])
  BY DEF GenIInv, Started, Prefixed
<1>2. /\ sorted \in Seq(Ids) /\ DOMAIN sorted = 1..Len(sorted) /\ Len(sorted) \in Nat
      /\ result \in Seq(Tables \cup {Undefined}) /\ DOMAIN result = 1..Len(result)
      /\ Len(result) \in Nat
  BY DEF GenIInv, IInv, TypeOK
<1>3. \A k \in DOMAIN sorted : k \in DOMAIN result /\ result[k] = sorted[k]
  <2> SUFFICES ASSUME NEW k \in DOMAIN sorted PROVE k \in DOMAIN result /\ result[k] = sorted[k]
    OBVIOUS
  <2>1. k \in DOMAIN result
    BY <1>1, <1>2
  <2>2. result[k] # Undefined
    BY <1>1, <2>1 DEF ToSet
  <2> QED
    BY <1>1, <2>1, <2>2 DEF Found
<1>4. t \in Tables
  BY <1>2, UndefinedAssumption
<1>5. PICK m \in DOMAIN sorted : sorted[m] = t
  BY DEF Emitted, ToSet
<1>6. m = i
  BY <1>1, <1>3, <1>4, <1>5 DEF GenIInv, IInv, EachOnce
<1>7. PICK k \in 1..(m - 1) : sorted[k] = u
  BY <1>5 DEF GenIInv, IInv, ParentsFirst
<1>8. k \in DOMAIN sorted
  BY <1>2, <1>7
<1> QED
  BY <1>3, <1>6, <1>7, <1>8 DEF Before

\* A plain key whose table was sorted, and is not its own parent, is found.
LEMMA SortedFound ==
  ASSUME GenIInv, NEW r \in Rels, rel[r].source # rel[r].target, rel[r].source \in Emitted,
         NEW i \in 1..(at - 1), KeyedAt(r, i)
  PROVE  key[r] = "found" /\ rel[r].target \in Before(i)
<1>1. at > 0 /\ i \in DOMAIN result
  <2>1. at \in Nat /\ i \in Nat /\ i <= at - 1 /\ i >= 1 /\ Len(result) \in Nat
    BY DEF GenIInv, GenTypeOK, IInv, TypeOK
  <2>2. at > 0
    BY <2>1
  <2>3. at <= Len(result) + 1 /\ DOMAIN result = 1..Len(result)
    BY <2>2 DEF GenIInv, Started, IInv, TypeOK
  <2> QED
    BY <2>1, <2>2, <2>3
<1>2. /\ rel[r].source \in Ids /\ result[i] = rel[r].source
      /\ rel[r].target \in Parents(rel[r].source)
  BY DEF GenIInv, IInv, TypeOK, KeyedAt, Parents
<1>3. rel[r].target \in Before(i)
  BY <1>1, <1>2, SortedPlaces
<1> QED
  BY <1>3 DEF KeyedAt

\* Whatever the schema, a foreign key that was not found has its cause there.
THEOREM MissesHaveCause == GenSpec => []MissHasCause
<1>1. GenIInv => MissHasCause
  <2> SUFFICES ASSUME GenIInv, NEW r \in Rels, Plain(r), key[r] \in {"null", "madeUp"},
                      rel[r].source # rel[r].target, rel[r].source \in Emitted
               PROVE  FALSE
    BY DEF MissHasCause
  <2>1. PICK i \in 1..(at - 1) : KeyedAt(r, i)
    BY DEF GenIInv, Keyed
  <2>2. key[r] = "found"
    BY <2>1, SortedFound
  <2> QED
    BY <2>2
<1> QED
  BY <1>1, GenInvariance, PTL

\* Whatever faker draws, only a value that was forced repeats an earlier one.
THEOREM NoRepeatUnlessForced == GenSpec => []UniqueUnlessForced
<1>1. GenIInv => UniqueUnlessForced
  BY DEF GenIInv
<1> QED
  BY <1>1, GenInvariance, PTL

\* A schema that can be ranked has no leftovers: one of least rank would have
\* all its parents out.
LEMMA RankedAllSorted ==
  ASSUME LeftoversBlocked, returned, NEW rank \in Rankings,
         \A r \in Rels : {rel[r].source, rel[r].target} \subseteq Tables
  PROVE  Tables \subseteq Emitted
<1> SUFFICES ASSUME Tables \ Emitted # {} PROVE FALSE
  OBVIOUS
<1> DEFINE Ranks == {rank[t] : t \in Tables \ Emitted}
<1>1. \A t \in Tables : rank[t] \in Nat /\ \A u \in Parents(t) : rank[t] > rank[u]
  <2>1. Cardinality(Tables) \in Nat
    BY FiniteAssumption, FS_CardinalityType
  <2> QED
    BY <2>1 DEF Rankings
<1>2. Ranks \subseteq Nat /\ Ranks # {}
  BY <1>1
<1>3. PICK least \in Ranks : \A y \in Ranks : least <= y
  <2> HIDE DEF Ranks
  <2> QED
    BY <1>2, LeastNumber
<1>4. PICK t \in Tables \ Emitted : rank[t] = least
  BY <1>3
<1>5. PICK u \in Parents(t) : u \notin Tables \cap Emitted
  BY <1>4 DEF LeftoversBlocked
<1>6. u \in Tables
  BY <1>5 DEF Parents
<1>7. least <= rank[u]
  BY <1>3, <1>5, <1>6
<1>8. rank[t] > rank[u] /\ rank[t] \in Nat /\ rank[u] \in Nat
  BY <1>1, <1>5, <1>6
<1> QED
  BY <1>4, <1>7, <1>8

\* The data of every schema that can be ranked goes in as the script has it.
THEOREM RankedScriptInserts == GenSpec => []ScriptInserts
<1>1. GenIInv /\ LeftoversBlocked => ScriptInserts
  <2> SUFFICES ASSUME GenIInv, LeftoversBlocked, Done, Rankings # {},
                      \A r \in Rels : Plain(r) /\ {rel[r].source, rel[r].target} \subseteq Tables
                                               /\ rel[r].source # rel[r].target,
                      NEW r \in Rels
               PROVE  Inserts(r)
    BY DEF ScriptInserts
  <2>1. rel[r].source \in Tables /\ rel[r].source \in Emitted
    BY RankedAllSorted DEF Done
  <2>2. returned /\ at = Len(result) + 1 /\ DOMAIN result = 1..Len(result) /\ Len(result) \in Nat
    BY DEF Done, GenIInv, IInv, TypeOK
  <2>3. PICK p \in DOMAIN result : result[p] = rel[r].source
    BY <2>1, <2>2 DEF GenIInv, IInv, EachOnce
  <2>4. rel[r].source \in Before(at)
    BY <2>2, <2>3 DEF Before
  <2>5. PICK i \in 1..(at - 1) : KeyedAt(r, i)
    BY <2>4 DEF GenIInv, Keyed
  <2>6. key[r] = "found" /\ rel[r].target \in Before(i) /\ result[i] = rel[r].source
    BY <2>1, <2>5, SortedFound DEF KeyedAt
  <2>7. PICK k \in 1..(i - 1) : result[k] = rel[r].target
    BY <2>6 DEF Before
  <2>8. i \in DOMAIN result /\ k \in DOMAIN result /\ k < i
    BY <2>2, <2>5, <2>7
  <2> QED
    BY <2>6, <2>7, <2>8 DEF Inserts, formatSQL
<1>2. GenSpec => []LeftoversBlocked
  BY GeneratorSorts, LeftoversHaveCause, PTL
<1> QED
  BY <1>1, <1>2, GenInvariance, PTL

\* What was proved of the sort holds inside the generator.
THEOREM GeneratorOrder == GenSpec => [](TypeOK /\ ParentsFirst /\ EachOnce /\ LeftoversBlocked)
BY GeneratorSorts, TypeCorrect, SortedAfterParents, NothingLostOrRepeated, LeftoversHaveCause, PTL
=============================================================================
