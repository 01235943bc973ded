------------------------ MODULE MigrationJobs_proofs ------------------------
(***************************************************************************)
(* Proofs about MigrationJobs and the scripts it applies.                  *)
(*                                                                         *)
(* First the scripts: what the lines that buildPostgresSQL and             *)
(* buildMysqlSQL write make of a database, section by section (the drops,  *)
(* the tables, the foreign keys, the indexes), and from these what a       *)
(* script of mode replace, one of mode safe, and what the MySQL driver     *)
(* sends of either make of it.  Then the jobs: a step of one request       *)
(* changes the handler, the row and the history of no other, so the        *)
(* invariant is stated for one job and every action is looked at for the   *)
(* job it is of; nothing is used there of what a script contains.  Last,   *)
(* both together: what a replacing job makes of a PostgreSQL database, and *)
(* what it can fail for.                                                   *)
(***************************************************************************)
EXTENDS MigrationJobs, FiniteSetTheorems, SequenceTheorems, WellFoundedInduction, TLAPS

-----------------------------------------------------------------------------
(* Induction.  The induction theorems of the library take the statement as   *)
(* an operator; here it is the set of the numbers for which it holds.        *)

\* A set of numbers that is not empty has a least one.
LEMMA LeastNumber ==
  ASSUME NEW T, T \subseteq Nat, T # {}
  PROVE  \E x \in T : \A y \in T : x <= y
<1> DEFINE R == OpToRel(<, Nat)
<1>1. IsWellFoundedOn(R, Nat)
  BY NatLessThanWellFounded
<1>2. \A x, y \in Nat : y < x => <<y, x>> \in R
  BY DEF OpToRel
<1> HIDE DEF R
<1>3. PICK x \in T : \A y \in T : ~ (<<y, x>> \in R)
  BY <1>1, WFMin
<1>4. ASSUME NEW y \in T PROVE x <= y
  <2>1. x \in Nat /\ y \in Nat /\ ~ (y < x)
    BY <1>2, <1>3
  <2> QED
    BY <2>1
<1> QED
  BY <1>4

\* What holds of 0, and of n + 1 if of n, holds up to N.
LEMMA Induction ==
  ASSUME NEW N \in Nat, NEW P, 0 \in P, \A n \in 0..(N - 1) : n \in P => n + 1 \in P
  PROVE  \A n \in 0..N : n \in P
<1> DEFINE T == (0..N) \ P
<1> SUFFICES ASSUME T # {} PROVE FALSE
  OBVIOUS
<1>1. T \subseteq Nat
  OBVIOUS
<1>2. PICK x \in T : \A y \in T : x <= y
  <2> HIDE DEF T
  <2> QED
    BY <1>1, LeastNumber
<1>3. x \in 0..N /\ x \notin P /\ x # 0
  OBVIOUS
<1>4. x - 1 \in 0..(N - 1) /\ x - 1 \in 0..N
  BY <1>3
<1>5. x - 1 \in P
  BY <1>2, <1>3, <1>4
<1>6. (x - 1) + 1 \in P
  BY <1>4, <1>5
<1> QED
  BY <1>3, <1>6

-----------------------------------------------------------------------------
(* The recursive functions of SqlScript are what their equations say. *)

\* Course begins with the session and goes on line by line.
LEMMA CourseSteps ==
  ASSUME NEW d, NEW s, NEW lines, Len(lines) \in Nat
  PROVE  /\ Course(d, s, lines)[0] = s
         /\ \A n \in 1..Len(lines) :
              Course(d, s, lines)[n] = Execute(d, Course(d, s, lines)[n - 1], lines[n])
<1> DEFINE N == Len(lines)
           Turn(f, n) == IF n = 0 THEN s ELSE Execute(d, f[n - 1], lines[n])
           P == {n \in Nat : \E f : f = [i \in 0..n |-> Turn(f, i)]}
<1>1. 0 \in P
  <2> DEFINE f == [i \in 0..0 |-> s]
  <2>1. f = [i \in 0..0 |-> Turn(f, i)]
    OBVIOUS
  <2> QED
    BY <2>1
<1>2. ASSUME NEW n \in 0..(N - 1), n \in P PROVE n + 1 \in P
  <2>1. PICK f : f = [i \in 0..n |-> Turn(f, i)]
    BY <1>2
  <2> DEFINE g == [i \in 0..(n + 1) |-> IF i = n + 1 THEN Execute(d, f[n], lines[n + 1]) ELSE f[i]]
  <2>2. \A i \in 0..n : f[i] = Turn(f, i)
    <3> DEFINE h == [i \in 0..n |-> Turn(f, i)]
    <3>1. \A i \in 0..n : h[i] = Turn(f, i)
      OBVIOUS
    <3>2. f = h
      BY <2>1
    <3> HIDE DEF h
    <3> QED
      BY <3>1, <3>2
  <2>3. ASSUME NEW i \in 0..(n + 1) PROVE g[i] = Turn(g, i)
    <3>1. CASE i = n + 1
      BY <3>1
    <3>2. CASE i \in 1..n
      BY <2>2, <3>2
    <3>3. CASE i = 0
      BY <2>2, <3>3
    <3> QED
      BY <3>1, <3>2, <3>3
  <2>4. g = [i \in 0..(n + 1) |-> Turn(g, i)]
    BY <2>3
  <2> HIDE DEF g
  <2>5. n + 1 \in Nat
    OBVIOUS
  <2> QED
    BY <2>4, <2>5
<1>3. N \in P
  <2>1. N \in Nat
    OBVIOUS
  <2> HIDE DEF P, N
  <2>2. \A n \in 0..N : n \in P
    BY <1>1, <1>2, <2>1, Induction
  <2> QED
    BY <2>1, <2>2
<1>4. \E f : f = [i \in 0..N |-> Turn(f, i)]
  BY <1>3
<1>5. Course(d, s, lines) = [i \in 0..N |-> Turn(Course(d, s, lines), i)]
  BY <1>4 DEF Course
<1> DEFINE f == Course(d, s, lines)
           h == [i \in 0..N |-> Turn(f, i)]
<1>6. /\ h[0] = s /\ \A n \in 1..N : h[n] = Execute(d, f[n - 1], lines[n])
  OBVIOUS
<1> HIDE DEF h
<1> QED
  BY <1>5, <1>6 DEF h

NoRepeat(s) == \A i, k \in DOMAIN s : s[i] = s[k] => i = k

\* The elements of a longer sequence.
LEMMA AppendSet ==
  ASSUME NEW S, NEW s \in Seq(S), NEW e \in S
  PROVE  /\ Append(s, e) \in Seq(S)
         /\ ToSet(Append(s, e)) = ToSet(s) \cup {e}
         /\ NoRepeat(s) /\ e \notin ToSet(s) => NoRepeat(Append(s, e))
<1>1. /\ Append(s, e) \in Seq(S) /\ Len(Append(s, e)) = Len(s) + 1
      /\ Append(s, e)[Len(s) + 1] = e
      /\ \A i \in 1..Len(s) : Append(s, e)[i] = s[i]
  BY AppendProperties
<1>2. DOMAIN s = 1..Len(s) /\ DOMAIN Append(s, e) = 1..(Len(s) + 1) /\ Len(s) \in Nat
  BY <1>1
<1>3. ToSet(Append(s, e)) = ToSet(s) \cup {e}
  BY <1>1, <1>2 DEF ToSet
<1>4. ASSUME NoRepeat(s), e \notin ToSet(s) PROVE NoRepeat(Append(s, e))
  BY <1>1, <1>2, <1>4 DEF NoRepeat, ToSet
<1> QED
  BY <1>1, <1>3, <1>4

\* Kept begins with nothing and goes on place by place.
LEMMA KeptSteps ==
  ASSUME NEW s, Len(s) \in Nat, NEW I
  PROVE  \E kept :
           /\ Kept(s, I) = kept[Len(s)] /\ kept[0] = <<>>
           /\ \A n \in 1..Len(s) :
                kept[n] = IF n \in I THEN Append(kept[n - 1], s[n]) ELSE kept[n - 1]
<1> DEFINE N == Len(s)
           Turn(f, n) == IF n = 0 THEN <<>> ELSE IF n \in I THEN Append(f[n - 1], s[n]) ELSE f[n - 1]
           P == {n \in Nat : \E f : f = [i \in 0..n |-> Turn(f, i)]}
<1>0. N \in Nat
  OBVIOUS
<1>1. 0 \in P
  <2> DEFINE f == [i \in 0..0 |-> <<>>]
  <2>1. f = [i \in 0..0 |-> Turn(f, i)]
    OBVIOUS
  <2> QED
    BY <2>1
<1>2. ASSUME NEW n \in 0..(N - 1), n \in P PROVE n + 1 \in P
  <2>1. PICK f : f = [i \in 0..n |-> Turn(f, i)]
    BY <1>2
  <2> DEFINE g == [i \in 0..(n + 1) |-> IF i = n + 1 THEN Turn(f, n + 1) ELSE f[i]]
  <2>2. \A i \in 0..n : f[i] = Turn(f, i)
    <3> DEFINE h == [i \in 0..n |-> Turn(f, i)]
    <3>1. \A i \in 0..n : h[i] = Turn(f, i)
      OBVIOUS
    <3>2. f = h
      BY <2>1
    <3> HIDE DEF h
    <3> QED
      BY <3>1, <3>2
  <2>3. ASSUME NEW i \in 0..(n + 1) PROVE g[i] = Turn(g, i)
    <3>1. CASE i = n + 1
      BY <3>1
    <3>2. CASE i \in 1..n
      BY <2>2, <3>2
    <3>3. CASE i = 0
      BY <2>2, <3>3
    <3> QED
      BY <3>1, <3>2, <3>3
  <2>4. g = [i \in 0..(n + 1) |-> Turn(g, i)]
    BY <2>3
  <2> HIDE DEF g
  <2>5. n + 1 \in Nat
    BY <1>0
  <2> QED
    BY <2>4, <2>5
<1>3. N \in P
  <2> HIDE DEF P, N
  <2>2. \A n \in 0..N : n \in P
    BY <1>0, <1>1, <1>2, Induction
  <2> QED
    BY <1>0, <2>2
<1>4. \E f : f = [i \in 0..N |-> Turn(f, i)]
  BY <1>3
<1> DEFINE kept == CHOOSE f : f = [i \in 0..N |-> Turn(f, i)]
           h == [i \in 0..N |-> Turn(kept, i)]
<1>5. kept = h
  BY <1>4
<1>6. h[0] = <<>> /\ \A n \in 1..N : h[n] = IF n \in I THEN Append(kept[n - 1], s[n]) ELSE kept[n - 1]
  BY <1>0
<1>7. Kept(s, I) = kept[N]
  BY DEF Kept
<1> HIDE DEF h, kept
<1>8. /\ kept[0] = <<>>
      /\ \A n \in 1..N : kept[n] = IF n \in I THEN Append(kept[n - 1], s[n]) ELSE kept[n - 1]
  BY <1>5, <1>6
<1> QED
  BY <1>7, <1>8

\* What is kept are the elements at the places kept; no one twice if these differ.
LEMMA KeptProperties ==
  ASSUME NEW S, NEW s \in Seq(S), NEW I
  PROVE  /\ Kept(s, I) \in Seq(S)
         /\ ToSet(Kept(s, I)) = {s[i] : i \in I \cap DOMAIN s}
         /\ (\A i, k \in I \cap DOMAIN s : s[i] = s[k] => i = k) => NoRepeat(Kept(s, I))
<1> DEFINE N == Len(s)
<1>0. N \in Nat /\ DOMAIN s = 1..N /\ \A i \in 1..N : s[i] \in S
  OBVIOUS
<1>8. PICK kept :
        /\ Kept(s, I) = kept[N] /\ kept[0] = <<>>
        /\ \A n \in 1..N : kept[n] = IF n \in I THEN Append(kept[n - 1], s[n]) ELSE kept[n - 1]
  BY <1>0, KeptSteps
<1> DEFINE Differ == \A i, k \in I \cap DOMAIN s : s[i] = s[k] => i = k
           Q == {n \in 0..N : /\ kept[n] \in Seq(S)
                              /\ ToSet(kept[n]) = {s[i] : i \in I \cap 1..n}
                              /\ Differ => NoRepeat(kept[n])}
<1>9. 0 \in Q
  <2>1. 0 \in 0..N /\ {s[i] : i \in I \cap 1..0} = {}
    BY <1>0
  <2>2. <<>> \in Seq(S) /\ ToSet(<<>>) = {} /\ NoRepeat(<<>>)
    BY EmptySeq DEF ToSet, NoRepeat
  <2> QED
    BY <1>8, <2>1, <2>2
<1>10. ASSUME NEW n \in 0..(N - 1), n \in Q PROVE n + 1 \in Q
  <2>1. n + 1 \in 1..N /\ n + 1 \in 0..N /\ (n + 1) - 1 = n /\ 1..(n + 1) = 1..n \cup {n + 1}
    BY <1>0
  <2>2. /\ kept[n] \in Seq(S) /\ ToSet(kept[n]) = {s[i] : i \in I \cap 1..n}
        /\ Differ => NoRepeat(kept[n])
    BY <1>10
  <2>3. kept[n + 1] = IF n + 1 \in I THEN Append(kept[n], s[n + 1]) ELSE kept[n]
    BY <1>8, <2>1
  <2>4. CASE n + 1 \notin I
    BY <2>1, <2>2, <2>3, <2>4
  <2>5. CASE n + 1 \in I
    <3>1. kept[n + 1] = Append(kept[n], s[n + 1]) /\ s[n + 1] \in S
      BY <1>0, <2>1, <2>3, <2>5
    <3>2. /\ kept[n + 1] \in Seq(S)
          /\ ToSet(kept[n + 1]) = ToSet(kept[n]) \cup {s[n + 1]}
          /\ NoRepeat(kept[n]) /\ s[n + 1] \notin ToSet(kept[n]) => NoRepeat(kept[n + 1])
      BY <2>2, <3>1, AppendSet
    <3>3. ToSet(kept[n + 1]) = {s[i] : i \in I \cap 1..(n + 1)}
      BY <2>1, <2>2, <2>5, <3>2
    <3>4. ASSUME Differ PROVE s[n + 1] \notin ToSet(kept[n])
      <4>1. \A i \in 1..n : i \in DOMAIN s /\ i # n + 1
        BY <1>0
      <4> QED
        BY <1>0, <2>1, <2>2, <2>5, <3>4, <4>1
    <3> HIDE DEF Differ
    <3> QED
      BY <2>1, <2>2, <3>2, <3>3, <3>4
  <2> QED
    BY <2>4, <2>5
<1>11. N \in Q
  <2> HIDE DEF Q, N
  <2>2. \A n \in 0..N : n \in Q
    BY <1>0, <1>9, <1>10, Induction
  <2> QED
    BY <1>0, <2>2
<1>12. I \cap 1..N = I \cap DOMAIN s
  BY <1>0
<1> QED
  BY <1>8, <1>11, <1>12

-----------------------------------------------------------------------------
(* Sessions *)

\* The session after all of the lines.
Final(d, s, lines) == Course(d, s, lines)[Len(lines)]

Session(database, checks) == [db |-> database, checks |-> checks, failed |-> FALSE]

\* No lines, no change.
LEMMA FinalNothing ==
  ASSUME NEW d, NEW s PROVE Final(d, s, <<>>) = s
<1>1. Len(<<>>) = 0
  BY EmptySeq
<1> QED
  BY <1>1, CourseSteps DEF Final

\* One line.
LEMMA FinalOne ==
  ASSUME NEW d, NEW s, NEW line PROVE Final(d, s, <<line>>) = Execute(d, s, line)
<1>1. Len(<<line>>) = 1 /\ <<line>>[1] = line
  OBVIOUS
<1> QED
  BY <1>1, CourseSteps DEF Final

\* Lines one after the other.
LEMMA FinalConcat ==
  ASSUME NEW d, NEW s, NEW S, NEW a \in Seq(S), NEW b \in Seq(S)
  PROVE  Final(d, s, a \o b) = Final(d, Final(d, s, a), b)
<1> DEFINE ab == a \o b
           F == Course(d, s, ab)
           A == Course(d, s, a)
           B == Course(d, Final(d, s, a), b)
<1>1. /\ Len(a) \in Nat /\ Len(b) \in Nat /\ Len(ab) = Len(a) + Len(b)
      /\ \A i \in 1..Len(a) : ab[i] = a[i]
      /\ \A i \in 1..Len(b) : ab[Len(a) + i] = b[i]
  <2>1. /\ Len(ab) = Len(a) + Len(b) /\ Len(a) \in Nat /\ Len(b) \in Nat
        /\ \A i \in 1..(Len(a) + Len(b)) : ab[i] = IF i <= Len(a) THEN a[i] ELSE b[i - Len(a)]
    BY ConcatProperties
  <2> HIDE DEF ab
  <2>2. \A i \in 1..Len(b) : Len(a) + i \in 1..(Len(a) + Len(b)) /\ ~ (Len(a) + i <= Len(a))
                             /\ (Len(a) + i) - Len(a) = i
    BY <2>1
  <2> QED
    BY <2>1, <2>2
<1>2. Len(ab) \in Nat
  BY <1>1
<1>3. /\ F[0] = s /\ \A n \in 1..Len(ab) : F[n] = Execute(d, F[n - 1], ab[n])
      /\ A[0] = s /\ \A n \in 1..Len(a) : A[n] = Execute(d, A[n - 1], a[n])
      /\ B[0] = A[Len(a)] /\ \A n \in 1..Len(b) : B[n] = Execute(d, B[n - 1], b[n])
  <2> HIDE DEF ab
  <2>1. F[0] = s /\ \A n \in 1..Len(ab) : F[n] = Execute(d, F[n - 1], ab[n])
    BY <1>2, CourseSteps
  <2>2. A[0] = s /\ \A n \in 1..Len(a) : A[n] = Execute(d, A[n - 1], a[n])
    BY <1>1, CourseSteps
  <2>3. B[0] = Final(d, s, a) /\ \A n \in 1..Len(b) : B[n] = Execute(d, B[n - 1], b[n])
    BY <1>1, CourseSteps
  <2>4. Final(d, s, a) = A[Len(a)]
    BY DEF Final
  <2> HIDE DEF F, A, B
  <2> QED
    BY <2>1, <2>2, <2>3, <2>4
<1> HIDE DEF F, A, B, ab
<1> DEFINE P == {n \in 0..Len(a) : F[n] = A[n]}
           Q == {n \in 0..Len(b) : F[Len(a) + n] = B[n]}
<1>4. Len(a) \in P
  <2>1. 0 \in P
    BY <1>1, <1>3
  <2>2. ASSUME NEW n \in 0..(Len(a) - 1), n \in P PROVE n + 1 \in P
    <3>1. n + 1 \in 1..Len(a) /\ n + 1 \in 1..Len(ab) /\ (n + 1) - 1 = n /\ n + 1 \in 0..Len(a)
      BY <1>1
    <3> QED
      BY <1>1, <1>3, <2>2, <3>1
  <2> HIDE DEF P
  <2>3. \A n \in 0..Len(a) : n \in P
    BY <1>1, <2>1, <2>2, Induction
  <2> QED
    BY <1>1, <2>3
<1>5. Len(b) \in Q
  <2>1. 0 \in Q
    BY <1>1, <1>3, <1>4
  <2>2. ASSUME NEW n \in 0..(Len(b) - 1), n \in Q PROVE n + 1 \in Q
    <3>1. /\ n + 1 \in 1..Len(b) /\ Len(a) + (n + 1) \in 1..Len(ab) /\ (n + 1) - 1 = n
          /\ (Len(a) + (n + 1)) - 1 = Len(a) + n /\ n + 1 \in 0..Len(b)
      BY <1>1
    <3>2. F[Len(a) + (n + 1)] = Execute(d, F[Len(a) + n], ab[Len(a) + (n + 1)])
      BY <1>3, <3>1
    <3>3. B[n + 1] = Execute(d, B[n], b[n + 1])
      BY <1>3, <3>1
    <3> QED
      BY <1>1, <2>2, <3>1, <3>2, <3>3
  <2> HIDE DEF Q
  <2>3. \A n \in 0..Len(b) : n \in Q
    BY <1>1, <2>1, <2>2, Induction
  <2> QED
    BY <1>1, <2>3
<1>6. F[Len(ab)] = B[Len(b)]
  BY <1>1, <1>5
<1>7. Final(d, s, ab) = F[Len(ab)] /\ Final(d, Final(d, s, a), b) = B[Len(b)]
  BY DEF Final, F, B
<1> QED
  BY <1>6, <1>7 DEF ab

\* A run is the lines of a session that begins with the database's checks on.
LEMMA RunFinal ==
  ASSUME NEW d, NEW database, NEW lines
  PROVE  Run(d, database, lines) = Final(d, Session(database, TRUE), lines)
BY DEF Run, Final, Session

-----------------------------------------------------------------------------
(* Single lines *)

\* The lines that take nothing away, and those of all scripts.
Gentle ==
  {Comment} \cup {Checks(on) : on \in BOOLEAN}
    \cup {CreateTable(t, m) : t \in Tables, m \in Mode}
    \cup {ForeignKey(r) : r \in Relationship} \cup {Index(r) : r \in Relationship}
Lines == Gentle \cup {Drop(t) : t \in Tables}

\* What the lines that are not about tables do.
LEMMA QuietLines ==
  ASSUME NEW d, NEW g, NEW c, NEW on
  PROVE  /\ Execute(d, Session(g, c), Comment) = Session(g, c)
         /\ Execute(d, Session(g, c), Checks(on)) = Session(g, on)
<1>1. ~ Rejects(d, g, c, Comment) /\ After(d, g, Comment) = g /\ ChecksAfter(c, Comment) = c
  BY DEF Rejects, After, ChecksAfter, Comment
<1>2. ~ Rejects(d, g, c, Checks(on)) /\ After(d, g, Checks(on)) = g /\ ChecksAfter(c, Checks(on)) = on
  BY DEF Rejects, After, ChecksAfter, Checks
<1> QED
  BY <1>1, <1>2 DEF Execute, Session

\* DROP TABLE, when nothing checks who refers to it.
Dropped(d, g, t) ==
  [tables  |-> g.tables \ {t},
   fks     |-> {f \in g.fks : f.source # t /\ (d = "mysql" \/ f.target # t)},
   indexes |-> {x \in g.indexes : x[1] # t}]

\* The line does that.
LEMMA DropLine ==
  ASSUME NEW d, NEW g, NEW c, NEW t, d = "mysql" => c = FALSE
  PROVE  Execute(d, Session(g, c), Drop(t)) = Session(Dropped(d, g, t), c)
<1>1. ~ Rejects(d, g, c, Drop(t)) /\ ChecksAfter(c, Drop(t)) = c
  BY DEF Rejects, ChecksAfter, Drop
<1>2. After(d, g, Drop(t)) = Dropped(d, g, t)
  BY DEF After, Drop, Dropped
<1> QED
  BY <1>1, <1>2 DEF Execute, Session

\* CREATE TABLE, when there is none of the name.
LEMMA CreateLine ==
  ASSUME NEW d, NEW g \in Db, NEW c, NEW t, NEW m, t \notin g.tables
  PROVE  Execute(d, Session(g, c), CreateTable(t, m))
           = Session([g EXCEPT !.tables = g.tables \cup {t}], c)
<1>1. ~ Rejects(d, g, c, CreateTable(t, m)) /\ ChecksAfter(c, CreateTable(t, m)) = c
  BY DEF Rejects, ChecksAfter, CreateTable
<1>2. After(d, g, CreateTable(t, m)) = [g EXCEPT !.tables = g.tables \cup {t}]
  BY DEF After, CreateTable
<1> QED
  BY <1>1, <1>2 DEF Execute, Session

\* A foreign key between tables that are there, in a column that has none.
LEMMA ForeignKeyLine ==
  ASSUME NEW d, NEW g \in Db, NEW c, NEW r, {r.source, r.target} \subseteq g.tables,
         \A f \in g.fks : ~ (f.source = r.source /\ f.column = r.column)
  PROVE  Execute(d, Session(g, c), ForeignKey(r))
           = Session([g EXCEPT !.fks = g.fks \cup {r}], c)
<1>1. ~ Rejects(d, g, c, ForeignKey(r)) /\ ChecksAfter(c, ForeignKey(r)) = c
  BY DEF Rejects, ChecksAfter, ForeignKey
<1>2. After(d, g, ForeignKey(r)) = [g EXCEPT !.fks = g.fks \cup {r}]
  BY DEF After, ForeignKey
<1> QED
  BY <1>1, <1>2 DEF Execute, Session

\* A database with one more index.
Indexed(g, x) == [g EXCEPT !.indexes = g.indexes \cup {x}]

\* An index on a table that is there, and not there itself.
LEMMA IndexLine ==
  ASSUME NEW d, NEW g \in Db, NEW c, NEW r, NEW x, x = <<r.source, r.column>>,
         r.source \in g.tables, x \notin g.indexes
  PROVE  Execute(d, Session(g, c), Index(r))
           = Session(Indexed(g, x), c)
<1>1. ~ Rejects(d, g, c, Index(r)) /\ ChecksAfter(c, Index(r)) = c
  BY DEF Rejects, ChecksAfter, Index
<1>2. After(d, g, Index(r)) = Indexed(g, x)
  BY DEF After, Index, Indexed
<1> QED
  BY <1>1, <1>2 DEF Execute, Session

-----------------------------------------------------------------------------
(* The sections of a script *)

\* A database without the tables D and what goes with them.
Without(d, g, D) ==
  [tables  |-> g.tables \ D,
   fks     |-> {f \in g.fks : f.source \notin D /\ (d = "mysql" \/ f.target \notin D)},
   indexes |-> {x \in g.indexes : x[1] \notin D}]

\* The drop phase leaves nothing of the tables.
LEMMA DropsRun ==
  ASSUME NEW d, NEW g \in Db, NEW c, d = "mysql" => c = FALSE, NEW order \in Seq(Tables)
  PROVE  Final(d, Session(g, c), [i \in DOMAIN order |-> Drop(Reverse(order)[i])])
           = Session(Without(d, g, ToSet(order)), c)
<1> DEFINE N == Len(order)
           rev == Reverse(order)
           lines == [i \in DOMAIN order |-> Drop(rev[i])]
           D(n) == {rev[i] : i \in 1..n}
           F == Course(d, Session(g, c), lines)
           P == {n \in 0..N : F[n] = Session(Without(d, g, D(n)), c)}
<1>1. N \in Nat /\ Len(lines) = N /\ \A i \in 1..N : lines[i] = Drop(rev[i])
  OBVIOUS
<1>2. D(N) = ToSet(order)
  <2>1. DOMAIN order = 1..N /\ \A i \in 1..N : rev[i] = order[(N - i) + 1]
    BY DEF Reverse
  <2>2. \A i \in 1..N : (N - i) + 1 \in 1..N /\ (N - ((N - i) + 1)) + 1 = i
    BY <1>1
  <2> HIDE DEF rev
  <2>3. D(N) \subseteq ToSet(order)
    BY <2>1, <2>2 DEF ToSet
  <2>4. ASSUME NEW i \in 1..N PROVE order[i] \in D(N)
    <3>1. rev[(N - i) + 1] = order[i] /\ (N - i) + 1 \in 1..N
      BY <2>1, <2>2
    <3> QED
      BY <3>1
  <2> QED
    BY <2>1, <2>3, <2>4 DEF ToSet
<1>3. F[0] = Session(g, c) /\ \A n \in 1..N : F[n] = Execute(d, F[n - 1], Drop(rev[n]))
  <2> HIDE DEF lines, rev
  <2>1. Len(lines) \in Nat
    BY <1>1
  <2>2. F[0] = Session(g, c) /\ \A n \in 1..Len(lines) : F[n] = Execute(d, F[n - 1], lines[n])
    BY <2>1, CourseSteps
  <2> HIDE DEF F
  <2> QED
    BY <1>1, <2>2
<1> HIDE DEF F, lines, rev
<1>4. 0 \in P
  <2>1. D(0) = {}
    OBVIOUS
  <2>2. Without(d, g, {}) = g
    BY DEF Without, Db
  <2> HIDE DEF D
  <2>3. F[0] = Session(Without(d, g, D(0)), c)
    BY <1>3, <2>1, <2>2
  <2> QED
    BY <1>1, <2>3
<1>5. ASSUME NEW n \in 0..(N - 1), n \in P PROVE n + 1 \in P
  <2>1. n + 1 \in 1..N /\ n + 1 \in 0..N /\ (n + 1) - 1 = n
    BY <1>1
  <2>2. F[n + 1] = Execute(d, Session(Without(d, g, D(n)), c), Drop(rev[n + 1]))
    <3> HIDE DEF D
    <3> QED
      BY <1>3, <1>5, <2>1
  <2>3. F[n + 1] = Session(Dropped(d, Without(d, g, D(n)), rev[n + 1]), c)
    <3> DEFINE h == Without(d, g, D(n))
               t == rev[n + 1]
    <3> HIDE DEF h, t
    <3>1. Execute(d, Session(h, c), Drop(t)) = Session(Dropped(d, h, t), c)
      BY DropLine
    <3> QED
      BY <2>2, <3>1 DEF h, t
  <2>4. D(n + 1) = D(n) \cup {rev[n + 1]}
    <3>1. 1..(n + 1) = 1..n \cup {n + 1}
      BY <1>1
    <3> QED
      BY <3>1
  <2>5. \A E, t : Dropped(d, Without(d, g, E), t) = Without(d, g, E \cup {t})
    BY DEF Dropped, Without
  <2> HIDE DEF D
  <2> QED
    BY <2>1, <2>3, <2>4, <2>5
<1>6. N \in P
  <2> HIDE DEF P, N
  <2>1. \A n \in 0..N : n \in P
    BY <1>1, <1>4, <1>5, Induction
  <2> QED
    BY <1>1, <2>1
<1>7. F[N] = Session(Without(d, g, ToSet(order)), c)
  <2> HIDE DEF D
  <2> QED
    BY <1>2, <1>6
<1>8. Final(d, Session(g, c), lines) = F[N]
  BY <1>1 DEF Final, F
<1> QED
  BY <1>7, <1>8 DEF lines, rev

\* Databases with more tables, foreign keys, indexes.
Created(g, E)   == [g EXCEPT !.tables = g.tables \cup E]
Referring(g, E) == [g EXCEPT !.fks = g.fks \cup E]
Searchable(g, E) == [g EXCEPT !.indexes = g.indexes \cup E]

\* The lines of a create phase below its heading.
Creates(order, m) ==
  [i \in 1..(2 * Len(order)) |-> IF i % 2 = 1 THEN Comment ELSE CreateTable(order[i \div 2], m)]

\* The create phase makes the tables, if there is none of them.
LEMMA CreatesRun ==
  ASSUME NEW d, NEW g \in Db, NEW c, NEW m, NEW order \in Seq(Tables), NoRepeat(order),
         ToSet(order) \cap g.tables = {}
  PROVE  Final(d, Session(g, c), Creates(order, m)) = Session(Created(g, ToSet(order)), c)
<1> DEFINE N == Len(order)
           lines == [i \in 1..(2 * N) |->
                       IF i % 2 = 1 THEN Comment ELSE CreateTable(order[i \div 2], m)]
           D(n) == {order[i] : i \in 1..n}
           With(E) == [g EXCEPT !.tables = g.tables \cup E]
           F == Course(d, Session(g, c), lines)
           P == {n \in 0..N : F[2 * n] = Session(With(D(n)), c)}
<1>1. N \in Nat /\ DOMAIN order = 1..N /\ \A i \in 1..N : order[i] \in Tables
  OBVIOUS
<1>2. D(N) = ToSet(order)
  BY <1>1 DEF ToSet
<1>3. Len(lines) = 2 * N /\ 2 * N \in Nat
  BY <1>1
<1>4. \A n \in 1..N : /\ 2 * n - 1 \in 1..(2 * N) /\ 2 * n \in 1..(2 * N)
                      /\ lines[2 * n - 1] = Comment /\ lines[2 * n] = CreateTable(order[n], m)
  <2> SUFFICES ASSUME NEW n \in 1..N
               PROVE  /\ 2 * n - 1 \in 1..(2 * N) /\ 2 * n \in 1..(2 * N)
                      /\ lines[2 * n - 1] = Comment /\ lines[2 * n] = CreateTable(order[n], m)
    OBVIOUS
  <2>1. 2 * n - 1 \in 1..(2 * N) /\ 2 * n \in 1..(2 * N)
    BY <1>1
  <2>2. (2 * n - 1) % 2 = 1 /\ (2 * n) % 2 = 0 /\ (2 * n) \div 2 = n
    BY <1>1
  <2> QED
    BY <2>1, <2>2
<1>5. F[0] = Session(g, c) /\ \A n \in 1..(2 * N) : F[n] = Execute(d, F[n - 1], lines[n])
  <2> HIDE DEF lines
  <2>1. Len(lines) \in Nat
    BY <1>3
  <2>2. F[0] = Session(g, c) /\ \A n \in 1..Len(lines) : F[n] = Execute(d, F[n - 1], lines[n])
    BY <2>1, CourseSteps
  <2> HIDE DEF F
  <2> QED
    BY <1>3, <2>2
<1> HIDE DEF F, lines
<1>6. 0 \in P
  <2>1. D(0) = {}
    OBVIOUS
  <2>2. With({}) = g
    BY DEF Db
  <2> HIDE DEF D, With
  <2>3. F[2 * 0] = Session(With(D(0)), c)
    <3>1. 2 * 0 = 0
      OBVIOUS
    <3> QED
      BY <1>5, <2>1, <2>2, <3>1
  <2> QED
    BY <1>1, <2>3
<1>7. ASSUME NEW n \in 0..(N - 1), n \in P PROVE n + 1 \in P
  <2>1. /\ n + 1 \in 1..N /\ n + 1 \in 0..N /\ (2 * (n + 1)) - 1 = 2 * n + 1
        /\ (2 * n + 1) - 1 = 2 * n
    BY <1>1
  <2>2. F[2 * n + 1] = Execute(d, Session(With(D(n)), c), Comment)
    <3>1. 2 * n + 1 \in 1..(2 * N) /\ lines[2 * n + 1] = Comment
      BY <1>4, <2>1
    <3> QED
      BY <1>5, <1>7, <2>1, <3>1
  <2>3. F[2 * n + 1] = Session(With(D(n)), c)
    <3> HIDE DEF D, With
    <3> QED
      BY <2>2, QuietLines
  <2>4. F[2 * (n + 1)] = Execute(d, Session(With(D(n)), c), CreateTable(order[n + 1], m))
    <3>1. 2 * (n + 1) \in 1..(2 * N) /\ lines[2 * (n + 1)] = CreateTable(order[n + 1], m)
      BY <1>4, <2>1
    <3> QED
      BY <1>5, <2>1, <2>3, <3>1
  <2>5. With(D(n)) \in Db /\ With(D(n)).tables = g.tables \cup D(n)
    BY <1>1 DEF Db
  <2>6. order[n + 1] \notin g.tables \cup D(n)
    <3>1. order[n + 1] \in ToSet(order)
      BY <1>1, <2>1 DEF ToSet
    <3>2. \A i \in 1..n : i \in DOMAIN order /\ i # n + 1
      BY <1>1
    <3> QED
      BY <1>1, <2>1, <3>1, <3>2 DEF NoRepeat
  <2>7. [With(D(n)) EXCEPT !.tables = With(D(n)).tables \cup {order[n + 1]}]
          = With(D(n) \cup {order[n + 1]})
    BY DEF Db
  <2>8. D(n + 1) = D(n) \cup {order[n + 1]}
    <3>1. 1..(n + 1) = 1..n \cup {n + 1}
      BY <1>1
    <3> QED
      BY <3>1
  <2>9. F[2 * (n + 1)] = Session(With(D(n) \cup {order[n + 1]}), c)
    <3> DEFINE h == With(D(n))
    <3>1. h \in Db /\ order[n + 1] \notin h.tables
      BY <2>5, <2>6
    <3> HIDE DEF h
    <3>2. Execute(d, Session(h, c), CreateTable(order[n + 1], m))
            = Session([h EXCEPT !.tables = h.tables \cup {order[n + 1]}], c)
      BY <3>1, CreateLine
    <3> QED
      BY <2>4, <2>7, <3>2 DEF h
  <2> HIDE DEF D, With
  <2> QED
    BY <2>1, <2>8, <2>9
<1>8. N \in P
  <2> HIDE DEF P, N
  <2>1. \A n \in 0..N : n \in P
    BY <1>1, <1>6, <1>7, Induction
  <2> QED
    BY <1>1, <2>1
<1>9. F[2 * N] = Session(With(ToSet(order)), c)
  <2> HIDE DEF D, With
  <2> QED
    BY <1>2, <1>8
<1>10. Final(d, Session(g, c), lines) = F[2 * N]
  BY <1>3 DEF Final, F
<1> QED
  BY <1>9, <1>10 DEF lines, Creates, Created

\* The foreign keys between tables that are there, in columns that have none.
LEMMA ForeignKeysRun ==
  ASSUME NEW d, NEW g \in Db, NEW c, NEW rels \in Seq(Relationship),
         \A i \in DOMAIN rels : {rels[i].source, rels[i].target} \subseteq g.tables,
         \A i \in DOMAIN rels : \A f \in g.fks :
           ~ (f.source = rels[i].source /\ f.column = rels[i].column),
         \A i, k \in DOMAIN rels :
           rels[i].source = rels[k].source /\ rels[i].column = rels[k].column => i = k
  PROVE  Final(d, Session(g, c), [i \in DOMAIN rels |-> ForeignKey(rels[i])])
           = Session(Referring(g, ToSet(rels)), c)
<1> DEFINE N == Len(rels)
           lines == [i \in DOMAIN rels |-> ForeignKey(rels[i])]
           D(n) == {rels[i] : i \in 1..n}
           With(E) == [g EXCEPT !.fks = g.fks \cup E]
           F == Course(d, Session(g, c), lines)
           P == {n \in 0..N : F[n] = Session(With(D(n)), c)}
<1>1. /\ N \in Nat /\ Len(lines) = N /\ DOMAIN rels = 1..N
      /\ \A i \in 1..N : lines[i] = ForeignKey(rels[i]) /\ rels[i] \in Relationship
  OBVIOUS
<1>2. D(N) = ToSet(rels)
  BY <1>1 DEF ToSet
<1>3. F[0] = Session(g, c) /\ \A n \in 1..N : F[n] = Execute(d, F[n - 1], ForeignKey(rels[n]))
  <2> HIDE DEF lines
  <2>1. Len(lines) \in Nat
    BY <1>1
  <2>2. F[0] = Session(g, c) /\ \A n \in 1..Len(lines) : F[n] = Execute(d, F[n - 1], lines[n])
    BY <2>1, CourseSteps
  <2> HIDE DEF F
  <2> QED
    BY <1>1, <2>2
<1> HIDE DEF F, lines
<1>4. 0 \in P
  <2>1. D(0) = {}
    OBVIOUS
  <2>2. With({}) = g
    BY DEF Db
  <2> HIDE DEF D, With
  <2>3. F[0] = Session(With(D(0)), c)
    BY <1>3, <2>1, <2>2
  <2> QED
    BY <1>1, <2>3
<1>5. ASSUME NEW n \in 0..(N - 1), n \in P PROVE n + 1 \in P
  <2>1. n + 1 \in 1..N /\ n + 1 \in 0..N /\ (n + 1) - 1 = n
    BY <1>1
  <2>2. F[n + 1] = Execute(d, Session(With(D(n)), c), ForeignKey(rels[n + 1]))
    <3> HIDE DEF D, With
    <3> QED
      BY <1>3, <1>5, <2>1
  <2> DEFINE h == With(D(n))
             r == rels[n + 1]
  <2>3. h \in Db /\ h.tables = g.tables /\ h.fks = g.fks \cup D(n)
    BY <1>1 DEF Db
  <2>4. {r.source, r.target} \subseteq h.tables
    BY <1>1, <2>1, <2>3
  <2>5. ASSUME NEW f \in h.fks PROVE ~ (f.source = r.source /\ f.column = r.column)
    <3>1. CASE f \in g.fks
      BY <1>1, <2>1, <3>1
    <3>2. CASE f \in D(n)
      <4>1. PICK i \in 1..n : f = rels[i]
        BY <3>2
      <4>2. i \in DOMAIN rels /\ i # n + 1
        BY <1>1
      <4> QED
        BY <1>1, <2>1, <4>1, <4>2
    <3> QED
      BY <2>3, <2>5, <3>1, <3>2
  <2>6. [h EXCEPT !.fks = h.fks \cup {r}] = With(D(n) \cup {r})
    BY DEF Db
  <2>7. D(n + 1) = D(n) \cup {r}
    <3>1. 1..(n + 1) = 1..n \cup {n + 1}
      BY <1>1
    <3> QED
      BY <3>1
  <2>8. Execute(d, Session(h, c), ForeignKey(r)) = Session([h EXCEPT !.fks = h.fks \cup {r}], c)
    <3> HIDE DEF h, r
    <3> QED
      BY <2>3, <2>4, <2>5, ForeignKeyLine
  <2> HIDE DEF D, With
  <2> QED
    BY <2>1, <2>2, <2>6, <2>7, <2>8
<1>6. N \in P
  <2> HIDE DEF P, N
  <2>1. \A n \in 0..N : n \in P
    BY <1>1, <1>4, <1>5, Induction
  <2> QED
    BY <1>1, <2>1
<1>7. F[N] = Session(With(ToSet(rels)), c)
  <2> HIDE DEF D, With
  <2> QED
    BY <1>2, <1>6
<1>8. Final(d, Session(g, c), lines) = F[N]
  BY <1>1 DEF Final, F
<1> QED
  BY <1>7, <1>8 DEF lines, Referring

\* Lines that make indexes, and what they index.
Indexings  == {Index(r) : r \in Relationship}
Ons(lines) == {lines[i].on : i \in DOMAIN lines}

\* The indexes of tables that are there, none of them twice.
LEMMA IndexesRun ==
  ASSUME NEW d, NEW g \in Db, NEW c, NEW lines \in Seq(Indexings),
         NoRepeat(lines),
         \A i \in DOMAIN lines : lines[i].on[1] \in g.tables /\ lines[i].on \notin g.indexes
  PROVE  Final(d, Session(g, c), lines)
           = Session(Searchable(g, Ons(lines)), c)
<1> DEFINE N == Len(lines)
           D(n) == {lines[i].on : i \in 1..n}
           With(E) == [g EXCEPT !.indexes = g.indexes \cup E]
           F == Course(d, Session(g, c), lines)
           P == {n \in 0..N : F[n] = Session(With(D(n)), c)}
<1>1. N \in Nat /\ DOMAIN lines = 1..N
  OBVIOUS
<1>2. \A i \in 1..N : \E r \in Relationship : lines[i] = Index(r)
  BY <1>1 DEF Indexings
<1>3. \A r \in Relationship : Index(r).on = <<r.source, r.column>> /\ Index(r).on \in Tables \X Columns
  BY DEF Index, Relationship
<1>4. F[0] = Session(g, c) /\ \A n \in 1..N : F[n] = Execute(d, F[n - 1], lines[n])
  BY <1>1, CourseSteps
<1> HIDE DEF F
<1>5. 0 \in P
  <2>1. D(0) = {}
    OBVIOUS
  <2>2. With({}) = g
    BY DEF Db
  <2> HIDE DEF D, With
  <2>3. F[0] = Session(With(D(0)), c)
    BY <1>4, <2>1, <2>2
  <2> QED
    BY <1>1, <2>3
<1>6. ASSUME NEW n \in 0..(N - 1), n \in P PROVE n + 1 \in P
  <2>1. n + 1 \in 1..N /\ n + 1 \in 0..N /\ (n + 1) - 1 = n
    BY <1>1
  <2>2. PICK r \in Relationship : lines[n + 1] = Index(r)
    BY <1>2, <2>1
  <2>3. Index(r).on = <<r.source, r.column>> /\ Index(r).on[1] = r.source
    BY <1>3
  <2>4. F[n + 1] = Execute(d, Session(With(D(n)), c), Index(r))
    <3> HIDE DEF D, With
    <3> QED
      BY <1>4, <1>6, <2>1, <2>2
  <2> DEFINE h == With(D(n))
             x == <<r.source, r.column>>
  <2>5. D(n) \subseteq Tables \X Columns
    <3>1. \A i \in 1..n : i \in 1..N
      BY <1>1
    <3> QED
      BY <1>2, <1>3, <3>1
  <2>6. h \in Db /\ h.tables = g.tables /\ h.indexes = g.indexes \cup D(n)
    BY <2>5 DEF Db
  <2>7. r.source \in h.tables
    BY <1>1, <2>1, <2>2, <2>3, <2>6
  <2>8. x \notin h.indexes
    <3>1. x \notin g.indexes
      BY <1>1, <2>1, <2>2, <2>3
    <3>2. ASSUME x \in D(n) PROVE FALSE
      <4>1. PICK i \in 1..n : x = lines[i].on
        BY <3>2
      <4>2. i \in 1..N /\ i # n + 1
        BY <1>1
      <4>3. PICK q \in Relationship : lines[i] = Index(q)
        BY <1>2, <4>2
      <4>4. Index(q) = Index(r)
        <5>1. <<q.source, q.column>> = <<r.source, r.column>>
          BY <1>3, <4>1, <4>3
        <5> QED
          BY <5>1 DEF Index
      <4> QED
        BY <1>1, <2>1, <2>2, <4>2, <4>3, <4>4 DEF NoRepeat
    <3> QED
      BY <2>6, <3>1, <3>2
  <2>9. Indexed(h, x) = With(D(n) \cup {x})
    BY DEF Db, Indexed
  <2>10. D(n + 1) = D(n) \cup {x}
    <3>1. 1..(n + 1) = 1..n \cup {n + 1}
      BY <1>1
    <3> QED
      BY <2>2, <2>3, <3>1
  <2>11. Execute(d, Session(h, c), Index(r)) = Session(Indexed(h, x), c)
    <3>1. x = <<r.source, r.column>>
      OBVIOUS
    <3> HIDE DEF h, x
    <3> QED
      BY <2>6, <2>7, <2>8, <3>1, IndexLine
  <2> HIDE DEF D, With, x
  <2> QED
    BY <2>1, <2>4, <2>9, <2>10, <2>11
<1>7. N \in P
  <2> HIDE DEF P, N
  <2>1. \A n \in 0..N : n \in P
    BY <1>1, <1>5, <1>6, Induction
  <2> QED
    BY <1>1, <2>1
<1>8. F[N] = Session(With(D(N)), c)
  <2> HIDE DEF D, With
  <2> QED
    BY <1>7
<1>9. Final(d, Session(g, c), lines) = F[N]
  BY DEF Final, F
<1> QED
  BY <1>1, <1>8, <1>9 DEF Searchable, Ons

\* The heading of a section does nothing.
LEMMA SectionRun ==
  ASSUME NEW d, NEW g, NEW c, NEW lines \in Seq(Lines)
  PROVE  /\ Section(lines) \in Seq(Lines)
         /\ Final(d, Session(g, c), Section(lines)) = Final(d, Session(g, c), lines)
<1>1. CASE lines = <<>>
  BY <1>1 DEF Section
<1>2. CASE lines # <<>>
  <2>1. Section(lines) = <<Comment>> \o lines /\ <<Comment>> \in Seq(Lines)
    BY <1>2 DEF Section, Lines, Gentle
  <2>2. Final(d, Session(g, c), <<Comment>>) = Session(g, c)
    BY FinalOne, QuietLines
  <2>3. Final(d, Session(g, c), <<Comment>> \o lines)
          = Final(d, Final(d, Session(g, c), <<Comment>>), lines)
    <3> DEFINE head == <<Comment>>
    <3>1. head \in Seq(Lines)
      BY <2>1
    <3> HIDE DEF head
    <3>2. Final(d, Session(g, c), head \o lines) = Final(d, Final(d, Session(g, c), head), lines)
      BY <3>1, FinalConcat
    <3> QED
      BY <3>2 DEF head
  <2>4. <<Comment>> \o lines \in Seq(Lines)
    BY <2>1, ConcatProperties
  <2> QED
    BY <2>1, <2>2, <2>3, <2>4
<1> QED
  BY <1>1, <1>2

-----------------------------------------------------------------------------
(* Scripts *)

\* What the sort makes of a schema, as far as the scripts depend on it.
Sound(schema) ==
  /\ schema.order \in Seq(Tables) /\ NoRepeat(schema.order)
  /\ schema.rels \in Seq(Relationship)
  /\ \A i \in DOMAIN schema.rels : schema.rels[i].source \in ToSet(schema.order)

\* The foreign keys and indexes that a schema says.
SaidFks(schema) == {r \in ToSet(schema.rels) : r.target \in ToSet(schema.order)}
SaidIndexes(schema) == {<<r.source, r.column>> : r \in ToSet(schema.rels)}

\* The lines of foreign keys are those of the relationships between tables of
\* the schema.
LEMMA FkSection ==
  ASSUME NEW schema, Sound(schema)
  PROVE  \E rels \in Seq(Relationship) :
           /\ FkLines(schema) = [i \in DOMAIN rels |-> ForeignKey(rels[i])]
           /\ ToSet(rels) = SaidFks(schema)
<1> DEFINE rs == schema.rels
           known == {i \in DOMAIN rs : {rs[i].source, rs[i].target} \subseteq ToSet(schema.order)}
           kept == Kept(rs, known)
<1>1. rs \in Seq(Relationship)
  BY DEF Sound
<1>2. kept \in Seq(Relationship) /\ ToSet(kept) = {rs[i] : i \in known \cap DOMAIN rs}
  <2> HIDE DEF rs, known
  <2> QED
    BY <1>1, KeptProperties
<1>3. FkLines(schema) = [i \in DOMAIN kept |-> ForeignKey(kept[i])]
  BY DEF FkLines
<1>4. {rs[i] : i \in known \cap DOMAIN rs} = SaidFks(schema)
  BY DEF SaidFks, Sound, ToSet
<1> HIDE DEF kept
<1> QED
  BY <1>2, <1>3, <1>4

\* Every column of a relationship has its index once.
LEMMA IndexSection ==
  ASSUME NEW schema, Sound(schema)
  PROVE  /\ IndexLines(schema) \in Seq(Indexings)
         /\ NoRepeat(IndexLines(schema))
         /\ Ons(IndexLines(schema)) = SaidIndexes(schema)
<1> DEFINE rs == schema.rels
           S == Indexings
           lines == [i \in DOMAIN rs |-> Index(rs[i])]
           I == {i \in DOMAIN lines : \A k \in 1..(i - 1) : lines[k] # lines[i]}
           kept == Kept(lines, I)
<1>1. /\ rs \in Seq(Relationship) /\ Len(rs) \in Nat /\ DOMAIN rs = 1..Len(rs)
      /\ \A i \in DOMAIN rs : rs[i] \in Relationship
  BY DEF Sound
<1>2. lines \in Seq(S) /\ DOMAIN lines = 1..Len(rs) /\ \A i \in 1..Len(rs) : lines[i] = Index(rs[i])
  BY <1>1 DEF Indexings
<1>3. IndexLines(schema) = kept
  BY DEF IndexLines
<1>4. /\ kept \in Seq(S) /\ ToSet(kept) = {lines[i] : i \in I \cap DOMAIN lines}
      /\ (\A i, k \in I \cap DOMAIN lines : lines[i] = lines[k] => i = k) => NoRepeat(kept)
  <2> HIDE DEF lines, I, S
  <2> QED
    BY <1>2, KeptProperties
<1> HIDE DEF kept, lines, S
<1>5. ASSUME NEW i \in I, NEW k \in I, lines[i] = lines[k] PROVE i = k
  <2>1. i \in 1..Len(rs) /\ k \in 1..Len(rs)
    BY <1>2
  <2>2. ~ (i < k) /\ ~ (k < i)
    <3>1. i < k => i \in 1..(k - 1)
      BY <1>1, <2>1
    <3>2. k < i => k \in 1..(i - 1)
      BY <1>1, <2>1
    <3> QED
      BY <1>5, <3>1, <3>2
  <2> QED
    BY <1>1, <2>1, <2>2
<1>6. NoRepeat(kept)
  BY <1>4, <1>5
<1>7. ASSUME NEW i \in DOMAIN lines PROVE \E k \in I : lines[k] = lines[i]
  <2> DEFINE T == {k \in DOMAIN lines : lines[k] = lines[i]}
  <2>1. T \subseteq Nat /\ T # {}
    BY <1>1, <1>2
  <2>2. PICK k \in T : \A m \in T : k <= m
    <3> HIDE DEF T
    <3> QED
      BY <2>1, LeastNumber
  <2>3. ASSUME NEW m \in 1..(k - 1) PROVE lines[m] # lines[k]
    <3>1. m \in DOMAIN lines /\ ~ (k <= m)
      BY <1>1, <1>2
    <3> QED
      BY <2>2, <3>1
  <2> QED
    BY <2>2, <2>3
<1>8. ToSet(kept) = {Index(rs[i]) : i \in DOMAIN rs}
  <2>1. I \cap DOMAIN lines = I /\ \A i \in I : i \in DOMAIN lines
    BY <1>2
  <2> HIDE DEF I
  <2>2. ToSet(kept) = {lines[i] : i \in DOMAIN lines}
    BY <1>4, <1>7, <2>1
  <2> QED
    BY <1>1, <1>2, <2>2
<1>9. {kept[i].on : i \in DOMAIN kept} = {x.on : x \in ToSet(kept)}
  BY DEF ToSet
<1>10. {x.on : x \in ToSet(kept)} = {Index(rs[i]).on : i \in DOMAIN rs}
  BY <1>8
<1>11. {Index(rs[i]).on : i \in DOMAIN rs} = SaidIndexes(schema)
  BY DEF SaidIndexes, ToSet, Index
<1> QED
  BY <1>3, <1>4, <1>6, <1>9, <1>10, <1>11 DEF S, Ons

\* Lines one after the other are lines.
LEMMA LinesConcat ==
  ASSUME NEW d, NEW s, NEW a \in Seq(Lines), NEW b \in Seq(Lines)
  PROVE  /\ a \o b \in Seq(Lines)
         /\ Final(d, s, a \o b) = Final(d, Final(d, s, a), b)
<1>1. a \o b \in Seq(Lines)
  BY ConcatProperties
<1>2. Final(d, s, a \o b) = Final(d, Final(d, s, a), b)
  BY FinalConcat
<1> QED
  BY <1>1, <1>2

\* A comment, or a change of the checks, by itself.
LEMMA QuietOnes ==
  ASSUME NEW d, NEW g, NEW c, NEW on \in BOOLEAN
  PROVE  /\ <<Comment>> \in Seq(Lines) /\ <<Checks(on)>> \in Seq(Lines)
         /\ Final(d, Session(g, c), <<Comment>>) = Session(g, c)
         /\ Final(d, Session(g, c), <<Checks(on)>>) = Session(g, on)
<1>1. <<Comment>> \in Seq(Lines) /\ <<Checks(on)>> \in Seq(Lines)
  <2>1. Comment \in Lines /\ Checks(on) \in Lines
    BY DEF Lines, Gentle
  <2> QED
    BY <2>1
<1>2. Final(d, Session(g, c), <<Comment>>) = Session(g, c)
  BY FinalOne, QuietLines
<1>3. Final(d, Session(g, c), <<Checks(on)>>) = Session(g, on)
  BY FinalOne, QuietLines
<1> QED
  BY <1>1, <1>2, <1>3

\* Two lines are one after the other.
LEMMA TwoLines ==
  ASSUME NEW a, NEW b PROVE <<a, b>> = <<a>> \o <<b>>
<1> DEFINE S == {a, b}
           x == <<a>>
           y == <<b>>
           z == <<a, b>>
<1>1. /\ x \in Seq(S) /\ y \in Seq(S) /\ z \in Seq(S) /\ Len(x) = 1 /\ Len(y) = 1 /\ Len(z) = 2
      /\ x[1] = a /\ y[1] = b /\ z[1] = a /\ z[2] = b
  OBVIOUS
<1> HIDE DEF x, y, z, S
<1>2. /\ x \o y \in Seq(S) /\ Len(x \o y) = 2
      /\ (x \o y)[1] = a /\ (x \o y)[2] = b
  BY <1>1, ConcatProperties
<1>3. z = x \o y
  BY <1>1, <1>2, SeqEqual
<1> QED
  BY <1>3 DEF x, y, z

\* A drop phase is made of lines, and leaves nothing of the tables.
LEMMA DropPhaseRun ==
  ASSUME NEW d \in Dialect, NEW g \in Db, NEW schema, Sound(schema)
  PROVE  /\ DropPhase(d, schema, "replace") \in Seq(Lines)
         /\ Final(d, Session(g, TRUE), DropPhase(d, schema, "replace"))
              = Session(Without(d, g, ToSet(schema.order)), TRUE)
<1> DEFINE order == schema.order
           drops == [i \in DOMAIN order |-> Drop(Reverse(order)[i])]
           off == <<Checks(FALSE)>>
           on == <<Checks(TRUE)>>
           head == <<Comment>>
           less == Without(d, g, ToSet(order))
<1>1. order \in Seq(Tables)
  BY DEF Sound
<1>2. drops \in Seq(Lines)
  <2>1. /\ DOMAIN order = 1..Len(order) /\ Len(order) \in Nat
        /\ \A i \in 1..Len(order) : Reverse(order)[i] = order[(Len(order) - i) + 1]
    BY <1>1 DEF Reverse
  <2>2. \A i \in 1..Len(order) : (Len(order) - i) + 1 \in 1..Len(order)
    BY <2>1
  <2>3. \A i \in 1..Len(order) : Reverse(order)[i] \in Tables
    BY <1>1, <2>1, <2>2
  <2>4. \A i \in 1..Len(order) : Drop(Reverse(order)[i]) \in Lines
    BY <2>3 DEF Lines
  <2> QED
    BY <2>1, <2>4
<1>3. /\ off \in Seq(Lines) /\ on \in Seq(Lines) /\ head \in Seq(Lines)
      /\ Final(d, Session(g, TRUE), off) = Session(g, FALSE)
      /\ Final(d, Session(g, TRUE), head) = Session(g, TRUE)
      /\ Final(d, Session(g, FALSE), head) = Session(g, FALSE)
      /\ Final(d, Session(less, FALSE), on) = Session(less, TRUE)
  <2> HIDE DEF less
  <2> QED
    BY QuietOnes
<1>4. ASSUME NEW c, d = "mysql" => c = FALSE
      PROVE  Final(d, Session(g, c), drops) = Session(less, c)
  BY <1>1, <1>4, DropsRun
<1> DEFINE begun == Session(g, TRUE)
           unchecked == Session(g, FALSE)
           bare == Session(less, FALSE)
           end == Session(less, TRUE)
<1>5. CASE d = "postgresql"
  <2>1. DropPhase(d, schema, "replace") = head \o drops
    BY <1>5 DEF DropPhase
  <2>2. Final(d, begun, drops) = end
    BY <1>4, <1>5
  <2>3. Final(d, begun, head) = begun
    BY <1>3
  <2> HIDE DEF drops, head, begun, end
  <2>4. head \o drops \in Seq(Lines) /\ Final(d, begun, head \o drops) = end
    BY <1>2, <1>3, <2>2, <2>3, LinesConcat
  <2> QED
    BY <2>1, <2>4 DEF begun, end
<1>6. CASE d = "mysql"
  <2>1. DropPhase(d, schema, "replace") = ((off \o head) \o drops) \o on
    <3>1. <<Checks(FALSE), Comment>> = off \o head
      BY TwoLines
    <3> QED
      BY <1>6, <3>1 DEF DropPhase
  <2>2. Final(d, unchecked, drops) = bare
    BY <1>4
  <2>3. /\ Final(d, begun, off) = unchecked /\ Final(d, unchecked, head) = unchecked
        /\ Final(d, bare, on) = end
    BY <1>3
  <2> HIDE DEF drops, head, off, on, begun, unchecked, bare, end
  <2> DEFINE first == off \o head
             second == first \o drops
  <2>4. first \in Seq(Lines) /\ Final(d, begun, first) = unchecked
    BY <1>3, <2>3, LinesConcat
  <2> HIDE DEF first
  <2>5. second \in Seq(Lines) /\ Final(d, begun, second) = bare
    BY <1>2, <2>2, <2>4, LinesConcat
  <2> HIDE DEF second
  <2>6. second \o on \in Seq(Lines) /\ Final(d, begun, second \o on) = end
    BY <1>3, <2>3, <2>5, LinesConcat
  <2> QED
    BY <2>1, <2>6 DEF begun, end, first, second
<1> QED
  BY <1>5, <1>6 DEF Dialect

\* Gentle lines are lines.
LEMMA GentleLines ==
  ASSUME NEW lines \in Seq(Gentle) PROVE lines \in Seq(Lines)
<1>1. Gentle \subseteq Lines
  BY DEF Lines
<1> QED
  BY <1>1

\* They are lines.
LEMMA CreatesLines ==
  ASSUME NEW order \in Seq(Tables), NEW m \in Mode
  PROVE  Creates(order, m) \in Seq(Gentle)
<1> DEFINE N == 2 * Len(order)
           line(i) == IF i % 2 = 1 THEN Comment ELSE CreateTable(order[i \div 2], m)
<1>1. Len(order) \in Nat /\ N \in Nat /\ \A k \in 1..Len(order) : order[k] \in Tables
  OBVIOUS
<1>2. ASSUME NEW i \in 1..N PROVE line(i) \in Gentle
  <2>1. CASE i % 2 = 1
    BY <2>1 DEF Gentle
  <2>2. CASE i % 2 # 1
    <3>1. i \div 2 \in 1..Len(order)
      BY <1>1, <2>2
    <3> QED
      BY <1>1, <2>2, <3>1 DEF Gentle
  <2> QED
    BY <2>1, <2>2
<1>3. Creates(order, m) = [i \in 1..N |-> line(i)]
  BY DEF Creates
<1> HIDE DEF N, line
<1> QED
  BY <1>1, <1>2, <1>3

\* A create phase is made of lines, and makes the tables, if there is none of them.
LEMMA CreatePhaseRun ==
  ASSUME NEW d, NEW g \in Db, NEW c, NEW m \in Mode, NEW schema, Sound(schema)
  PROVE  /\ CreatePhase(schema, m) \in Seq(Gentle) /\ CreatePhase(schema, m) \in Seq(Lines)
         /\ ToSet(schema.order) \cap g.tables = {} =>
              Final(d, Session(g, c), CreatePhase(schema, m))
                = Session(Created(g, ToSet(schema.order)), c)
<1> DEFINE order == schema.order
           lines == Creates(order, m)
           head == <<Comment>>
           s == Session(g, c)
           e == Session(Created(g, ToSet(order)), c)
<1>1. order \in Seq(Tables) /\ NoRepeat(order)
  BY DEF Sound
<1>2. lines \in Seq(Gentle) /\ lines \in Seq(Lines)
  <2>1. lines \in Seq(Gentle)
    BY <1>1, CreatesLines
  <2> HIDE DEF lines
  <2> QED
    BY <2>1, GentleLines
<1>3. CreatePhase(schema, m) = head \o lines
  BY DEF CreatePhase, Creates
<1>4. head \in Seq(Gentle) /\ head \in Seq(Lines) /\ Final(d, s, head) = s
  <2>1. Comment \in Gentle
    BY DEF Gentle
  <2>2. head \in Seq(Gentle)
    BY <2>1
  <2> QED
    BY <2>2, QuietOnes
<1>5. head \o lines \in Seq(Gentle) /\ head \o lines \in Seq(Lines)
  <2> HIDE DEF head, lines
  <2> QED
    BY <1>2, <1>4, ConcatProperties
<1>6. ASSUME ToSet(order) \cap g.tables = {} PROVE Final(d, s, head \o lines) = e
  <2>1. Final(d, s, lines) = e
    <3> HIDE DEF order
    <3> QED
      BY <1>1, <1>6, CreatesRun
  <2> HIDE DEF head, lines, s, e
  <2> QED
    BY <1>2, <1>4, <2>1, LinesConcat
<1> HIDE DEF head, lines
<1> QED
  BY <1>3, <1>5, <1>6 DEF s, e

\* The headings of gentle lines are gentle.
LEMMA SectionGentle ==
  ASSUME NEW lines \in Seq(Gentle) PROVE Section(lines) \in Seq(Gentle)
<1>1. Comment \in Gentle
  BY DEF Gentle
<1> DEFINE head == <<Comment>>
<1>2. head \in Seq(Gentle)
  BY <1>1
<1>3. Section(lines) = <<>> \/ Section(lines) = head \o lines
  BY DEF Section
<1> HIDE DEF head
<1> QED
  BY <1>2, <1>3, ConcatProperties, EmptySeq

\* The foreign keys and indexes of a schema are such lines.
LEMMA SectionsLines ==
  ASSUME NEW schema, Sound(schema)
  PROVE  /\ FkLines(schema) \in Seq(Lines) /\ IndexLines(schema) \in Seq(Lines)
         /\ Section(FkLines(schema)) \in Seq(Gentle) /\ Section(IndexLines(schema)) \in Seq(Gentle)
         /\ Section(FkLines(schema)) \in Seq(Lines) /\ Section(IndexLines(schema)) \in Seq(Lines)
<1>1. PICK rels \in Seq(Relationship) : FkLines(schema) = [i \in DOMAIN rels |-> ForeignKey(rels[i])]
  BY FkSection
<1>2. /\ DOMAIN rels = 1..Len(rels) /\ Len(rels) \in Nat
      /\ \A i \in 1..Len(rels) : ForeignKey(rels[i]) \in Gentle
  BY DEF Gentle
<1>3. FkLines(schema) \in Seq(Gentle)
  BY <1>1, <1>2
<1>4. IndexLines(schema) \in Seq(Gentle)
  <2>1. Indexings \subseteq Gentle
    BY DEF Gentle, Indexings
  <2>2. IndexLines(schema) \in Seq(Indexings)
    BY IndexSection
  <2> QED
    BY <2>1, <2>2
<1> QED
  BY <1>3, <1>4, SectionGentle, GentleLines

\* What the script of mode replace makes of a database: the schema's tables are
\* made anew, with the foreign keys and indexes it says, and the others stay.
Replaced(d, g, schema) ==
  LET T    == ToSet(schema.order)
      less == Without(d, g, T)
  IN  [tables  |-> less.tables \cup T,
       fks     |-> less.fks \cup SaidFks(schema),
       indexes |-> less.indexes \cup SaidIndexes(schema)]

\* The parts of such databases.
LEMMA MoreOf ==
  ASSUME NEW g \in Db, NEW E
  PROVE  /\ /\ E \subseteq Tables => Created(g, E) \in Db
            /\ Created(g, E).tables = g.tables \cup E
            /\ Created(g, E).fks = g.fks /\ Created(g, E).indexes = g.indexes
         /\ /\ E \subseteq Relationship => Referring(g, E) \in Db
            /\ Referring(g, E).fks = g.fks \cup E
            /\ Referring(g, E).tables = g.tables /\ Referring(g, E).indexes = g.indexes
         /\ /\ E \subseteq Tables \X Columns => Searchable(g, E) \in Db
            /\ Searchable(g, E).indexes = g.indexes \cup E
            /\ Searchable(g, E).tables = g.tables /\ Searchable(g, E).fks = g.fks
<1>1. /\ E \subseteq Tables => Created(g, E) \in Db
      /\ Created(g, E).tables = g.tables \cup E
      /\ Created(g, E).fks = g.fks /\ Created(g, E).indexes = g.indexes
  BY DEF Db, Created
<1>2. /\ E \subseteq Relationship => Referring(g, E) \in Db
      /\ Referring(g, E).fks = g.fks \cup E
      /\ Referring(g, E).tables = g.tables /\ Referring(g, E).indexes = g.indexes
  BY DEF Db, Referring
<1>3. /\ E \subseteq Tables \X Columns => Searchable(g, E) \in Db
      /\ Searchable(g, E).indexes = g.indexes \cup E
      /\ Searchable(g, E).tables = g.tables /\ Searchable(g, E).fks = g.fks
  BY DEF Db, Searchable
<1> QED
  BY <1>1, <1>2, <1>3

\* What is left without some tables is a database, and has nothing of these.
LEMMA WithoutParts ==
  ASSUME NEW d, NEW g \in Db, NEW D
  PROVE  /\ Without(d, g, D) \in Db
         /\ Without(d, g, D).tables = g.tables \ D
         /\ \A f \in Without(d, g, D).fks : f \in g.fks /\ f.source \notin D
         /\ \A x \in Without(d, g, D).indexes : x \in g.indexes /\ x[1] \notin D
BY DEF Without, Db

\* The script of mode replace runs to its end, from any database to the one it says.
LEMMA ReplaceRun ==
  ASSUME NEW d \in Dialect, NEW g \in Db, NEW schema, Sound(schema), NamesDistinct(schema)
  PROVE  Run(d, g, Build(d, schema, "replace")) = Session(Replaced(d, g, schema), TRUE)
<1>0. SUFFICES ASSUME NEW c, c = TRUE
               PROVE  Run(d, g, Build(d, schema, "replace")) = Session(Replaced(d, g, schema), c)
  OBVIOUS
<1> DEFINE T == ToSet(schema.order)
           g1 == Without(d, g, T)
           g2 == Created(g1, T)
           g3 == Referring(g2, SaidFks(schema))
           g4 == Searchable(g3, SaidIndexes(schema))
           head == <<Comment>>
           drops == DropPhase(d, schema, "replace")
           creates == CreatePhase(schema, "replace")
           refers == FkLines(schema)
           indexes == IndexLines(schema)
           s0 == Session(g, c)
           s1 == Session(g1, c)
           s2 == Session(g2, c)
           s3 == Session(g3, c)
           s4 == Session(g4, c)
<1>1. /\ T \subseteq Tables /\ SaidFks(schema) \subseteq Relationship
      /\ SaidIndexes(schema) \subseteq Tables \X Columns
  <2>1. T \subseteq Tables
    BY DEF Sound, ToSet
  <2>2. ToSet(schema.rels) \subseteq Relationship
    BY DEF Sound, ToSet
  <2> QED
    BY <2>1, <2>2 DEF SaidFks, SaidIndexes, Relationship
<1>2. /\ g1 \in Db /\ g1.tables = g.tables \ T
      /\ \A f \in g1.fks : f.source \notin T
      /\ \A x \in g1.indexes : x[1] \notin T
  BY WithoutParts
<1>3. /\ g2 \in Db /\ g3 \in Db
      /\ g2.tables = g1.tables \cup T /\ g3.tables = g2.tables
      /\ g2.fks = g1.fks /\ g3.indexes = g1.indexes
      /\ g4 = Replaced(d, g, schema)
  <2> HIDE DEF g1
  <2>1. /\ g2 \in Db /\ g2.tables = g1.tables \cup T
        /\ g2.fks = g1.fks /\ g2.indexes = g1.indexes
    BY <1>1, <1>2, MoreOf
  <2> HIDE DEF g2
  <2>2. /\ g3 \in Db /\ g3.tables = g2.tables /\ g3.indexes = g2.indexes
        /\ g3.fks = g2.fks \cup SaidFks(schema)
    BY <1>1, <2>1, MoreOf
  <2> HIDE DEF g3
  <2>3. /\ g4 \in Db /\ g4.tables = g3.tables /\ g4.fks = g3.fks
        /\ g4.indexes = g3.indexes \cup SaidIndexes(schema)
    BY <1>1, <2>2, MoreOf
  <2> HIDE DEF g4
  <2>4. g4 = [tables |-> g4.tables, fks |-> g4.fks, indexes |-> g4.indexes]
    BY <2>3 DEF Db
  <2> QED
    BY <2>1, <2>2, <2>3, <2>4 DEF Replaced, g1
<1>4. \A r \in ToSet(schema.rels) : r.source \in T
  BY DEF Sound, ToSet
<1>5. head \in Seq(Lines) /\ Final(d, s0, head) = s0
  BY QuietOnes
<1>6. drops \in Seq(Lines) /\ Final(d, s0, drops) = s1
  BY <1>0, DropPhaseRun
<1>7. creates \in Seq(Lines) /\ Final(d, s1, creates) = s2
  <2>1. T \cap g1.tables = {} /\ "replace" \in Mode
    BY <1>2 DEF Mode
  <2> HIDE DEF g1
  <2> QED
    BY <1>2, <2>1, CreatePhaseRun
<1>8. /\ Section(refers) \in Seq(Lines) /\ Section(indexes) \in Seq(Lines)
      /\ refers \in Seq(Lines) /\ indexes \in Seq(Lines)
  BY SectionsLines
<1>9. Final(d, s2, refers) = s3
  <2>1. PICK rels \in Seq(Relationship) :
          refers = [i \in DOMAIN rels |-> ForeignKey(rels[i])] /\ ToSet(rels) = SaidFks(schema)
    BY FkSection
  <2>2. \A i \in DOMAIN rels : rels[i] \in SaidFks(schema)
    BY <2>1 DEF ToSet
  <2>3. \A i \in DOMAIN rels : rels[i].source \in T /\ rels[i].target \in T
    BY <1>4, <2>2 DEF SaidFks
  <2>4. \A i, k \in DOMAIN rels :
          rels[i].source = rels[k].source /\ rels[i].column = rels[k].column => i = k
    BY <2>1 DEF NamesDistinct, ForeignKey
  <2>5. \A i \in DOMAIN rels : {rels[i].source, rels[i].target} \subseteq g2.tables
    BY <1>2, <1>3, <2>3
  <2>6. \A i \in DOMAIN rels : \A f \in g2.fks :
          ~ (f.source = rels[i].source /\ f.column = rels[i].column)
    BY <1>2, <1>3, <2>3
  <2> HIDE DEF g2, T
  <2>7. Final(d, s2, [i \in DOMAIN rels |-> ForeignKey(rels[i])]) = Session(Referring(g2, ToSet(rels)), c)
    BY <1>3, <2>4, <2>5, <2>6, ForeignKeysRun
  <2> QED
    BY <2>1, <2>7
<1>10. Final(d, s3, indexes) = s4
  <2>1. indexes \in Seq(Indexings) /\ NoRepeat(indexes) /\ Ons(indexes) = SaidIndexes(schema)
    BY IndexSection
  <2>2. \A x \in SaidIndexes(schema) : x[1] \in T
    BY <1>4 DEF SaidIndexes
  <2>3. \A i \in DOMAIN indexes : indexes[i].on \in SaidIndexes(schema)
    BY <2>1 DEF Ons
  <2>4. \A i \in DOMAIN indexes : indexes[i].on[1] \in g3.tables /\ indexes[i].on \notin g3.indexes
    BY <1>2, <1>3, <2>2, <2>3
  <2> HIDE DEF g3, indexes
  <2>5. Final(d, s3, indexes) = Session(Searchable(g3, Ons(indexes)), c)
    BY <1>3, <2>1, <2>4, IndexesRun
  <2> QED
    BY <2>1, <2>5
<1>11. Final(d, s2, Section(refers)) = s3 /\ Final(d, s3, Section(indexes)) = s4
  <2> HIDE DEF g2, g3, g4, refers, indexes
  <2>1. Final(d, s2, Section(refers)) = Final(d, s2, refers)
    BY <1>8, SectionRun
  <2>2. Final(d, s3, Section(indexes)) = Final(d, s3, indexes)
    BY <1>8, SectionRun
  <2> QED
    BY <1>9, <1>10, <2>1, <2>2
<1>12. Build(d, schema, "replace")
         = (((head \o drops) \o creates) \o Section(refers)) \o Section(indexes)
  BY DEF Build
<1>13. Final(d, s0, (((head \o drops) \o creates) \o Section(refers)) \o Section(indexes)) = s4
  <2> DEFINE a1 == head \o drops
             a2 == a1 \o creates
             a3 == a2 \o Section(refers)
             a4 == a3 \o Section(indexes)
  <2> HIDE DEF head, drops, creates, refers, indexes, s0, s1, s2, s3, s4
  <2>1. a1 \in Seq(Lines) /\ Final(d, s0, a1) = s1
    BY <1>5, <1>6, LinesConcat
  <2> HIDE DEF a1
  <2>2. a2 \in Seq(Lines) /\ Final(d, s0, a2) = s2
    BY <1>7, <2>1, LinesConcat
  <2> HIDE DEF a2
  <2>3. a3 \in Seq(Lines) /\ Final(d, s0, a3) = s3
    BY <1>8, <1>11, <2>2, LinesConcat
  <2> HIDE DEF a3
  <2>4. a4 \in Seq(Lines) /\ Final(d, s0, a4) = s4
    BY <1>8, <1>11, <2>3, LinesConcat
  <2> QED
    BY <2>4 DEF a1, a2, a3
<1>14. Run(d, g, Build(d, schema, "replace")) = Final(d, s0, Build(d, schema, "replace"))
  BY <1>0, RunFinal
<1> HIDE DEF g4
<1> QED
  BY <1>3, <1>12, <1>13, <1>14

\* Scripts are made of lines, and those of mode safe of gentle ones.
LEMMA BuildLines ==
  ASSUME NEW d \in Dialect, NEW m \in Mode, NEW schema, Sound(schema)
  PROVE  /\ Build(d, schema, m) \in Seq(Lines)
         /\ m = "safe" => Build(d, schema, m) \in Seq(Gentle)
<1> DEFINE head == <<Comment>>
           drops == DropPhase(d, schema, m)
           creates == CreatePhase(schema, m)
           refers == Section(FkLines(schema))
           indexes == Section(IndexLines(schema))
           g == [tables |-> {}, fks |-> {}, indexes |-> {}]
<1>1. head \in Seq(Gentle) /\ head \in Seq(Lines)
  <2>1. Comment \in Gentle
    BY DEF Gentle
  <2>2. head \in Seq(Gentle)
    BY <2>1
  <2> HIDE DEF head
  <2> QED
    BY <2>2, GentleLines
<1>2. /\ creates \in Seq(Gentle) /\ creates \in Seq(Lines)
      /\ refers \in Seq(Gentle) /\ refers \in Seq(Lines)
      /\ indexes \in Seq(Gentle) /\ indexes \in Seq(Lines)
  <2>1. g \in Db
    BY DEF Db
  <2> HIDE DEF g
  <2>2. \A c : creates \in Seq(Gentle) /\ creates \in Seq(Lines)
    BY <2>1, CreatePhaseRun
  <2> QED
    BY <2>2, SectionsLines
<1>3. /\ m = "safe" => drops = <<>>
      /\ m = "replace" => drops \in Seq(Lines)
  <2>1. g \in Db
    BY DEF Db
  <2> HIDE DEF g
  <2>2. m = "replace" => drops \in Seq(Lines)
    BY <2>1, DropPhaseRun
  <2> QED
    BY <2>2 DEF DropPhase
<1>4. Build(d, schema, m) = (((head \o drops) \o creates) \o refers) \o indexes
  BY DEF Build
<1>5. \A S : <<>> \in Seq(S)
  BY EmptySeq
<1> HIDE DEF head, drops, creates, refers, indexes
<1>6. drops \in Seq(Lines) /\ (m = "safe" => drops \in Seq(Gentle))
  BY <1>3, <1>5 DEF Mode
<1>7. \A S : \A a, b \in Seq(S) : a \o b \in Seq(S)
  BY ConcatProperties
<1>8. Build(d, schema, m) \in Seq(Lines)
  <2>1. head \o drops \in Seq(Lines)
    BY <1>1, <1>6, <1>7
  <2>2. (head \o drops) \o creates \in Seq(Lines)
    BY <1>2, <1>7, <2>1
  <2>3. ((head \o drops) \o creates) \o refers \in Seq(Lines)
    BY <1>2, <1>7, <2>2
  <2> QED
    BY <1>2, <1>4, <1>7, <2>3
<1>9. ASSUME m = "safe" PROVE Build(d, schema, m) \in Seq(Gentle)
  <2>1. head \o drops \in Seq(Gentle)
    BY <1>1, <1>6, <1>7, <1>9
  <2>2. (head \o drops) \o creates \in Seq(Gentle)
    BY <1>2, <1>7, <2>1
  <2>3. ((head \o drops) \o creates) \o refers \in Seq(Gentle)
    BY <1>2, <1>7, <2>2
  <2> QED
    BY <1>2, <1>4, <1>7, <2>3
<1> QED
  BY <1>8, <1>9

\* What the driver sends of them too.
LEMMA SentLines ==
  ASSUME NEW d, NEW S, NEW script \in Seq(S)
  PROVE  Sent(d, script) \in Seq(S)
<1> DEFINE I1 == {i \in DOMAIN script : IsStatement(script[i])}
           led(i) == i > 1 => IsStatement(script[i - 1])
           I2 == {i \in DOMAIN script : IsStatement(script[i]) /\ led(i)}
<1>1. Sent(d, script) = Kept(script, I1) \/ Sent(d, script) = Kept(script, I2)
  BY DEF Sent, Statements
<1> HIDE DEF I1, I2
<1> QED
  BY <1>1, KeptProperties

\* A database that has all that another has.
Holds(h, g) == g.tables \subseteq h.tables /\ g.fks \subseteq h.fks /\ g.indexes \subseteq h.indexes

\* A line makes a database of a database, and a gentle one takes nothing away.
LEMMA AfterLine ==
  ASSUME NEW d, NEW g \in Db, NEW line \in Lines
  PROVE  /\ After(d, g, line) \in Db
         /\ line \in Gentle => Holds(After(d, g, line), g)
<1>1. CASE line = Comment \/ \E on \in BOOLEAN : line = Checks(on)
  <2>1. After(d, g, line) = g
    BY <1>1 DEF After, Comment, Checks
  <2> QED
    BY <2>1 DEF Holds
<1>2. ASSUME NEW t \in Tables, NEW m \in Mode, line = CreateTable(t, m)
      PROVE  After(d, g, line) \in Db /\ Holds(After(d, g, line), g)
  <2>1. After(d, g, line) = Created(g, {t})
    BY <1>2 DEF After, CreateTable, Created
  <2> QED
    BY <2>1, MoreOf DEF Holds
<1>3. ASSUME NEW r \in Relationship, line = ForeignKey(r)
      PROVE  After(d, g, line) \in Db /\ Holds(After(d, g, line), g)
  <2>1. After(d, g, line) = Referring(g, {r})
    BY <1>3 DEF After, ForeignKey, Referring
  <2> QED
    BY <2>1, MoreOf DEF Holds
<1>4. ASSUME NEW r \in Relationship, line = Index(r)
      PROVE  After(d, g, line) \in Db /\ Holds(After(d, g, line), g)
  <2> DEFINE x == <<r.source, r.column>>
  <2>1. After(d, g, line) = Searchable(g, {x})
    BY <1>4 DEF After, Index, Searchable
  <2>2. x \in Tables \X Columns
    BY DEF Relationship
  <2> HIDE DEF x
  <2> QED
    BY <2>1, <2>2, MoreOf DEF Holds
<1>5. ASSUME NEW t \in Tables, line = Drop(t)
      PROVE  After(d, g, line) \in Db /\ line \notin Gentle
  <2>1. After(d, g, line) \in Db
    BY <1>5 DEF After, Drop, Db
  <2>2. line \notin Gentle
    <3>1. line.kind = "drop"
      BY <1>5 DEF Drop
    <3>2. Comment.kind # "drop"
      BY DEF Comment
    <3>3. \A on : Checks(on).kind # "drop"
      BY DEF Checks
    <3>4. \A u, m : CreateTable(u, m).kind # "drop"
      BY DEF CreateTable
    <3>5. \A r : ForeignKey(r).kind # "drop" /\ Index(r).kind # "drop"
      BY DEF ForeignKey, Index
    <3> QED
      BY <3>1, <3>2, <3>3, <3>4, <3>5 DEF Gentle
  <2> QED
    BY <2>1, <2>2
<1> QED
  BY <1>1, <1>2, <1>3, <1>4, <1>5 DEF Lines, Gentle

\* So does a script, as far as it comes.
LEMMA RunKeeps ==
  ASSUME NEW d, NEW g \in Db, NEW lines \in Seq(Lines)
  PROVE  /\ Run(d, g, lines).db \in Db
         /\ lines \in Seq(Gentle) => Holds(Run(d, g, lines).db, g)
<1> DEFINE N == Len(lines)
           F == Course(d, Session(g, TRUE), lines)
           P == {n \in 0..N : F[n].db \in Db /\ (lines \in Seq(Gentle) => Holds(F[n].db, g))}
<1>1. N \in Nat /\ DOMAIN lines = 1..N /\ \A i \in 1..N : lines[i] \in Lines
  OBVIOUS
<1>2. F[0] = Session(g, TRUE) /\ \A n \in 1..N : F[n] = Execute(d, F[n - 1], lines[n])
  <2> DEFINE s == Session(g, TRUE)
  <2> HIDE DEF s
  <2>1. /\ Course(d, s, lines)[0] = s
        /\ \A n \in 1..N : Course(d, s, lines)[n] = Execute(d, Course(d, s, lines)[n - 1], lines[n])
    BY <1>1, CourseSteps
  <2> QED
    BY <2>1 DEF s
<1> HIDE DEF F
<1>3. 0 \in P
  <2>1. F[0].db = g
    BY <1>2 DEF Session
  <2> QED
    BY <1>1, <2>1 DEF Holds
<1>4. ASSUME NEW n \in 0..(N - 1), n \in P PROVE n + 1 \in P
  <2>1. n + 1 \in 1..N /\ n + 1 \in 0..N /\ (n + 1) - 1 = n
    BY <1>1
  <2>2. F[n + 1] = Execute(d, F[n], lines[n + 1]) /\ lines[n + 1] \in Lines
    BY <1>1, <1>2, <2>1
  <2>3. F[n + 1].db = F[n].db \/ F[n + 1].db = After(d, F[n].db, lines[n + 1])
    <3>1. CASE F[n + 1] = [F[n] EXCEPT !.failed = TRUE]
      BY <3>1
    <3>2. CASE F[n + 1].db = After(d, F[n].db, lines[n + 1])
      BY <3>2
    <3> QED
      BY <2>2, <3>1, <3>2 DEF Execute
  <2>4. F[n].db \in Db /\ (lines \in Seq(Gentle) => Holds(F[n].db, g))
    BY <1>4
  <2>5. /\ After(d, F[n].db, lines[n + 1]) \in Db
        /\ lines[n + 1] \in Gentle => Holds(After(d, F[n].db, lines[n + 1]), F[n].db)
    BY <2>2, <2>4, AfterLine
  <2>6. lines \in Seq(Gentle) => lines[n + 1] \in Gentle
    BY <2>1
  <2>7. \A h, k : Holds(h, k) /\ Holds(k, g) => Holds(h, g)
    BY DEF Holds
  <2> QED
    BY <2>1, <2>3, <2>4, <2>5, <2>6, <2>7
<1>5. N \in P
  <2> HIDE DEF P, N
  <2>1. \A n \in 0..N : n \in P
    BY <1>1, <1>3, <1>4, Induction
  <2> QED
    BY <1>1, <2>1
<1>6. Run(d, g, lines) = F[N]
  BY DEF Run, Session, F
<1> QED
  BY <1>5, <1>6

\* Listing a finite set gives each element one place.
LEMMA Listing ==
  ASSUME NEW S, IsFiniteSet(S), NEW q \in SetToSeqs(S)
  PROVE  q \in Seq(S) /\ ToSet(q) = S /\ NoRepeat(q)
<1> DEFINE n == Cardinality(S)
<1>0. n \in Nat
  BY FS_CardinalityType
<1>1. q \in [1..n -> S] /\ \A i, j \in 1..n : i # j => q[i] # q[j]
  BY DEF SetToSeqs
<1>2. q \in Injection(1..n, S)
  BY <1>1 DEF Injection, IsInjective
<1>3. IsFiniteSet(1..n) /\ Cardinality(1..n) = n
  BY <1>0, FS_Interval
<1>4. q \in Surjection(1..n, S)
  BY <1>2, <1>3, FS_Injection
<1> QED
  BY <1>0, <1>1, <1>4 DEF Surjection, ToSet, NoRepeat

\* The schemas that requests bring are sound.
LEMMA SchemasSound ==
  ASSUME NEW schema \in Schemas
  PROVE  Sound(schema)
<1>1. PICK T \in SUBSET Tables :
        schema \in UNION {[order : Orders(T, rels), rels : {rels}] :
                            rels \in BoundedSeq({r \in Relationship : r.source \in T}, MaxRels)}
  BY DEF Schemas
<1> DEFINE R == {r \in Relationship : r.source \in T}
<1>2. PICK rels \in BoundedSeq(R, MaxRels) : schema \in [order : Orders(T, rels), rels : {rels}]
  BY <1>1
<1>3. schema.rels = rels /\ schema.order \in SetToSeqs(T)
  BY <1>2 DEF Orders
<1>4. IsFiniteSet(T)
  BY BoundsAssumption, FS_Subset
<1>5. schema.order \in Seq(T) /\ ToSet(schema.order) = T /\ NoRepeat(schema.order)
  BY <1>3, <1>4, Listing
<1>6. schema.order \in Seq(Tables)
  BY <1>5
<1>7. PICK m \in 0..MaxRels : rels \in [1..m -> R]
  <2> HIDE DEF R
  <2> QED
    BY <1>2 DEF BoundedSeq, SeqOf
<1>8. rels \in Seq(Relationship) /\ \A i \in DOMAIN rels : rels[i].source \in T
  <2>1. m \in Nat
    BY BoundsAssumption
  <2> QED
    BY <1>7, <2>1
<1> QED
  BY <1>3, <1>5, <1>6, <1>8 DEF Sound

\* So is that of a handler that has none yet.
LEMMA NoSchemaIsOne == NoSchema \in Schemas
<1> DEFINE none == <<>>
           R == {r \in Relationship : r.source \in {}}
           Of(T) == UNION {[order : Orders(T, rels), rels : {rels}] :
                             rels \in BoundedSeq({r \in Relationship : r.source \in T}, MaxRels)}
<1>1. none \in BoundedSeq(R, MaxRels)
  <2>1. none \in [1..0 -> R] /\ 0 \in 0..MaxRels
    BY BoundsAssumption
  <2> HIDE DEF none, R
  <2> QED
    BY <2>1 DEF BoundedSeq, SeqOf
<1>2. none \in SetToSeqs({})
  <2>1. Cardinality({}) = 0
    BY FS_EmptySet
  <2> QED
    BY <2>1 DEF SetToSeqs
<1>3. none \in Orders({}, none)
  <2>1. DOMAIN none = {}
    OBVIOUS
  <2> HIDE DEF none
  <2> QED
    BY <1>2, <2>1 DEF Orders
<1>4. NoSchema \in [order : Orders({}, none), rels : {none}]
  <2> HIDE DEF none
  <2>1. [order |-> none, rels |-> none] \in [order : Orders({}, none), rels : {none}]
    BY <1>3
  <2> QED
    BY <2>1 DEF NoSchema, none
<1> HIDE DEF none
<1>5. NoSchema \in UNION {[order : Orders({}, rels), rels : {rels}] : rels \in BoundedSeq(R, MaxRels)}
  <2> HIDE DEF R
  <2> QED
    BY <1>1, <1>4
<1>6. {} \in SUBSET Tables /\ NoSchema \in Of({})
  BY <1>5
<1>7. Schemas = UNION {Of(T) : T \in SUBSET Tables}
  BY DEF Schemas
<1> HIDE DEF Of
<1> QED
  BY <1>6, <1>7

-----------------------------------------------------------------------------
(* Types *)

\* The variables of MigrationJobs; the user's database stays a database whatever the jobs do.
TypeOK ==
  /\ dialect \in Dialect
  /\ job \in [Jobs -> Job]
  /\ row \in [Jobs -> Status]
  /\ db \in Db
  /\ connection \in BOOLEAN
  /\ took \in [Jobs -> Nat]
  /\ changed \in [Jobs -> BOOLEAN]
  /\ mishap \in [Jobs -> BOOLEAN]
  /\ lost \in [Jobs -> BOOLEAN]

\* What the scripts of typed handlers are made of.
LEMMA ScriptLines ==
  ASSUME TypeOK, NEW j \in Jobs
  PROVE  /\ Sound(job[j].schema)
         /\ Script(j) \in Seq(Lines) /\ Sent(dialect, Script(j)) \in Seq(Lines)
         /\ job[j].mode = "safe" => Sent(dialect, Script(j)) \in Seq(Gentle)
<1>1. dialect \in Dialect /\ job[j].schema \in Schemas /\ job[j].mode \in Mode
  BY DEF TypeOK, Job
<1>2. Sound(job[j].schema)
  BY <1>1, SchemasSound
<1>3. /\ Script(j) \in Seq(Lines)
      /\ job[j].mode = "safe" => Script(j) \in Seq(Gentle)
  BY <1>1, <1>2, BuildLines DEF Script
<1>4. Sent(dialect, Script(j)) \in Seq(Lines)
  BY <1>3, SentLines
<1>5. ASSUME job[j].mode = "safe" PROVE Sent(dialect, Script(j)) \in Seq(Gentle)
  BY <1>3, <1>5, SentLines
<1> QED
  BY <1>2, <1>3, <1>4, <1>5

\* What a job's statements make of the database.
LEMMA TargetTyped ==
  ASSUME TypeOK, NEW j \in Jobs, Commit(j) \/ TakeEffect(j)
  PROVE  /\ db' \in Db /\ took' \in [Jobs -> Nat] /\ changed' \in [Jobs -> BOOLEAN]
         /\ job[j].mode = "safe" => Holds(db', db)
<1> DEFINE sent == Sent(dialect, Script(j))
<1>1. db \in Db /\ sent \in Seq(Lines) /\ (job[j].mode = "safe" => sent \in Seq(Gentle))
  BY ScriptLines DEF TypeOK
<1>2. took \in [Jobs -> Nat] /\ changed \in [Jobs -> BOOLEAN] /\ job[j].at \in Nat
  BY DEF TypeOK, Job
<1>3. Changed(j) => changed' \in [Jobs -> BOOLEAN]
  BY <1>2 DEF Changed
<1>4. CASE Commit(j)
  <2>1. db' = Run(dialect, db, sent).db /\ took' = [took EXCEPT ![j] = Len(sent)] /\ Changed(j)
    BY <1>4 DEF Commit
  <2> HIDE DEF sent
  <2>2. Len(sent) \in Nat
    BY <1>1
  <2>3. took' \in [Jobs -> Nat]
    BY <1>2, <2>1, <2>2
  <2> QED
    BY <1>1, <1>3, <2>1, <2>3, RunKeeps
<1>5. CASE TakeEffect(j)
  <2>1. /\ db' = After(dialect, db, sent[job[j].at + 1]) /\ took' = [took EXCEPT ![j] = @ + 1]
        /\ Changed(j) /\ job[j].at < Len(sent)
    BY <1>5 DEF TakeEffect, Line
  <2> HIDE DEF sent
  <2>2. job[j].at + 1 \in DOMAIN sent
    BY <1>1, <1>2, <2>1
  <2>3. sent[job[j].at + 1] \in Lines /\ (job[j].mode = "safe" => sent[job[j].at + 1] \in Gentle)
    BY <1>1, <2>2
  <2>4. took' \in [Jobs -> Nat]
    BY <1>2, <2>1
  <2> QED
    BY <1>1, <1>3, <2>1, <2>3, <2>4, AfterLine
<1> QED
  BY <1>4, <1>5

\* A call that is cut off.
LEMMA CutOffTyped ==
  ASSUME TypeOK, NEW j \in Jobs, CutOff(j)
  PROVE  /\ row' \in [Jobs -> Status]
         /\ db' \in Db /\ took' \in [Jobs -> Nat] /\ changed' \in [Jobs -> BOOLEAN]
         /\ job[j].mode = "safe" => Holds(db', db)
<1>1. row' \in [Jobs -> Status]
  BY DEF CutOff, Write, TypeOK, Status
<1>2. CASE UNCHANGED target
  BY <1>1, <1>2 DEF target, TypeOK, Holds
<1>3. CASE Commit(j) \/ TakeEffect(j)
  BY <1>1, <1>3, TargetTyped
<1> QED
  BY <1>2, <1>3 DEF CutOff

\* A handler's moves.
LEMMA GotoTyped ==
  ASSUME TypeOK, NEW j \in Jobs, NEW pc \in {"idle", "done", "refused", "dead"} \cup Live, Goto(j, pc)
  PROVE  /\ job' \in [Jobs -> Job]
         /\ \A i \in Jobs \ {j} : job'[i] = job[i]
  BY DEF TypeOK, Goto, Job

\* What a step of a job does.
StepTyped(j) ==
  /\ TypeOK'
  /\ job[j].mode = "safe" => Holds(db', db)
  /\ \A i \in Jobs \ {j} : job'[i] = job[i]

\* A move, with what it may write.
LEMMA MoveTyped ==
  ASSUME TypeOK, NEW j \in Jobs, NEW pc \in {"idle", "done", "refused", "dead"} \cup Live, Goto(j, pc),
         row' = row \/ \E s \in Status : Write(j, s),
         UNCHANGED <<dialect, connection, target, history>>
  PROVE  StepTyped(j)
<1>1. job' \in [Jobs -> Job] /\ \A i \in Jobs \ {j} : job'[i] = job[i]
  BY GotoTyped
<1>2. row' \in [Jobs -> Status]
  BY DEF Write, TypeOK, Status
<1> QED
  BY <1>1, <1>2 DEF TypeOK, target, history, StepTyped, Holds

\* A request is taken up.
LEMMA LoadTyped ==
  ASSUME TypeOK, NEW j \in Jobs, Load(j), UNCHANGED dialect
  PROVE  StepTyped(j)
<1>1. PICK s \in Schemas, m \in Mode, f \in Format :
        job' = [job EXCEPT ![j] = [@ EXCEPT !.schema = s, !.mode = m, !.format = f,
                  !.pc = IF f = "DIRECT_APPLY" THEN "findDialect" ELSE "insert"]]
  BY DEF Load
<1> DEFINE pc == IF f = "DIRECT_APPLY" THEN "findDialect" ELSE "insert"
<1>2. pc \in Live
  BY DEF Live
<1>3. job' = [job EXCEPT ![j] = [@ EXCEPT !.schema = s, !.mode = m, !.format = f, !.pc = pc]]
  BY <1>1
<1> HIDE DEF pc
<1>4. job' \in [Jobs -> Job] /\ \A i \in Jobs \ {j} : job'[i] = job[i]
  BY <1>2, <1>3 DEF TypeOK, Job
<1> QED
  BY <1>4 DEF TypeOK, Load, target, history, StepTyped, Holds

\* PostgreSQL's transaction.
LEMMA ExecuteAllTyped ==
  ASSUME TypeOK, NEW j \in Jobs, ExecuteAll(j), UNCHANGED dialect
  PROVE  StepTyped(j)
<1>1. CASE Commit(j) /\ Goto(j, "patchCompleted")
  <2>1. job' \in [Jobs -> Job] /\ \A i \in Jobs \ {j} : job'[i] = job[i]
    BY <1>1, GotoTyped DEF Live
  <2>2. /\ db' \in Db /\ took' \in [Jobs -> Nat] /\ changed' \in [Jobs -> BOOLEAN]
        /\ job[j].mode = "safe" => Holds(db', db)
    BY <1>1, TargetTyped
  <2> QED
    BY <2>1, <2>2 DEF TypeOK, ExecuteAll, history, StepTyped
<1>2. CASE Goto(j, "patchFailed") /\ UNCHANGED target
  BY <1>2, MoveTyped DEF ExecuteAll, Live
<1> QED
  BY <1>1, <1>2 DEF ExecuteAll

\* A statement of the MySQL driver's loop is taken.
LEMMA ExecuteNextTyped ==
  ASSUME TypeOK, NEW j \in Jobs, ExecuteNext(j), UNCHANGED dialect
  PROVE  StepTyped(j)
<1> DEFINE sent == Sent(dialect, Script(j))
           line == Line(j)
           checks == ChecksAfter(job[j].checks, line)
<1>1. TakeEffect(j) /\ job' = [job EXCEPT ![j].at = @ + 1, ![j].checks = checks]
  BY DEF ExecuteNext
<1>2. job[j].at \in Nat /\ job[j].checks \in BOOLEAN /\ sent \in Seq(Lines)
  BY ScriptLines DEF TypeOK, Job
<1>3. line \in Lines
  <2>1. line = sent[job[j].at + 1] /\ job[j].at < Len(sent)
    BY <1>1 DEF TakeEffect, Line
  <2> HIDE DEF sent, line
  <2> QED
    BY <1>2, <2>1
<1>4. checks \in BOOLEAN
  <2> HIDE DEF line
  <2>1. CASE line \in {Checks(on) : on \in BOOLEAN}
    BY <2>1 DEF ChecksAfter, Checks
  <2>2. CASE line \notin {Checks(on) : on \in BOOLEAN}
    <3>1. line.kind # "checks"
      BY <1>3, <2>2 DEF Lines, Gentle, Comment, CreateTable, ForeignKey, Index, Drop
    <3> QED
      BY <1>2, <3>1 DEF ChecksAfter
  <2> QED
    BY <2>1, <2>2
<1> HIDE DEF checks
<1>5. job' \in [Jobs -> Job] /\ \A i \in Jobs \ {j} : job'[i] = job[i]
  <2> DEFINE at == job[j].at + 1
             next == [job[j] EXCEPT !.at = at, !.checks = checks]
  <2>1. job \in [Jobs -> Job] /\ job[j] \in Job /\ at \in Nat
    BY <1>2 DEF TypeOK
  <2>2. next \in Job
    <3> HIDE DEF at
    <3> QED
      BY <1>4, <2>1 DEF Job
  <2>3. job' = [job EXCEPT ![j] = next]
    BY <1>1, <2>1
  <2> HIDE DEF next
  <2> QED
    BY <2>1, <2>2, <2>3
<1>6. /\ db' \in Db /\ took' \in [Jobs -> Nat] /\ changed' \in [Jobs -> BOOLEAN]
      /\ job[j].mode = "safe" => Holds(db', db)
  BY <1>1, TargetTyped
<1> QED
  BY <1>5, <1>6 DEF TypeOK, ExecuteNext, history, StepTyped

\* A rejected call, and the death of the process.
LEMMA CrashTyped ==
  ASSUME TypeOK, NEW j \in Jobs, Reject(j) \/ Die(j), UNCHANGED dialect
  PROVE  StepTyped(j)
<1>1. PICK pc \in {"idle", "done", "refused", "dead"} \cup Live : Goto(j, pc)
  BY DEF Reject, Die, Live
<1>2. job' \in [Jobs -> Job] /\ \A i \in Jobs \ {j} : job'[i] = job[i]
  BY <1>1, GotoTyped
<1>3. /\ row' \in [Jobs -> Status]
      /\ db' \in Db /\ took' \in [Jobs -> Nat] /\ changed' \in [Jobs -> BOOLEAN]
      /\ job[j].mode = "safe" => Holds(db', db)
  BY CutOffTyped DEF Reject, Die
<1>4. mishap' \in [Jobs -> BOOLEAN] /\ lost' \in [Jobs -> BOOLEAN] /\ connection' = connection
  BY DEF Reject, Die, TypeOK
<1> QED
  BY <1>2, <1>3, <1>4 DEF TypeOK, StepTyped

\* Every step is of one job, or of the connection.
LEMMA NextTyped ==
  ASSUME TypeOK, [Next]_vars
  PROVE  /\ TypeOK'
         /\ \A j \in Jobs : job'[j] # job[j] /\ job[j].mode = "safe" => Holds(db', db)
<1> DEFINE Done == /\ TypeOK'
                   /\ \A j \in Jobs : job'[j] # job[j] /\ job[j].mode = "safe" => Holds(db', db)
<1>1. ASSUME NEW j \in Jobs, StepTyped(j) PROVE Done
  BY <1>1 DEF StepTyped
<1>2. ASSUME UNCHANGED <<dialect, job, row, target, history>>, connection' \in BOOLEAN PROVE Done
  BY <1>2 DEF TypeOK, target, history
<1> HIDE DEF Done
<1>3. ASSUME NEW j \in Jobs, Load(j), UNCHANGED dialect PROVE Done
  BY <1>1, <1>3, LoadTyped
<1>4. ASSUME NEW j \in Jobs, FindDialect(j) \/ FindConnection(j), UNCHANGED dialect PROVE Done
  <2>1. PICK pc \in Live \cup {"refused"} : Goto(j, pc)
    BY <1>4 DEF FindDialect, FindConnection, Live
  <2> QED
    BY <1>1, <1>4, <2>1, MoveTyped DEF FindDialect, FindConnection
<1>5. ASSUME NEW j \in Jobs, Insert(j) \/ PatchCompleted(j) \/ PatchFailed(j), UNCHANGED dialect PROVE Done
  <2>1. PICK pc \in Live \cup {"done", "refused"} : Goto(j, pc)
    BY <1>5 DEF Insert, PatchCompleted, PatchFailed, Live
  <2>2. \E s \in Status : Write(j, s)
    BY <1>5 DEF Insert, PatchCompleted, PatchFailed, Status
  <2> QED
    BY <1>1, <1>5, <2>1, <2>2, MoveTyped DEF Insert, PatchCompleted, PatchFailed
<1>6. ASSUME NEW j \in Jobs, ExecuteRejected(j) \/ ExecuteEnd(j), UNCHANGED dialect PROVE Done
  <2>1. PICK pc \in Live : Goto(j, pc)
    BY <1>6 DEF ExecuteRejected, ExecuteEnd, Live
  <2> QED
    BY <1>1, <1>6, <2>1, MoveTyped DEF ExecuteRejected, ExecuteEnd
<1>7. ASSUME NEW j \in Jobs, ExecuteAll(j), UNCHANGED dialect PROVE Done
  BY <1>1, <1>7, ExecuteAllTyped
<1>8. ASSUME NEW j \in Jobs, ExecuteNext(j), UNCHANGED dialect PROVE Done
  BY <1>1, <1>8, ExecuteNextTyped
<1>9. ASSUME NEW j \in Jobs, Reject(j) \/ Die(j), UNCHANGED dialect PROVE Done
  BY <1>1, <1>9, CrashTyped
<1>10. ASSUME DeleteConnection, UNCHANGED dialect PROVE Done
  <2>1. UNCHANGED <<dialect, job, row, target, history>> /\ connection' \in BOOLEAN
    BY <1>10 DEF DeleteConnection
  <2> QED
    BY <1>2, <2>1
<1>11. ASSUME UNCHANGED vars PROVE Done
  <2>1. UNCHANGED <<dialect, job, row, target, history>> /\ connection' \in BOOLEAN
    BY <1>11 DEF vars, TypeOK
  <2> QED
    BY <1>2, <2>1
<1>12. Done
  <2>1. CASE Next
    <3>1. UNCHANGED dialect
      BY <2>1 DEF Next
    <3>2. CASE DeleteConnection
      BY <1>10, <3>1, <3>2
    <3>3. CASE \E j \in Jobs :
                 \/ Load(j) \/ FindDialect(j) \/ Insert(j) \/ FindConnection(j)
                 \/ ExecuteAll(j) \/ ExecuteNext(j) \/ ExecuteRejected(j) \/ ExecuteEnd(j)
                 \/ PatchCompleted(j) \/ PatchFailed(j) \/ Reject(j) \/ Die(j)
      BY <1>3, <1>4, <1>5, <1>6, <1>7, <1>8, <1>9, <3>1, <3>3
    <3> QED
      BY <2>1, <3>2, <3>3 DEF Next
  <2> QED
    BY <1>11, <2>1
<1> QED
  BY <1>12 DEF Done

\* Initial states are typed.
LEMMA InitTyped == Init => TypeOK
<1>1. SUFFICES ASSUME Init PROVE TypeOK
  OBVIOUS
<1>2. job \in [Jobs -> Job]
  <2> DEFINE first == [pc |-> "idle", schema |-> NoSchema, mode |-> "safe",
                       format |-> "SQL_FILE", at |-> 0, checks |-> TRUE]
  <2>1. first \in Job
    BY NoSchemaIsOne DEF Job, Mode, Format
  <2>2. job = [j \in Jobs |-> first]
    BY <1>1 DEF Init
  <2> HIDE DEF first
  <2> QED
    BY <2>1, <2>2
<1>3. db \in Db
  BY <1>1, BoundsAssumption DEF Init
<1> QED
  BY <1>1, <1>2, <1>3 DEF Init, TypeOK, Status

\* TypeOK for any number of requests and whatever their scripts do to the user's database
\* (MigrationService.create, executeSql of both drivers).
THEOREM TypeCorrect == Spec => []TypeOK
  BY InitTyped, NextTyped, PTL DEF Spec

\* ReplaceRebuilds for every schema, every database the user or other jobs may have
\* left, and both dialects: the script that buildPostgresSQL and buildMysqlSQL write in
\* mode replace is accepted as a whole and makes exactly what the schema says.
THEOREM ReplaceIsExact == Spec => []ReplaceRebuilds
<1>1. TypeOK => ReplaceRebuilds
  <2> SUFFICES ASSUME TypeOK, NEW j \in Jobs, job[j].mode = "replace", NamesDistinct(job[j].schema)
               PROVE  LET schema == job[j].schema
                          T      == ToSet(schema.order)
                          out    == Run(dialect, db, Script(j))
                      IN  /\ ~ out.failed
                          /\ out.db.tables = db.tables \cup T
                          /\ {f \in out.db.fks : f.source \in T}
                               = {r \in ToSet(schema.rels) : r.target \in T}
                          /\ {x \in out.db.indexes : x[1] \in T}
                               = {<<r.source, r.column>> : r \in ToSet(schema.rels)}
    BY DEF ReplaceRebuilds
  <2> DEFINE schema == job[j].schema
             T == ToSet(schema.order)
             out == Run(dialect, db, Script(j))
             new == Replaced(dialect, db, schema)
  <2>1. dialect \in Dialect /\ db \in Db /\ Sound(schema)
    BY ScriptLines DEF TypeOK
  <2>2. Script(j) = Build(dialect, schema, "replace")
    BY DEF Script
  <2>3. out = Session(new, TRUE)
    BY <2>1, <2>2, ReplaceRun
  <2>4. ~ out.failed /\ out.db = new
    <3> HIDE DEF new, out
    <3> QED
      BY <2>3 DEF Session
  <2>5. \A r \in ToSet(schema.rels) : r.source \in T
    BY <2>1 DEF Sound, ToSet
  <2> DEFINE less == Without(dialect, db, T)
  <2>6. /\ out.db.tables = less.tables \cup T
        /\ out.db.fks = less.fks \cup SaidFks(schema)
        /\ out.db.indexes = less.indexes \cup SaidIndexes(schema)
    <3>1. /\ new.tables = less.tables \cup T
          /\ new.fks = less.fks \cup SaidFks(schema)
          /\ new.indexes = less.indexes \cup SaidIndexes(schema)
      <4> HIDE DEF less
      <4>1. new = [tables |-> less.tables \cup T, fks |-> less.fks \cup SaidFks(schema),
                   indexes |-> less.indexes \cup SaidIndexes(schema)]
        BY DEF Replaced, less
      <4> HIDE DEF new
      <4> QED
        BY <4>1
    <3> HIDE DEF new, out, less
    <3> QED
      BY <2>4, <3>1
  <2>7. /\ less.tables = db.tables \ T
        /\ \A f \in less.fks : f.source \notin T
        /\ \A x \in less.indexes : x[1] \notin T
    <3> DEFINE g == db
               d == dialect
    <3>1. g \in Db
      BY <2>1
    <3> HIDE DEF T, g, d
    <3>2. /\ Without(d, g, T).tables = g.tables \ T
          /\ \A f \in Without(d, g, T).fks : f.source \notin T
          /\ \A x \in Without(d, g, T).indexes : x[1] \notin T
      BY <3>1, WithoutParts
    <3> QED
      BY <3>2 DEF g, d
  <2> HIDE DEF out, less
  <2>8. out.db.tables = db.tables \cup T
    BY <2>6, <2>7
  <2>9. {f \in out.db.fks : f.source \in T} = {r \in ToSet(schema.rels) : r.target \in T}
    BY <2>5, <2>6, <2>7 DEF SaidFks
  <2>10. {x \in out.db.indexes : x[1] \in T} = {<<r.source, r.column>> : r \in ToSet(schema.rels)}
    <3>1. \A x \in SaidIndexes(schema) : x[1] \in T
      BY <2>5 DEF SaidIndexes
    <3>2. {x \in out.db.indexes : x[1] \in T} = SaidIndexes(schema)
      <4> HIDE DEF T, schema
      <4> QED
        BY <2>6, <2>7, <3>1
    <3> QED
      BY <3>2 DEF SaidIndexes
  <2> QED
    BY <2>4, <2>8, <2>9, <2>10 DEF out
<1> QED
  BY <1>1, TypeCorrect, PTL

\* SafeOnlyAdds for every schema and database: whatever of a script of mode safe is
\* executed, in one transaction or line by line, cut off or not, takes nothing away.
THEOREM SafeTakesNothing == Spec => SafeOnlyAdds
<1> DEFINE Adds == \A j \in Jobs : job'[j] # job[j] /\ job[j].mode = "safe" => Holds(db', db)
<1>1. TypeOK /\ [Next]_vars => Adds
  BY NextTyped
<1>2. Adds => \A j \in Jobs : job'[j] # job[j] /\ job[j].mode = "safe" =>
                /\ db.tables \subseteq db'.tables
                /\ db.fks \subseteq db'.fks
                /\ db.indexes \subseteq db'.indexes
  BY DEF Holds
<1> HIDE DEF Adds
<1> QED
  BY <1>1, <1>2, TypeCorrect, PTL DEF Spec, SafeOnlyAdds

-----------------------------------------------------------------------------
(* What the MySQL driver leaves out *)

\* Every line that creates a table has a comment before it.
Headed(s) == \A i \in DOMAIN s : s[i].kind = "create" => i > 1 /\ s[i - 1] = Comment

\* The lines that create no table.
Others == {line \in Lines : line.kind # "create"}

\* They are all the lines but CREATE TABLE.
LEMMA OthersKinds ==
  /\ Comment \in Others
  /\ \A on \in BOOLEAN : Checks(on) \in Others
  /\ \A t \in Tables : Drop(t) \in Others
  /\ \A r \in Relationship : ForeignKey(r) \in Others /\ Index(r) \in Others
<1>1. Comment.kind # "create"
  BY DEF Comment
<1>2. \A on : Checks(on).kind # "create"
  BY DEF Checks
<1>3. \A t : Drop(t).kind # "create"
  BY DEF Drop
<1>4. \A r : ForeignKey(r).kind # "create" /\ Index(r).kind # "create"
  BY DEF ForeignKey, Index
<1> QED
  BY <1>1, <1>2, <1>3, <1>4 DEF Others, Lines, Gentle

\* Where nothing is created, nothing lacks its comment.
LEMMA OthersHeaded ==
  ASSUME NEW s \in Seq(Others)
  PROVE  s \in Seq(Lines) /\ Headed(s)
<1>1. Others \subseteq Lines
  BY DEF Others
<1>2. s \in Seq(Lines)
  BY <1>1
<1>3. \A i \in DOMAIN s : s[i].kind # "create"
  BY DEF Others
<1> QED
  BY <1>2, <1>3 DEF Headed

\* Headed lines one after the other are headed.
LEMMA HeadedConcat ==
  ASSUME NEW a \in Seq(Lines), NEW b \in Seq(Lines), Headed(a), Headed(b)
  PROVE  a \o b \in Seq(Lines) /\ Headed(a \o b)
<1> DEFINE ab == a \o b
<1>1. /\ ab \in Seq(Lines) /\ Len(ab) = Len(a) + Len(b) /\ Len(a) \in Nat /\ Len(b) \in Nat
      /\ \A i \in 1..(Len(a) + Len(b)) : ab[i] = IF i <= Len(a) THEN a[i] ELSE b[i - Len(a)]
  BY ConcatProperties
<1> HIDE DEF ab
<1>2. DOMAIN ab = 1..(Len(a) + Len(b)) /\ DOMAIN a = 1..Len(a) /\ DOMAIN b = 1..Len(b)
  BY <1>1
<1>3. ASSUME NEW i \in DOMAIN ab, ab[i].kind = "create" PROVE i > 1 /\ ab[i - 1] = Comment
  <2>1. CASE i <= Len(a)
    <3>1. i \in DOMAIN a /\ ab[i] = a[i]
      BY <1>1, <1>2, <2>1
    <3>2. i > 1 /\ a[i - 1] = Comment
      BY <1>3, <3>1 DEF Headed
    <3>3. i - 1 \in 1..(Len(a) + Len(b)) /\ i - 1 <= Len(a)
      BY <1>1, <1>2, <2>1, <3>2
    <3> QED
      BY <1>1, <3>2, <3>3
  <2>2. CASE ~ (i <= Len(a))
    <3> DEFINE k == i - Len(a)
    <3>1. k \in DOMAIN b /\ ab[i] = b[k]
      BY <1>1, <1>2, <2>2
    <3>2. k > 1 /\ b[k - 1] = Comment
      BY <1>3, <3>1 DEF Headed
    <3>3. /\ i - 1 \in 1..(Len(a) + Len(b)) /\ ~ (i - 1 <= Len(a)) /\ (i - 1) - Len(a) = k - 1
          /\ i > 1
      BY <1>1, <1>2, <2>2, <3>2
    <3>4. ab[i - 1] = b[(i - 1) - Len(a)]
      BY <1>1, <3>3
    <3> QED
      BY <3>2, <3>3, <3>4
  <2> QED
    BY <2>1, <2>2
<1> QED
  BY <1>1, <1>3 DEF Headed, ab

\* The create phase puts a comment above every table.
LEMMA CreatesHeaded ==
  ASSUME NEW order \in Seq(Tables), NEW m \in Mode
  PROVE  Creates(order, m) \in Seq(Lines) /\ Headed(Creates(order, m))
<1> DEFINE N == 2 * Len(order)
           lines == Creates(order, m)
<1>1. Len(order) \in Nat /\ N \in Nat
  OBVIOUS
<1>2. DOMAIN lines = 1..N /\ \A i \in 1..N : i % 2 = 1 => lines[i] = Comment
  BY DEF Creates
<1>3. lines \in Seq(Lines)
  BY CreatesLines, GentleLines
<1> HIDE DEF lines
<1>4. ASSUME NEW i \in 1..N, lines[i].kind = "create" PROVE i > 1 /\ lines[i - 1] = Comment
  <2>1. Comment.kind # "create"
    BY DEF Comment
  <2>2. i % 2 # 1
    BY <1>2, <1>4, <2>1
  <2>3. i > 1 /\ i - 1 \in 1..N /\ (i - 1) % 2 = 1
    BY <1>1, <2>2
  <2> QED
    BY <1>2, <2>3
<1> QED
  BY <1>2, <1>3, <1>4 DEF Headed, lines

\* The drop phase creates nothing.
LEMMA DropPhaseOthers ==
  ASSUME NEW d, NEW m, NEW schema, Sound(schema)
  PROVE  DropPhase(d, schema, m) \in Seq(Others)
<1> DEFINE order == schema.order
           drops == [i \in DOMAIN order |-> Drop(Reverse(order)[i])]
           off == <<Checks(FALSE), Comment>>
           on == <<Checks(TRUE)>>
           head == <<Comment>>
           none == <<>>
<1>1. order \in Seq(Tables)
  BY DEF Sound
<1>2. drops \in Seq(Others)
  <2>1. /\ DOMAIN order = 1..Len(order) /\ Len(order) \in Nat
        /\ \A i \in 1..Len(order) : Reverse(order)[i] = order[(Len(order) - i) + 1]
    BY <1>1 DEF Reverse
  <2>2. \A i \in 1..Len(order) : (Len(order) - i) + 1 \in 1..Len(order)
    BY <2>1
  <2>3. \A i \in 1..Len(order) : Reverse(order)[i] \in Tables
    BY <1>1, <2>1, <2>2
  <2>4. \A i \in 1..Len(order) : Drop(Reverse(order)[i]) \in Others
    BY <2>3, OthersKinds
  <2> QED
    BY <2>1, <2>4
<1>3. off \in Seq(Others) /\ on \in Seq(Others) /\ head \in Seq(Others) /\ none \in Seq(Others)
  <2> DEFINE unchecked == Checks(FALSE)
             checked == Checks(TRUE)
             comment == Comment
  <2>1. unchecked \in Others /\ checked \in Others /\ comment \in Others
    BY OthersKinds
  <2> HIDE DEF unchecked, checked, comment
  <2>2. /\ <<unchecked, comment>> \in Seq(Others) /\ <<checked>> \in Seq(Others)
        /\ <<comment>> \in Seq(Others) /\ <<>> \in Seq(Others)
    BY <2>1
  <2> QED
    BY <2>2 DEF unchecked, checked, comment
<1>4. \/ DropPhase(d, schema, m) = none
      \/ DropPhase(d, schema, m) = head \o drops
      \/ DropPhase(d, schema, m) = (off \o drops) \o on
  BY DEF DropPhase
<1> HIDE DEF drops, off, on, head, none
<1>5. \A a, b \in Seq(Others) : a \o b \in Seq(Others)
  BY ConcatProperties
<1>6. head \o drops \in Seq(Others) /\ off \o drops \in Seq(Others)
  BY <1>2, <1>3, <1>5
<1>7. (off \o drops) \o on \in Seq(Others)
  BY <1>3, <1>5, <1>6
<1> QED
  BY <1>3, <1>4, <1>6, <1>7

\* Nor do the sections of foreign keys and indexes.
LEMMA SectionsOthers ==
  ASSUME NEW schema, Sound(schema)
  PROVE  Section(FkLines(schema)) \in Seq(Others) /\ Section(IndexLines(schema)) \in Seq(Others)
<1>1. PICK rels \in Seq(Relationship) : FkLines(schema) = [i \in DOMAIN rels |-> ForeignKey(rels[i])]
  BY FkSection
<1>2. /\ DOMAIN rels = 1..Len(rels) /\ Len(rels) \in Nat
      /\ \A i \in 1..Len(rels) : ForeignKey(rels[i]) \in Others
  BY OthersKinds
<1>3. FkLines(schema) \in Seq(Others)
  BY <1>1, <1>2
<1>4. IndexLines(schema) \in Seq(Others)
  <2>1. Indexings \subseteq Others
    BY OthersKinds DEF Indexings
  <2>2. IndexLines(schema) \in Seq(Indexings)
    BY IndexSection
  <2> QED
    BY <2>1, <2>2
<1>5. ASSUME NEW lines \in Seq(Others) PROVE Section(lines) \in Seq(Others)
  <2> DEFINE head == <<Comment>>
  <2>1. head \in Seq(Others)
    <3>1. Comment \in Others
      BY OthersKinds
    <3> QED
      BY <3>1
  <2>2. Section(lines) = <<>> \/ Section(lines) = head \o lines
    BY DEF Section
  <2> HIDE DEF head
  <2> QED
    BY <2>1, <2>2, ConcatProperties, EmptySeq
<1> QED
  BY <1>3, <1>4, <1>5

\* Whole scripts are headed.
LEMMA BuildHeaded ==
  ASSUME NEW d, NEW m \in Mode, NEW schema, Sound(schema)
  PROVE  Build(d, schema, m) \in Seq(Lines) /\ Headed(Build(d, schema, m))
<1> DEFINE head == <<Comment>>
           drops == DropPhase(d, schema, m)
           creates == Creates(schema.order, m)
           phase == CreatePhase(schema, m)
           refers == Section(FkLines(schema))
           indexes == Section(IndexLines(schema))
<1>1. head \in Seq(Lines) /\ Headed(head)
  <2>1. Comment \in Others
    BY OthersKinds
  <2>2. head \in Seq(Others)
    BY <2>1
  <2> HIDE DEF head
  <2> QED
    BY <2>2, OthersHeaded
<1>2. drops \in Seq(Lines) /\ Headed(drops)
  BY DropPhaseOthers, OthersHeaded
<1>3. creates \in Seq(Lines) /\ Headed(creates)
  BY CreatesHeaded DEF Sound
<1>4. phase = head \o creates
  BY DEF CreatePhase, Creates
<1>5. /\ refers \in Seq(Lines) /\ Headed(refers)
      /\ indexes \in Seq(Lines) /\ Headed(indexes)
  BY SectionsOthers, OthersHeaded
<1>6. Build(d, schema, m) = (((head \o drops) \o phase) \o refers) \o indexes
  BY DEF Build
<1> HIDE DEF head, drops, creates, phase, refers, indexes
<1>7. phase \in Seq(Lines) /\ Headed(phase)
  BY <1>1, <1>3, <1>4, HeadedConcat
<1>8. head \o drops \in Seq(Lines) /\ Headed(head \o drops)
  BY <1>1, <1>2, HeadedConcat
<1>9. (head \o drops) \o phase \in Seq(Lines) /\ Headed((head \o drops) \o phase)
  BY <1>7, <1>8, HeadedConcat
<1>10. /\ ((head \o drops) \o phase) \o refers \in Seq(Lines)
       /\ Headed(((head \o drops) \o phase) \o refers)
  BY <1>5, <1>9, HeadedConcat
<1> QED
  BY <1>5, <1>6, <1>10, HeadedConcat

\* The pieces that the MySQL driver sends create no table.
LEMMA MysqlSendsOthers ==
  ASSUME NEW script \in Seq(Lines), Headed(script)
  PROVE  Sent("mysql", script) \in Seq(Lines) /\ \A i \in DOMAIN Sent("mysql", script) :
           Sent("mysql", script)[i].kind # "create"
<1> DEFINE led(i) == i > 1 => IsStatement(script[i - 1])
           I == {i \in DOMAIN script : IsStatement(script[i]) /\ led(i)}
           sent == Kept(script, I)
<1>1. Sent("mysql", script) = sent
  BY DEF Sent
<1>2. ASSUME NEW i \in I PROVE script[i].kind # "create"
  <2>1. i \in DOMAIN script /\ (i > 1 => IsStatement(script[i - 1]))
    OBVIOUS
  <2>2. ~ IsStatement(Comment)
    BY DEF IsStatement, Comment
  <2> QED
    BY <2>1, <2>2 DEF Headed
<1> HIDE DEF I
<1>3. sent \in Seq(Lines) /\ ToSet(sent) = {script[i] : i \in I \cap DOMAIN script}
  BY KeptProperties
<1> HIDE DEF sent
<1>4. \A i \in DOMAIN sent : sent[i].kind # "create"
  BY <1>2, <1>3 DEF ToSet
<1> QED
  BY <1>1, <1>3, <1>4

\* On MySQL no job makes a table, whatever its schema and mode (MysqlDriver.executeSql
\* drops every piece that begins with a comment, and buildMysqlSQL puts one above
\* every CREATE TABLE).
THEOREM MysqlMakesNoTable == Spec => [][dialect = "mysql" => db'.tables \subseteq db.tables]_vars
<1> DEFINE Same == dialect = "mysql" => db'.tables \subseteq db.tables
<1>1. ASSUME TypeOK, NEW j \in Jobs, TakeEffect(j) PROVE Same
  <2> SUFFICES ASSUME dialect = "mysql" PROVE db'.tables \subseteq db.tables
    OBVIOUS
  <2> DEFINE sent == Sent("mysql", Script(j))
             line == sent[job[j].at + 1]
  <2>1. /\ db' = After(dialect, db, line) /\ job[j].at < Len(sent) /\ job[j].at \in Nat /\ db \in Db
    BY <1>1 DEF TakeEffect, Line, TypeOK, Job
  <2>2. Script(j) \in Seq(Lines) /\ Headed(Script(j))
    BY <1>1, ScriptLines, BuildHeaded DEF Script, TypeOK, Job
  <2>3. sent \in Seq(Lines) /\ \A i \in DOMAIN sent : sent[i].kind # "create"
    BY <2>2, MysqlSendsOthers
  <2> HIDE DEF sent
  <2>4. job[j].at + 1 \in DOMAIN sent
    BY <2>1, <2>3
  <2>5. line.kind # "create"
    BY <2>3, <2>4
  <2> HIDE DEF line
  <2> QED
    BY <2>1, <2>5 DEF After, Db
<1>2. ASSUME TypeOK, [Next]_vars PROVE Same
  <2>1. CASE db' = db
    BY <2>1
  <2>2. CASE \E j \in Jobs : TakeEffect(j)
    BY <1>1, <1>2, <2>2
  <2>3. CASE dialect = "postgresql"
    BY <2>3
  <2>4. ASSUME NEW j \in Jobs, CutOff(j)
        PROVE  db' = db \/ (\E k \in Jobs : TakeEffect(k)) \/ dialect = "postgresql"
    BY <2>4 DEF CutOff, target
  <2> HIDE DEF Same
  <2> QED
    BY <1>2, <2>1, <2>2, <2>3, <2>4
       DEF Next, vars, target, Load, FindDialect, Insert, FindConnection, ExecuteAll, ExecuteNext,
           ExecuteRejected, ExecuteEnd, PatchCompleted, PatchFailed, Reject, Die, DeleteConnection
<1> HIDE DEF Same
<1> QED
  BY <1>2, TypeCorrect, PTL DEF Spec, Same

-----------------------------------------------------------------------------
(* What PostgreSQL is sent *)

Sessions == [db : Db, checks : BOOLEAN, failed : BOOLEAN]

\* A line leads from session to session, and a comment nowhere.
LEMMA ExecuteTyped ==
  ASSUME NEW d, NEW s \in Sessions, NEW line \in Lines
  PROVE  /\ Execute(d, s, line) \in Sessions
         /\ ~ IsStatement(line) => Execute(d, s, line) = s
<1>1. After(d, s.db, line) \in Db
  BY AfterLine DEF Sessions
<1>2. ChecksAfter(s.checks, line) \in BOOLEAN
  <2>1. CASE line \in {Checks(on) : on \in BOOLEAN}
    BY <2>1 DEF ChecksAfter, Checks
  <2>2. CASE line \notin {Checks(on) : on \in BOOLEAN}
    <3>1. line.kind # "checks"
      BY <2>2 DEF Lines, Gentle, Comment, CreateTable, ForeignKey, Index, Drop
    <3> QED
      BY <3>1 DEF ChecksAfter, Sessions
  <2> QED
    BY <2>1, <2>2
<1>3. [s EXCEPT !.failed = TRUE] \in Sessions
  BY DEF Sessions
<1>4. Execute(d, s, line) \in Sessions
  <2> DEFINE next == [db |-> After(d, s.db, line), checks |-> ChecksAfter(s.checks, line), failed |-> FALSE]
  <2>1. next \in Sessions
    BY <1>1, <1>2 DEF Sessions
  <2> QED
    BY <1>3, <2>1 DEF Execute
<1>5. ASSUME ~ IsStatement(line) PROVE Execute(d, s, line) = s
  <2>1. line.kind = "comment"
    BY <1>5 DEF IsStatement
  <2>2. ~ Rejects(d, s.db, s.checks, line) /\ After(d, s.db, line) = s.db
        /\ ChecksAfter(s.checks, line) = s.checks
    BY <2>1 DEF Rejects, After, ChecksAfter
  <2>3. CASE s.failed
    <3>1. [s EXCEPT !.failed = TRUE] = s
      BY <2>3 DEF Sessions
    <3> QED
      BY <2>3, <3>1 DEF Execute
  <2>4. CASE ~ s.failed
    <3>1. s = [db |-> s.db, checks |-> s.checks, failed |-> FALSE]
      BY <2>4 DEF Sessions
    <3>2. Execute(d, s, line)
            = [db |-> After(d, s.db, line), checks |-> ChecksAfter(s.checks, line), failed |-> FALSE]
      BY <2>2, <2>4 DEF Execute
    <3> QED
      BY <2>2, <3>1, <3>2
  <2> QED
    BY <2>3, <2>4
<1> QED
  BY <1>4, <1>5

\* One more line.
LEMMA FinalAppend ==
  ASSUME NEW d, NEW s, NEW lines \in Seq(Lines), NEW line \in Lines
  PROVE  Final(d, s, Append(lines, line)) = Execute(d, Final(d, s, lines), line)
<1> DEFINE last == <<line>>
<1>1. Append(lines, line) = lines \o last /\ last \in Seq(Lines)
  BY AppendIsConcat
<1>2. Final(d, Final(d, s, lines), last) = Execute(d, Final(d, s, lines), line)
  BY FinalOne
<1> HIDE DEF last
<1> QED
  BY <1>1, <1>2, LinesConcat

\* To send the statements alone is to send the lines.
LEMMA StatementsRun ==
  ASSUME NEW d, NEW s \in Sessions, NEW lines \in Seq(Lines)
  PROVE  Final(d, s, Statements(lines)) = Final(d, s, lines)
<1> DEFINE N == Len(lines)
           I == {i \in DOMAIN lines : IsStatement(lines[i])}
           F == Course(d, s, lines)
<1>1. N \in Nat /\ DOMAIN lines = 1..N /\ \A i \in 1..N : lines[i] \in Lines
  OBVIOUS
<1>2. F[0] = s /\ \A n \in 1..N : F[n] = Execute(d, F[n - 1], lines[n])
  BY <1>1, CourseSteps
<1>3. Statements(lines) = Kept(lines, I) /\ \A i \in 1..N : i \in I <=> IsStatement(lines[i])
  BY <1>1 DEF Statements
<1> HIDE DEF I
<1>4. PICK kept :
        /\ Kept(lines, I) = kept[N] /\ kept[0] = <<>>
        /\ \A n \in 1..N : kept[n] = IF n \in I THEN Append(kept[n - 1], lines[n]) ELSE kept[n - 1]
  BY <1>1, KeptSteps
<1> HIDE DEF F
<1> DEFINE P == {n \in 0..N : /\ kept[n] \in Seq(Lines) /\ F[n] \in Sessions
                              /\ Final(d, s, kept[n]) = F[n]}
<1>5. 0 \in P
  <2>1. <<>> \in Seq(Lines)
    BY EmptySeq
  <2>2. kept[0] \in Seq(Lines) /\ F[0] \in Sessions /\ 0 \in 0..N
    BY <1>1, <1>2, <1>4, <2>1
  <2>3. Final(d, s, <<>>) = s
    BY FinalNothing
  <2>4. Final(d, s, kept[0]) = F[0]
    BY <1>2, <1>4, <2>3
  <2> QED
    BY <2>2, <2>4
<1>6. ASSUME NEW n \in 0..(N - 1), n \in P PROVE n + 1 \in P
  <2>1. n + 1 \in 1..N /\ n + 1 \in 0..N /\ (n + 1) - 1 = n
    BY <1>1
  <2>2. /\ F[n + 1] = Execute(d, F[n], lines[n + 1]) /\ lines[n + 1] \in Lines
        /\ kept[n + 1] = IF n + 1 \in I THEN Append(kept[n], lines[n + 1]) ELSE kept[n]
    BY <1>1, <1>2, <1>4, <2>1
  <2>3. kept[n] \in Seq(Lines) /\ F[n] \in Sessions /\ Final(d, s, kept[n]) = F[n]
    BY <1>6
  <2>4. F[n + 1] \in Sessions /\ (n + 1 \notin I => F[n + 1] = F[n])
    BY <1>3, <2>1, <2>2, <2>3, ExecuteTyped
  <2>5. CASE n + 1 \in I
    <3>1. kept[n + 1] = Append(kept[n], lines[n + 1])
      BY <2>2, <2>5
    <3>2. Final(d, s, Append(kept[n], lines[n + 1])) = F[n + 1]
      BY <2>2, <2>3, FinalAppend
    <3>3. Append(kept[n], lines[n + 1]) \in Seq(Lines)
      BY <2>2, <2>3, AppendProperties
    <3> QED
      BY <2>1, <2>4, <3>1, <3>2, <3>3
  <2>6. CASE n + 1 \notin I
    BY <2>1, <2>2, <2>3, <2>4, <2>6
  <2> QED
    BY <2>5, <2>6
<1>7. N \in P
  <2> HIDE DEF P, N
  <2>1. \A n \in 0..N : n \in P
    BY <1>1, <1>5, <1>6, Induction
  <2> QED
    BY <1>1, <2>1
<1>8. Final(d, s, lines) = F[N]
  BY DEF Final, F
<1> QED
  BY <1>3, <1>4, <1>7, <1>8

\* PostgreSQL makes of what it is sent of a script of mode replace what the schema says.
LEMMA PostgresReplaces ==
  ASSUME TypeOK, NEW j \in Jobs, dialect = "postgresql", job[j].mode = "replace",
         NamesDistinct(job[j].schema)
  PROVE  /\ ~ Run(dialect, db, Sent(dialect, Script(j))).failed
         /\ Run(dialect, db, Sent(dialect, Script(j))).db = Replaced(dialect, db, job[j].schema)
<1> DEFINE g == db
           d == dialect
           begun == Session(g, TRUE)
           script == Script(j)
           new == Replaced(d, g, job[j].schema)
<1>1. /\ g \in Db /\ d \in Dialect /\ script \in Seq(Lines) /\ Sound(job[j].schema)
      /\ Sent(d, script) = Statements(script)
      /\ script = Build(d, job[j].schema, "replace")
  BY ScriptLines DEF TypeOK, Sent, Script
<1>2. Run(d, g, script) = Session(new, TRUE)
  BY <1>1, ReplaceRun
<1>3. begun \in Sessions
  BY <1>1 DEF Session, Sessions
<1>4. Run(d, g, script) = Final(d, begun, script)
      /\ Run(d, g, Statements(script)) = Final(d, begun, Statements(script))
  BY RunFinal
<1> HIDE DEF g, d, begun, script, new
<1>5. Run(d, g, Sent(d, script)) = Session(new, TRUE)
  BY <1>1, <1>2, <1>3, <1>4, StatementsRun
<1>6. ~ Run(d, g, Sent(d, script)).failed /\ Run(d, g, Sent(d, script)).db = new
  BY <1>5 DEF Session
<1> QED
  BY <1>6 DEF g, d, script, new

-----------------------------------------------------------------------------
(* Jobs *)

\* Handlers are records.
JobShape ==
  job = [j \in Jobs |-> [pc |-> job[j].pc, schema |-> job[j].schema, mode |-> job[j].mode,
                         format |-> job[j].format, at |-> job[j].at, checks |-> job[j].checks]]

\* The types of the variables; the contents of schemas and counters do not matter.
Shape ==
  /\ JobShape
  /\ row = [j \in Jobs |-> row[j]]
  /\ took = [j \in Jobs |-> took[j]]
  /\ changed \in [Jobs -> BOOLEAN]
  /\ mishap \in [Jobs -> BOOLEAN]
  /\ lost \in [Jobs -> BOOLEAN]

\* Where the handler is when the row says what it says.
RowTells(j) ==
  /\ job[j].pc \in {"idle", "findDialect", "insert"} => row[j] = "none"
  /\ job[j].pc \in {"findConnection", "execute", "patchCompleted"} => row[j] = "running"
  /\ job[j].pc = "patchFailed" => row[j] \in {"running", "completed"}
  /\ row[j] = "running" => job[j].pc \in Live \/ lost[j]
  /\ row[j] = "completed" => job[j].pc \in {"patchFailed", "done", "refused", "dead"}
  /\ row[j] = "failed" => job[j].pc \in {"refused", "dead"}

\* The handler's loop counts the statements, and all were sent before the row is
\* to say so.
Counted(j) ==
  /\ job[j].pc \in {"idle", "findDialect", "insert", "findConnection"}
       => took[j] = 0 /\ job[j].at = 0
  /\ job[j].pc = "execute" => took[j] = job[j].at
  /\ job[j].format = "DIRECT_APPLY" /\ (job[j].pc = "patchCompleted" \/ row[j] = "completed")
       => took[j] = Len(Sent(dialect, Script(j)))

\* A transaction that was committed, and seen to be, is not reported as failed.
Committed(j) ==
  dialect = "postgresql" /\ changed[j] /\ ~ mishap[j]
    => job[j].pc \in {"patchCompleted", "done", "dead"} /\ row[j] # "failed"

JobInv(j) == RowTells(j) /\ Counted(j) /\ Committed(j)

IInv == Shape /\ \A j \in Jobs : JobInv(j)

\* Everything the invariant says of job j is as it was.
Untouched(j) ==
  /\ job'[j] = job[j] /\ row'[j] = row[j] /\ took'[j] = took[j]
  /\ changed'[j] = changed[j] /\ mishap'[j] = mishap[j] /\ lost'[j] = lost[j]

-----------------------------------------------------------------------------
\* A step of one job keeps the invariant if it keeps it for that job.
LEMMA OneJob ==
  ASSUME IInv, NEW k \in Jobs, Shape', UNCHANGED dialect, \A j \in Jobs \ {k} : Untouched(j), JobInv(k)'
  PROVE  IInv'
<1>1. SUFFICES ASSUME NEW j \in Jobs PROVE JobInv(j)'
  BY DEF IInv
<1>2. CASE j = k
  BY <1>2
<1>3. CASE j # k
  <2>1. JobInv(j) /\ Untouched(j)
    BY <1>3 DEF IInv
  <2>2. Script(j)' = Script(j) /\ dialect' = dialect
    BY <2>1 DEF Script, Untouched
  <2> QED
    BY <2>1, <2>2 DEF JobInv, RowTells, Counted, Committed, Untouched
<1> QED
  BY <1>2, <1>3

\* What a handler's move to another await changes.
LEMMA GotoEffect ==
  ASSUME Shape, NEW k \in Jobs, NEW pc, Goto(k, pc), UNCHANGED dialect
  PROVE  /\ JobShape'
         /\ job'[k].pc = pc
         /\ job'[k].format = job[k].format /\ job'[k].at = job[k].at
         /\ Script(k)' = Script(k)
         /\ \A j \in Jobs \ {k} : job'[j] = job[j]
  BY DEF Shape, Goto, JobShape, Script

\* What a write of the row changes.
LEMMA WriteEffect ==
  ASSUME Shape, NEW k \in Jobs, NEW s, Write(k, s)
  PROVE  /\ row' = [j \in Jobs |-> row'[j]]
         /\ row'[k] = s
         /\ \A j \in Jobs \ {k} : row'[j] = row[j]
  BY DEF Shape, Write

\* What the statements of a job change.
LEMMA TargetEffect ==
  ASSUME Shape, NEW k \in Jobs, Commit(k) \/ TakeEffect(k)
  PROVE  /\ took' = [j \in Jobs |-> took'[j]] /\ changed' \in [Jobs -> BOOLEAN]
         /\ Commit(k) => took'[k] = Len(Sent(dialect, Script(k)))
         /\ TakeEffect(k) => took'[k] = took[k] + 1
         /\ \A j \in Jobs \ {k} : took'[j] = took[j] /\ changed'[j] = changed[j]
<1>1. CASE Commit(k)
  BY <1>1 DEF Shape, Commit, TakeEffect, Changed
<1>2. CASE TakeEffect(k)
  BY <1>2 DEF Shape, Commit, TakeEffect, Changed
<1> QED
  BY <1>1, <1>2

\* The invariant holds initially.
LEMMA InitIInv == Init => IInv
<1>1. SUFFICES ASSUME Init PROVE IInv
  OBVIOUS
<1>2. Shape
  BY <1>1 DEF Init, Shape, JobShape
<1>3. \A j \in Jobs : JobInv(j)
  BY <1>1 DEF Init, JobInv, RowTells, Counted, Committed, Live
<1> QED
  BY <1>2, <1>3 DEF IInv

\* A handler that moves on while row and database keep still.
LEMMA MoveStep ==
  ASSUME IInv, NEW k \in Jobs, NEW pc, Goto(k, pc), UNCHANGED <<dialect, row, target, history>>,
         \/ job[k].pc = "findDialect" /\ pc \in {"insert", "refused"}
         \/ job[k].pc = "findConnection" /\ pc \in {"execute", "patchFailed"}
         \/ job[k].pc = "execute" /\ pc = "patchFailed"
         \/ /\ job[k].pc = "execute" /\ pc = "patchCompleted"
            /\ job[k].at = Len(Sent(dialect, Script(k)))
  PROVE  IInv'
<1>1. Shape /\ JobInv(k)
  BY DEF IInv
<1>2. /\ JobShape'
      /\ job'[k].pc = pc /\ job'[k].format = job[k].format /\ job'[k].at = job[k].at
      /\ Script(k)' = Script(k)
      /\ \A j \in Jobs \ {k} : job'[j] = job[j]
  BY <1>1, GotoEffect
<1>3. Shape' /\ \A j \in Jobs \ {k} : Untouched(j)
  BY <1>1, <1>2 DEF Shape, Untouched, target, history
<1>4. RowTells(k)'
  BY <1>1, <1>2 DEF JobInv, RowTells, Live, target, history
<1>5. Counted(k)'
  BY <1>1, <1>2 DEF JobInv, Counted, RowTells, target, history
<1>6. Committed(k)'
  BY <1>1, <1>2 DEF JobInv, Committed, target, history
<1> QED
  BY <1>3, <1>4, <1>5, <1>6, OneJob DEF JobInv

\* A handler that writes the row and moves on.
LEMMA PatchStep ==
  ASSUME IInv, NEW k \in Jobs, NEW pc, NEW s, Goto(k, pc), Write(k, s),
         UNCHANGED <<dialect, target, history>>,
         \/ job[k].pc = "insert" /\ s = "running" /\ pc = "findConnection"
         \/ /\ job[k].pc = "insert" /\ s = "running" /\ pc = "patchCompleted"
            /\ job[k].format # "DIRECT_APPLY"
         \/ job[k].pc = "patchCompleted" /\ s = "completed" /\ pc = "done"
         \/ job[k].pc = "patchFailed" /\ s = "failed" /\ pc = "refused"
  PROVE  IInv'
<1>1. Shape /\ JobInv(k)
  BY DEF IInv
<1>2. /\ JobShape'
      /\ job'[k].pc = pc /\ job'[k].format = job[k].format /\ job'[k].at = job[k].at
      /\ Script(k)' = Script(k)
      /\ \A j \in Jobs \ {k} : job'[j] = job[j]
  BY <1>1, GotoEffect
<1>3. row' = [j \in Jobs |-> row'[j]] /\ row'[k] = s /\ \A j \in Jobs \ {k} : row'[j] = row[j]
  BY <1>1, WriteEffect
<1>4. Shape' /\ \A j \in Jobs \ {k} : Untouched(j)
  BY <1>1, <1>2, <1>3 DEF Shape, Untouched, target, history
<1>5. RowTells(k)'
  BY <1>1, <1>2, <1>3 DEF JobInv, RowTells, Live, target, history
<1>6. Counted(k)'
  BY <1>1, <1>2, <1>3 DEF JobInv, Counted, RowTells, target, history
<1>7. Committed(k)'
  BY <1>1, <1>2, <1>3 DEF JobInv, Committed, target, history
<1> QED
  BY <1>4, <1>5, <1>6, <1>7, OneJob DEF JobInv

\* A request is taken up.
LEMMA LoadStep ==
  ASSUME IInv, NEW k \in Jobs, Load(k), UNCHANGED dialect
  PROVE  IInv'
<1>1. Shape /\ JobInv(k)
  BY DEF IInv
<1>2. PICK s \in Schemas, m \in Mode, f \in Format :
        job' = [job EXCEPT ![k] = [@ EXCEPT !.schema = s, !.mode = m, !.format = f,
                  !.pc = IF f = "DIRECT_APPLY" THEN "findDialect" ELSE "insert"]]
  BY DEF Load
<1>3. /\ JobShape'
      /\ job'[k].pc \in {"findDialect", "insert"} /\ job'[k].at = job[k].at
      /\ \A j \in Jobs \ {k} : job'[j] = job[j]
  <2> DEFINE pc == IF f = "DIRECT_APPLY" THEN "findDialect" ELSE "insert"
  <2>1. job' = [job EXCEPT ![k] = [@ EXCEPT !.schema = s, !.mode = m, !.format = f, !.pc = pc]]
    BY <1>2
  <2>2. pc \in {"findDialect", "insert"}
    OBVIOUS
  <2> HIDE DEF pc
  <2>3. k \in DOMAIN job /\ JobShape
    BY <1>1 DEF Shape, JobShape
  <2>4. job'[k] = [pc |-> pc, schema |-> s, mode |-> m, format |-> f,
                   at |-> job[k].at, checks |-> job[k].checks]
    <3>1. job'[k] = [job[k] EXCEPT !.schema = s, !.mode = m, !.format = f, !.pc = pc]
      BY <2>1, <2>3
    <3>2. job[k] = [pc |-> job[k].pc, schema |-> job[k].schema, mode |-> job[k].mode,
                    format |-> job[k].format, at |-> job[k].at, checks |-> job[k].checks]
      BY <2>3 DEF JobShape
    <3> QED
      BY <3>1, <3>2
  <2> QED
    BY <2>1, <2>2, <2>3, <2>4 DEF JobShape
<1>4. Shape' /\ \A j \in Jobs \ {k} : Untouched(j)
  BY <1>1, <1>3 DEF Shape, Untouched, Load, target, history
<1>5. RowTells(k)'
  BY <1>1, <1>3 DEF JobInv, RowTells, Live, Load, target, history
<1>6. Counted(k)'
  BY <1>1, <1>3 DEF JobInv, Counted, RowTells, Load, target, history
<1>7. Committed(k)'
  BY <1>1, <1>3 DEF JobInv, Committed, Load, target, history
<1> QED
  BY <1>4, <1>5, <1>6, <1>7, OneJob DEF JobInv

\* PostgreSQL's transaction commits and the handler hears of it.
LEMMA CommitStep ==
  ASSUME IInv, NEW k \in Jobs, job[k].pc = "execute", dialect = "postgresql", Commit(k),
         Goto(k, "patchCompleted"), UNCHANGED <<dialect, row, history>>
  PROVE  IInv'
<1>1. Shape /\ JobInv(k)
  BY DEF IInv
<1>2. /\ JobShape'
      /\ job'[k].pc = "patchCompleted" /\ job'[k].format = job[k].format
      /\ Script(k)' = Script(k)
      /\ \A j \in Jobs \ {k} : job'[j] = job[j]
  BY <1>1, GotoEffect
<1>3. /\ took' = [j \in Jobs |-> took'[j]] /\ changed' \in [Jobs -> BOOLEAN]
      /\ took'[k] = Len(Sent(dialect, Script(k)))
      /\ \A j \in Jobs \ {k} : took'[j] = took[j] /\ changed'[j] = changed[j]
  BY <1>1, TargetEffect
<1>4. Shape' /\ \A j \in Jobs \ {k} : Untouched(j)
  BY <1>1, <1>2, <1>3 DEF Shape, Untouched, history
<1>6. RowTells(k)' /\ Committed(k)'
  BY <1>1, <1>2 DEF JobInv, RowTells, Committed, Live, history
<1>7. Counted(k)'
  BY <1>1, <1>2, <1>3 DEF JobInv, Counted
<1> QED
  BY <1>4, <1>6, <1>7, OneJob DEF JobInv

\* A statement of the MySQL driver's loop.
LEMMA ExecuteNextStep ==
  ASSUME IInv, NEW k \in Jobs, ExecuteNext(k), UNCHANGED dialect
  PROVE  IInv'
<1>1. Shape /\ JobInv(k)
  BY DEF IInv
<1>2. /\ JobShape'
      /\ job'[k].pc = "execute" /\ job'[k].format = job[k].format /\ job'[k].at = job[k].at + 1
      /\ \A j \in Jobs \ {k} : job'[j] = job[j]
  <2> DEFINE checks == ChecksAfter(job[k].checks, Line(k))
  <2>1. job' = [job EXCEPT ![k].at = @ + 1, ![k].checks = checks] /\ job[k].pc = "execute"
    BY DEF ExecuteNext
  <2> HIDE DEF checks
  <2>2. k \in DOMAIN job /\ JobShape
    BY <1>1 DEF Shape, JobShape
  <2>3. job'[k] = [pc |-> job[k].pc, schema |-> job[k].schema, mode |-> job[k].mode,
                   format |-> job[k].format, at |-> job[k].at + 1, checks |-> checks]
    <3>1. job'[k] = [job[k] EXCEPT !.at = @ + 1, !.checks = checks]
      BY <2>1, <2>2
    <3>2. job[k] = [pc |-> job[k].pc, schema |-> job[k].schema, mode |-> job[k].mode,
                    format |-> job[k].format, at |-> job[k].at, checks |-> job[k].checks]
      BY <2>2 DEF JobShape
    <3> QED
      BY <3>1, <3>2
  <2> QED
    BY <2>1, <2>2, <2>3 DEF JobShape
<1>3. /\ took' = [j \in Jobs |-> took'[j]] /\ changed' \in [Jobs -> BOOLEAN]
      /\ took'[k] = took[k] + 1
      /\ \A j \in Jobs \ {k} : took'[j] = took[j] /\ changed'[j] = changed[j]
  BY <1>1, TargetEffect DEF ExecuteNext
<1>4. Shape' /\ \A j \in Jobs \ {k} : Untouched(j)
  BY <1>1, <1>2, <1>3 DEF Shape, Untouched, ExecuteNext, history
<1>5. RowTells(k)' /\ Committed(k)'
  BY <1>1, <1>2 DEF JobInv, RowTells, Committed, Live, ExecuteNext, history
<1>6. Counted(k)'
  BY <1>1, <1>2, <1>3 DEF JobInv, Counted, RowTells, ExecuteNext
<1> QED
  BY <1>4, <1>5, <1>6, OneJob DEF JobInv

\* What a call that is cut off changes.
LEMMA CutOffEffect ==
  ASSUME Shape, NEW k \in Jobs, CutOff(k)
  PROVE  /\ row' = [j \in Jobs |-> row'[j]] /\ took' = [j \in Jobs |-> took'[j]]
         /\ changed' \in [Jobs -> BOOLEAN]
         /\ \/ row'[k] = row[k]
            \/ job[k].pc = "insert" /\ row'[k] = "running"
            \/ job[k].pc = "patchCompleted" /\ row'[k] = "completed"
            \/ job[k].pc = "patchFailed" /\ row'[k] = "failed"
         /\ job[k].pc = "execute" \/ (took'[k] = took[k] /\ changed'[k] = changed[k])
         /\ \A j \in Jobs \ {k} : row'[j] = row[j] /\ took'[j] = took[j] /\ changed'[j] = changed[j]
<1>1. /\ row' = [j \in Jobs |-> row'[j]]
      /\ \/ row'[k] = row[k]
         \/ job[k].pc = "insert" /\ row'[k] = "running"
         \/ job[k].pc = "patchCompleted" /\ row'[k] = "completed"
         \/ job[k].pc = "patchFailed" /\ row'[k] = "failed"
      /\ \A j \in Jobs \ {k} : row'[j] = row[j]
  BY DEF CutOff, Write, Shape
<1>2. CASE UNCHANGED target
  BY <1>1, <1>2 DEF Shape, target
<1>3. CASE job[k].pc = "execute" /\ (Commit(k) \/ TakeEffect(k))
  BY <1>1, <1>3, TargetEffect
<1> QED
  BY <1>2, <1>3 DEF CutOff

\* A rejected call.
LEMMA RejectStep ==
  ASSUME IInv, NEW k \in Jobs, Reject(k), UNCHANGED dialect
  PROVE  IInv'
<1> DEFINE caught == job[k].pc \in {"findConnection", "execute", "patchCompleted"}
           pc     == IF caught THEN "patchFailed" ELSE "refused"
<1>1. Shape /\ JobInv(k)
  BY DEF IInv
<1>2. /\ JobShape'
      /\ job'[k].pc = pc /\ job'[k].format = job[k].format /\ job'[k].at = job[k].at
      /\ Script(k)' = Script(k)
      /\ \A j \in Jobs \ {k} : job'[j] = job[j]
  BY <1>1, GotoEffect DEF Reject
<1>3. /\ row' = [j \in Jobs |-> row'[j]] /\ took' = [j \in Jobs |-> took'[j]]
      /\ changed' \in [Jobs -> BOOLEAN]
      /\ \/ row'[k] = row[k]
         \/ job[k].pc = "insert" /\ row'[k] = "running"
         \/ job[k].pc = "patchCompleted" /\ row'[k] = "completed"
         \/ job[k].pc = "patchFailed" /\ row'[k] = "failed"
      /\ job[k].pc = "execute" \/ (took'[k] = took[k] /\ changed'[k] = changed[k])
      /\ \A j \in Jobs \ {k} : row'[j] = row[j] /\ took'[j] = took[j] /\ changed'[j] = changed[j]
  BY <1>1, CutOffEffect DEF Reject
<1>4. /\ mishap' \in [Jobs -> BOOLEAN] /\ lost' \in [Jobs -> BOOLEAN]
      /\ mishap'[k] /\ lost'[k] = ~ caught
      /\ \A j \in Jobs \ {k} : mishap'[j] = mishap[j] /\ lost'[j] = lost[j]
  BY <1>1 DEF Shape, Reject
<1>5. job[k].pc \in Live
  BY DEF Reject
<1>6. Shape' /\ \A j \in Jobs \ {k} : Untouched(j)
  BY <1>2, <1>3, <1>4 DEF Shape, Untouched
<1>7. RowTells(k)'
  BY <1>1, <1>2, <1>3, <1>4, <1>5 DEF JobInv, RowTells, Live
<1>9. Counted(k)'
  BY <1>1, <1>2, <1>3, <1>5 DEF JobInv, Counted, RowTells, Live
<1>10. Committed(k)'
  BY <1>4 DEF Committed
<1> QED
  BY <1>6, <1>7, <1>9, <1>10, OneJob DEF JobInv

\* The death of the process.
LEMMA DieStep ==
  ASSUME IInv, NEW k \in Jobs, Die(k), UNCHANGED dialect
  PROVE  IInv'
<1>1. Shape /\ JobInv(k)
  BY DEF IInv
<1>2. /\ JobShape'
      /\ job'[k].pc = "dead" /\ job'[k].format = job[k].format /\ job'[k].at = job[k].at
      /\ Script(k)' = Script(k)
      /\ \A j \in Jobs \ {k} : job'[j] = job[j]
  BY <1>1, GotoEffect DEF Die
<1>3. /\ row' = [j \in Jobs |-> row'[j]] /\ took' = [j \in Jobs |-> took'[j]]
      /\ changed' \in [Jobs -> BOOLEAN]
      /\ \/ row'[k] = row[k]
         \/ job[k].pc = "insert" /\ row'[k] = "running"
         \/ job[k].pc = "patchCompleted" /\ row'[k] = "completed"
         \/ job[k].pc = "patchFailed" /\ row'[k] = "failed"
      /\ job[k].pc = "execute" \/ (took'[k] = took[k] /\ changed'[k] = changed[k])
      /\ \A j \in Jobs \ {k} : row'[j] = row[j] /\ took'[j] = took[j] /\ changed'[j] = changed[j]
  BY <1>1, CutOffEffect DEF Die
<1>4. /\ mishap' = mishap /\ lost' \in [Jobs -> BOOLEAN] /\ lost'[k]
      /\ \A j \in Jobs \ {k} : lost'[j] = lost[j]
  BY <1>1 DEF Shape, Die
<1>5. job[k].pc \in Live
  BY DEF Die
<1>6. Shape' /\ \A j \in Jobs \ {k} : Untouched(j)
  BY <1>1, <1>2, <1>3, <1>4 DEF Shape, Untouched
<1>7. RowTells(k)'
  BY <1>1, <1>2, <1>3, <1>4, <1>5 DEF JobInv, RowTells, Live
<1>9. Counted(k)'
  BY <1>1, <1>2, <1>3, <1>5 DEF JobInv, Counted, RowTells, Live
<1>10. Committed(k)'
  BY <1>1, <1>2, <1>3, <1>4, <1>5 DEF JobInv, Committed, RowTells, Live
<1> QED
  BY <1>6, <1>7, <1>9, <1>10, OneJob DEF JobInv

-----------------------------------------------------------------------------
\* Every step keeps the invariant.
LEMMA NextIInv == IInv /\ [Next]_vars => IInv'
<1>1. SUFFICES ASSUME IInv, [Next]_vars PROVE IInv'
  OBVIOUS
<1>2. CASE UNCHANGED <<dialect, job, row, target, history>>
  <2>1. \A j \in Jobs : Script(j)' = Script(j)
    BY <1>2 DEF Script
  <2> QED
    BY <1>1, <1>2, <2>1
       DEF IInv, Shape, JobShape, JobInv, RowTells, Counted, Committed, target, history
<1>3. ASSUME NEW k \in Jobs, Load(k), UNCHANGED dialect PROVE IInv'
  BY <1>1, <1>3, LoadStep
<1>4. ASSUME NEW k \in Jobs, FindDialect(k), UNCHANGED dialect PROVE IInv'
  BY <1>1, <1>4, MoveStep DEF FindDialect
<1>5. ASSUME NEW k \in Jobs, Insert(k), UNCHANGED dialect PROVE IInv'
  BY <1>1, <1>5, PatchStep DEF Insert
<1>6. ASSUME NEW k \in Jobs, FindConnection(k), UNCHANGED dialect PROVE IInv'
  BY <1>1, <1>6, MoveStep DEF FindConnection
<1>7. ASSUME NEW k \in Jobs, ExecuteAll(k), UNCHANGED dialect PROVE IInv'
  <2>1. CASE Commit(k) /\ Goto(k, "patchCompleted")
    BY <1>1, <1>7, <2>1, CommitStep DEF ExecuteAll
  <2>2. CASE Goto(k, "patchFailed") /\ UNCHANGED target
    BY <1>1, <1>7, <2>2, MoveStep DEF ExecuteAll
  <2> QED
    BY <1>7, <2>1, <2>2 DEF ExecuteAll
<1>8. ASSUME NEW k \in Jobs, ExecuteNext(k), UNCHANGED dialect PROVE IInv'
  BY <1>1, <1>8, ExecuteNextStep
<1>9. ASSUME NEW k \in Jobs, ExecuteRejected(k), UNCHANGED dialect PROVE IInv'
  BY <1>1, <1>9, MoveStep DEF ExecuteRejected
<1>10. ASSUME NEW k \in Jobs, ExecuteEnd(k), UNCHANGED dialect PROVE IInv'
  BY <1>1, <1>10, MoveStep DEF ExecuteEnd
<1>11. ASSUME NEW k \in Jobs, PatchCompleted(k), UNCHANGED dialect PROVE IInv'
  BY <1>1, <1>11, PatchStep DEF PatchCompleted
<1>12. ASSUME NEW k \in Jobs, PatchFailed(k), UNCHANGED dialect PROVE IInv'
  BY <1>1, <1>12, PatchStep DEF PatchFailed
<1>13. ASSUME NEW k \in Jobs, Reject(k), UNCHANGED dialect PROVE IInv'
  BY <1>1, <1>13, RejectStep
<1>14. ASSUME NEW k \in Jobs, Die(k), UNCHANGED dialect PROVE IInv'
  BY <1>1, <1>14, DieStep
<1>15. CASE DeleteConnection /\ UNCHANGED dialect
  BY <1>2, <1>15 DEF DeleteConnection
<1> QED
  BY <1>1, <1>2, <1>3, <1>4, <1>5, <1>6, <1>7, <1>8, <1>9, <1>10, <1>11, <1>12, <1>13, <1>14,
     <1>15 DEF Next, vars

\* The invariant holds always.
LEMMA Invariant == Spec => []IInv
  BY InitIInv, NextIInv, PTL DEF Spec

\* RunningIsServed for any number of requests, either dialect and every crash: a
\* row that says running has a handler, or its handler died or lost its last
\* write (MigrationService.create).
THEOREM NobodyForgetsAMigration == Spec => []RunningIsServed
<1>1. IInv => RunningIsServed
  BY DEF IInv, JobInv, RowTells, RunningIsServed
<1> QED
  BY <1>1, Invariant, PTL

\* CompletedSent for every script: a completed job has executed all that the
\* driver sent (executeSql of both drivers).
THEOREM CompletionIsSent == Spec => []CompletedSent
<1>1. IInv => CompletedSent
  BY DEF IInv, JobInv, Counted, CompletedSent
<1> QED
  BY <1>1, Invariant, PTL

\* On PostgreSQL that is the whole script: a completed job has executed what it
\* stores (PostgresDriver.executeSql).
THEOREM PostgresCompletes == Spec => [](dialect = "postgresql" => CompletedExecuted)
<1>1. IInv => (dialect = "postgresql" => CompletedExecuted)
  BY DEF IInv, JobInv, Counted, CompletedExecuted, Sent
<1> QED
  BY <1>1, Invariant, PTL

\* On PostgreSQL a job that failed, with no call cut off, has left the user's
\* database as it was (PostgresDriver.executeSql, one implicit transaction).
THEOREM PostgresFailsClean == Spec => []PostgresIsClean
<1>1. IInv => PostgresIsClean
  BY DEF IInv, JobInv, Committed, PostgresIsClean
<1> QED
  BY <1>1, Invariant, PTL
-----------------------------------------------------------------------------
(* Replacing on PostgreSQL *)

\* On PostgreSQL a replacing job that has something to execute and is not cut off
\* makes of the database, as it is at that moment, what its schema says
\* (PostgresDriver.executeSql after buildPostgresSQL).
THEOREM PostgresReplacesExactly ==
  Spec => [][\A j \in Jobs :
               /\ dialect = "postgresql" /\ took'[j] # took[j]
               /\ job[j].mode = "replace" /\ NamesDistinct(job[j].schema)
               => db' = Replaced(dialect, db, job[j].schema)]_vars
<1> DEFINE Exact == \A j \in Jobs :
                      /\ dialect = "postgresql" /\ took'[j] # took[j]
                      /\ job[j].mode = "replace" /\ NamesDistinct(job[j].schema)
                      => db' = Replaced(dialect, db, job[j].schema)
<1>1. ASSUME TypeOK, IInv, [Next]_vars PROVE Exact
  <2> SUFFICES ASSUME NEW j \in Jobs, dialect = "postgresql", took'[j] # took[j],
                      job[j].mode = "replace", NamesDistinct(job[j].schema)
               PROVE  db' = Replaced(dialect, db, job[j].schema)
    OBVIOUS
  <2>1. \E k \in Jobs : Commit(k)
    BY <1>1
       DEF Next, vars, target, Load, FindDialect, Insert, FindConnection, ExecuteAll, ExecuteNext,
           ExecuteRejected, ExecuteEnd, PatchCompleted, PatchFailed, Reject, Die, CutOff,
           DeleteConnection
  <2>2. PICK k \in Jobs : Commit(k)
    BY <2>1
  <2>3. k = j
    BY <1>1, <2>2, TargetEffect DEF IInv
  <2>4. db' = Run(dialect, db, Sent(dialect, Script(j))).db
    BY <2>2, <2>3 DEF Commit
  <2> QED
    BY <1>1, <2>4, PostgresReplaces
<1> HIDE DEF Exact
<1> QED
  BY <1>1, TypeCorrect, Invariant, PTL DEF Spec, Exact

\* The row says that the job failed, or is about to.
Failing(j) == row[j] = "failed" \/ job[j].pc = "patchFailed"

\* A replacing job without a mishap, whose constraints have names of their own.
Unhindered(j) ==
  dialect = "postgresql" /\ job[j].mode = "replace" /\ NamesDistinct(job[j].schema) /\ ~ mishap[j]

\* The only other thing that a job can fail for: its connection was deleted.
FailsForCause == \A j \in Jobs : Failing(j) /\ Unhindered(j) => ~ connection

\* A move to another await keeps what the job is about.
LEMMA GotoKeeps ==
  ASSUME JobShape, NEW k \in Jobs, NEW pc, Goto(k, pc), NEW j \in Jobs
  PROVE  /\ job'[j].mode = job[j].mode /\ job'[j].schema = job[j].schema
         /\ job'[j].pc = IF j = k THEN pc ELSE job[j].pc
<1>1. job'[j] = IF j = k THEN [job[j] EXCEPT !.pc = pc] ELSE job[j]
  BY DEF Goto, JobShape
<1>2. job[j] = [pc |-> job[j].pc, schema |-> job[j].schema, mode |-> job[j].mode,
                format |-> job[j].format, at |-> job[j].at, checks |-> job[j].checks]
  BY DEF JobShape
<1> QED
  BY <1>1, <1>2

\* A handler that fails at this step fails because of a mishap, a deleted connection or a
\* rejected script.
LEMMA FailingStep ==
  ASSUME TypeOK, IInv, [Next]_vars, NEW j \in Jobs, Failing(j)', ~ mishap'[j], dialect = "postgresql"
  PROVE  \/ /\ Failing(j) /\ ~ mishap[j]
            /\ job'[j].mode = job[j].mode /\ job'[j].schema = job[j].schema
         \/ ~ connection
         \/ /\ job'[j].mode = job[j].mode /\ job'[j].schema = job[j].schema
            /\ Run(dialect, db, Sent(dialect, Script(j))).failed
<1> DEFINE Goal ==
      \/ /\ Failing(j) /\ ~ mishap[j]
         /\ job'[j].mode = job[j].mode /\ job'[j].schema = job[j].schema
      \/ ~ connection
      \/ /\ job'[j].mode = job[j].mode /\ job'[j].schema = job[j].schema
         /\ Run(dialect, db, Sent(dialect, Script(j))).failed
<1>1. JobShape /\ RowTells(j) /\ row = [i \in Jobs |-> row[i]] /\ mishap \in [Jobs -> BOOLEAN]
  BY DEF IInv, Shape, JobInv
<1>2. ASSUME UNCHANGED <<job, row, mishap>> PROVE Goal
  BY <1>2 DEF Failing
<1>3. ASSUME NEW k \in Jobs, NEW pc, Goto(k, pc), UNCHANGED mishap,
             row'[j] = "failed" => row[j] = "failed" \/ (j = k /\ job[k].pc = "patchFailed"),
             j = k /\ pc = "patchFailed" =>
               ~ connection \/ Run(dialect, db, Sent(dialect, Script(j))).failed
      PROVE  Goal
  <2>1. /\ job'[j].mode = job[j].mode /\ job'[j].schema = job[j].schema
        /\ job'[j].pc = IF j = k THEN pc ELSE job[j].pc
    BY <1>1, <1>3, GotoKeeps
  <2> QED
    BY <1>3, <2>1 DEF Failing
<1>4. ASSUME NEW k \in Jobs, Load(k) PROVE Goal
  <2>1. CASE j = k
    <3>1. row'[j] # "failed"
      BY <1>1, <1>4, <2>1 DEF Load, RowTells
    <3>2. job'[j].pc # "patchFailed"
      BY <1>1, <1>4, <2>1 DEF Load, JobShape
    <3> QED
      BY <3>1, <3>2 DEF Failing
  <2>2. CASE j # k
    BY <1>1, <1>4, <2>2 DEF Load, JobShape, Failing, history
  <2> QED
    BY <2>1, <2>2
<1>5. ASSUME NEW k \in Jobs, Reject(k) PROVE Goal
  <2>1. j # k
    BY <1>1, <1>5 DEF Reject
  <2>2. row'[j] = row[j]
    BY <1>5, <2>1, CutOffEffect DEF Reject, IInv
  <2>3. job'[j] = job[j] /\ mishap'[j] = mishap[j]
    BY <1>1, <1>5, <2>1 DEF Reject, Goto, JobShape
  <2> QED
    BY <2>2, <2>3 DEF Failing
<1>6. ASSUME NEW k \in Jobs, Die(k) PROVE Goal
  <2>1. row'[j] = "failed" => row[j] = "failed" \/ (j = k /\ job[k].pc = "patchFailed")
    <3>1. CASE j = k
      BY <1>6, <3>1, CutOffEffect DEF Die, IInv
    <3>2. CASE j # k
      BY <1>6, <3>2, CutOffEffect DEF Die, IInv
    <3> QED
      BY <3>1, <3>2
  <2> QED
    BY <1>3, <1>6, <2>1 DEF Die
<1> HIDE DEF Goal
<1>7. ASSUME NEW k \in Jobs, FindDialect(k) \/ PatchCompleted(k) \/ PatchFailed(k) \/ Insert(k) PROVE Goal
  <2>1. row'[j] = "failed" => row[j] = "failed" \/ (j = k /\ job[k].pc = "patchFailed")
    BY <1>1, <1>7 DEF FindDialect, Insert, PatchCompleted, PatchFailed, Write
  <2>2. UNCHANGED mishap
    BY <1>7 DEF FindDialect, Insert, PatchCompleted, PatchFailed, history
  <2>3. \E pc : Goto(k, pc) /\ pc # "patchFailed"
    BY <1>7 DEF FindDialect, Insert, PatchCompleted, PatchFailed
  <2> QED
    BY <1>3, <2>1, <2>2, <2>3
<1>8. ASSUME NEW k \in Jobs, FindConnection(k) PROVE Goal
  <2> DEFINE pc == IF connection THEN "execute" ELSE "patchFailed"
  <2>1. Goto(k, pc) /\ row' = row /\ mishap' = mishap
    BY <1>8 DEF FindConnection, history
  <2>2. pc = "patchFailed" => ~ connection
    OBVIOUS
  <2> HIDE DEF pc
  <2> QED
    BY <1>3, <2>1, <2>2
<1>9. ASSUME NEW k \in Jobs, ExecuteAll(k) PROVE Goal
  <2>1. row' = row /\ mishap' = mishap
    BY <1>9 DEF ExecuteAll, history
  <2>2. CASE Goto(k, "patchCompleted")
    <3> DEFINE pc == "patchCompleted"
    <3>1. Goto(k, pc) /\ pc # "patchFailed"
      BY <2>2
    <3> HIDE DEF pc
    <3> QED
      BY <1>3, <2>1, <3>1
  <2>3. CASE Run(dialect, db, Sent(dialect, Script(k))).failed /\ Goto(k, "patchFailed")
    BY <1>3, <2>1, <2>3
  <2> QED
    BY <1>9, <2>2, <2>3 DEF ExecuteAll
<1>10. \A k \in Jobs : ~ (ExecuteNext(k) \/ ExecuteRejected(k) \/ ExecuteEnd(k))
  BY DEF ExecuteNext, ExecuteRejected, ExecuteEnd
<1>11. ASSUME UNCHANGED vars PROVE Goal
  BY <1>2, <1>11 DEF vars, history
<1>12. ASSUME DeleteConnection PROVE Goal
  BY <1>2, <1>12 DEF DeleteConnection, history
<1>13. ASSUME NEW k \in Jobs,
              \/ Load(k) \/ FindDialect(k) \/ Insert(k) \/ FindConnection(k)
              \/ ExecuteAll(k) \/ PatchCompleted(k) \/ PatchFailed(k) \/ Reject(k) \/ Die(k)
       PROVE  Goal
  BY <1>4, <1>5, <1>6, <1>7, <1>8, <1>9, <1>13
<1>14. Goal
  BY <1>10, <1>11, <1>12, <1>13 DEF Next
<1> QED
  BY <1>14 DEF Goal

\* A connection that was deleted does not come back, and the dialect stays.
LEMMA ConnectionStays ==
  ASSUME [Next]_vars
  PROVE  (~ connection => connection' = connection) /\ dialect' = dialect
BY DEF Next, vars, Load, FindDialect, Insert, FindConnection, ExecuteAll, ExecuteNext,
       ExecuteRejected, ExecuteEnd, PatchCompleted, PatchFailed, Reject, Die, DeleteConnection

\* Whatever the user or other jobs left in a PostgreSQL database, a replacing job whose
\* constraints have names of their own fails only because a call was rejected or the
\* connection deleted: the server takes its script (MigrationService.create).
THEOREM ReplaceFailsForCause ==
  Spec => [](dialect = "postgresql" =>
               \A j \in Jobs :
                 /\ row[j] = "failed" /\ job[j].mode = "replace" /\ NamesDistinct(job[j].schema)
                 /\ ~ mishap[j]
                 => ~ connection)
<1> DEFINE Says ==
      dialect = "postgresql" =>
        \A j \in Jobs :
          /\ row[j] = "failed" /\ job[j].mode = "replace" /\ NamesDistinct(job[j].schema)
          /\ ~ mishap[j]
          => ~ connection
<1>1. Init => FailsForCause
  BY DEF Init, FailsForCause, Failing
<1>2. ASSUME TypeOK, IInv, FailsForCause, [Next]_vars PROVE FailsForCause'
  <2> SUFFICES ASSUME NEW j \in Jobs, Failing(j)', Unhindered(j)' PROVE ~ connection'
    BY DEF FailsForCause
  <2>1. dialect' = dialect /\ (~ connection => connection' = connection)
    BY <1>2, ConnectionStays
  <2>2. dialect = "postgresql" /\ ~ mishap'[j]
    BY <2>1 DEF Unhindered
  <2>3. \/ /\ Failing(j) /\ ~ mishap[j]
           /\ job'[j].mode = job[j].mode /\ job'[j].schema = job[j].schema
        \/ ~ connection
        \/ /\ job'[j].mode = job[j].mode /\ job'[j].schema = job[j].schema
           /\ Run(dialect, db, Sent(dialect, Script(j))).failed
    BY <1>2, <2>2, FailingStep
  <2>4. ASSUME job'[j].mode = job[j].mode, job'[j].schema = job[j].schema
        PROVE  job[j].mode = "replace" /\ NamesDistinct(job[j].schema)
    BY <2>4 DEF Unhindered, NamesDistinct
  <2>5. CASE Failing(j) /\ ~ mishap[j] /\ job'[j].mode = job[j].mode /\ job'[j].schema = job[j].schema
    <3>1. ~ connection
      BY <1>2, <2>2, <2>4, <2>5 DEF FailsForCause, Unhindered
    <3> QED
      BY <2>1, <3>1
  <2>6. CASE /\ job'[j].mode = job[j].mode /\ job'[j].schema = job[j].schema
             /\ Run(dialect, db, Sent(dialect, Script(j))).failed
    BY <1>2, <2>2, <2>4, <2>6, PostgresReplaces
  <2> QED
    BY <2>1, <2>3, <2>5, <2>6
<1>3. FailsForCause => Says
  BY DEF FailsForCause, Failing, Unhindered
<1>4. QED
  <2> HIDE DEF Says
  <2>1. Spec => []FailsForCause
    BY <1>1, <1>2, TypeCorrect, Invariant, PTL DEF Spec
  <2>2. Spec => []Says
    BY <1>3, <2>1, PTL
  <2> QED
    BY <2>2 DEF Says
=============================================================================
