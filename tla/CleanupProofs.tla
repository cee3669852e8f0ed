---------------------------- MODULE CleanupProofs ----------------------------
(* Proofs about SessionCleanup, for any number of overlapping passes.      *)
EXTENDS SessionCleanup, FiniteSetTheorems, TLAPS

(* Stamps follow the order of the sessions, except that a directory being  *)
(* removed may have become younger.                                        *)
StampsOrdered ==
  \A s, t \in sessions : s < t /\ s \notin half => stamp[s] < stamp[t]

StartedOnly ==
  /\ \A s \in sessions : s <= started /\ stamp[s] <= clock
  /\ rec = "recording" => started > 0

(* What a pass has still to read started before what it protects.          *)
RowsOlder ==
  \A p \in Passes :
    /\ head[p].id <= started
    /\ \A r \in rows[p] : head[p].half = "yes" \/ r.id < head[p].id

IInv == TypeOK /\ StampsOrdered /\ StartedOnly /\ RowsOlder

USE CleanupAssumption

(* A row says what the directory was when it was listed.                   *)
LEMMA RowFields ==
  ASSUME TypeOK, NEW s \in sessions
  PROVE  /\ Row(s) \in RowType
         /\ Row(s).id = s /\ Row(s).stamp = stamp[s] /\ (Row(s).half = "yes" <=> s \in half)
<1>1. s \in Ids /\ stamp[s] \in 0..MaxClock /\ size[s] \in 0..MaxSize
  BY DEF TypeOK
<1>2. Row(s).id = s /\ Row(s).stamp = stamp[s] /\ (Row(s).half = "yes" <=> s \in half)
  BY DEF Row
<1>3. Row(s) \in RowType
  BY <1>1 DEF Row, RowType
<1> QED BY <1>2, <1>3

LEMMA NoRowId == NoRow.id = 0 /\ NoRow.half = "no"
BY DEF NoRow

LEMMA HeadIds ==
  ASSUME TypeOK, NEW p \in Passes
  PROVE  head[p].id \in Nat /\ \A r \in rows[p] : r \in RowType /\ r.id \in Nat
<1>1. head[p] \in RowType \union {NoRow} /\ rows[p] \subseteq RowType
  BY DEF TypeOK
<1>2. \A r \in RowType : r.id \in Nat
  BY DEF RowType, Ids
<1> QED BY <1>1, <1>2, NoRowId

LEMMA InitIInv == Init => IInv
<1> SUFFICES ASSUME Init PROVE IInv
  OBVIOUS
<1>1. TypeOK
  BY DEF Init, TypeOK, Ids
<1>2. StampsOrdered /\ StartedOnly
  BY DEF Init, StampsOrdered, StartedOnly
<1>3. RowsOlder
  BY NoRowId DEF Init, RowsOlder
<1> QED BY <1>1, <1>2, <1>3 DEF IInv

(* The invariant through each kind of step.                                *)
LEMMA RecorderIInv ==
  ASSUME IInv, Recorder \/ TimePasses
  PROVE  IInv'
<1>1. CASE RecorderCleans
  <2>1. TypeOK'
    BY <1>1 DEF RecorderCleans, IInv, TypeOK, disk
  <2>2. StampsOrdered' /\ StartedOnly' /\ RowsOlder'
    BY <1>1 DEF RecorderCleans, IInv, StampsOrdered, StartedOnly, RowsOlder, disk
  <2> QED BY <2>1, <2>2 DEF IInv
<1>2. CASE OpenSession
  <2>2. /\ started' = started + 1 /\ started \in Nat /\ started' \in Ids
        /\ sessions' = sessions \union {started'} /\ UNCHANGED <<half, clock>>
        /\ \A s \in sessions : s \in Ids /\ s <= started /\ stamp'[s] = stamp[s]
        /\ stamp'[started'] = clock /\ clock \in Nat
    BY <1>2 DEF OpenSession, IInv, TypeOK, StartedOnly, Ids
  <2>1. TypeOK'
    <3>1. rec' \in {"off", "recording"}
      BY <1>2 DEF OpenSession
    <3>2. stamp' \in [Ids -> 0..MaxClock] /\ started' \in 0..MaxSession
      BY <1>2, <2>2 DEF OpenSession, IInv, TypeOK, Ids
    <3> QED BY <1>2, <2>2, <3>1, <3>2 DEF OpenSession, IInv, TypeOK, pass
  <2>3. StampsOrdered'
    <3> SUFFICES ASSUME NEW s \in sessions', NEW t \in sessions', s < t, s \notin half
                 PROVE  stamp'[s] < stamp'[t]
      BY <2>2 DEF StampsOrdered
    <3>1. s \in sessions
      BY <2>2 DEF Ids
    <3>2. CASE t \in sessions
      BY <2>2, <3>1, <3>2 DEF IInv, StampsOrdered
    <3>3. CASE t = started'
      BY <1>2, <2>2, <3>1, <3>3 DEF OpenSession
    <3> QED BY <2>2, <3>2, <3>3
  <2>4. StartedOnly'
    BY <2>2 DEF IInv, StartedOnly, Ids
  <2>5. RowsOlder'
    <3>1. UNCHANGED <<head, rows>>
      BY <1>2 DEF OpenSession, pass
    <3> QED BY <2>2, <3>1, HeadIds DEF IInv, RowsOlder
  <2> QED BY <2>1, <2>3, <2>4, <2>5 DEF IInv
<1>3. CASE SessionGrows
  <2>1. started \in Ids
    BY <1>3 DEF SessionGrows, IInv, TypeOK, StartedOnly, Ids
  <2>2. TypeOK'
    BY <1>3, <2>1 DEF SessionGrows, IInv, TypeOK, pass
  <2>3. StampsOrdered' /\ StartedOnly' /\ RowsOlder'
    BY <1>3 DEF SessionGrows, IInv, StampsOrdered, StartedOnly, RowsOlder, pass
  <2> QED BY <2>2, <2>3 DEF IInv
<1>4. CASE SessionEnds
  BY <1>4 DEF SessionEnds, IInv, TypeOK, StampsOrdered, StartedOnly, RowsOlder, disk, pass
<1>5. CASE TimePasses
  <2>1. TypeOK'
    BY <1>5 DEF TimePasses, IInv, TypeOK, disk, pass
  <2>2. StampsOrdered' /\ RowsOlder'
    BY <1>5 DEF TimePasses, IInv, StampsOrdered, RowsOlder, disk, pass
  <2>3. StartedOnly'
    BY <1>5 DEF TimePasses, IInv, TypeOK, StartedOnly, disk
  <2> QED BY <2>1, <2>2, <2>3 DEF IInv
<1> QED BY <1>1, <1>2, <1>3, <1>4, <1>5 DEF Recorder

LEMMA EndsIInv ==
  ASSUME IInv, NEW p \in Passes, NEW o \in {"swept", "unswept"}, Ends(p, o),
         UNCHANGED <<disk, started, clock>>, cutoff' \in [Passes -> Int]
  PROVE  IInv'
<1>1. TypeOK'
  BY DEF IInv, TypeOK, Ends, disk
<1>2. StampsOrdered' /\ StartedOnly'
  BY DEF IInv, StampsOrdered, StartedOnly, Ends, disk
<1>3. RowsOlder'
  BY NoRowId DEF IInv, TypeOK, RowsOlder, Ends
<1> QED BY <1>1, <1>2, <1>3 DEF IInv

LEMMA CleanupIInv ==
  ASSUME IInv, NEW p \in Passes, Cleanup(p)
  PROVE  IInv'
<1>1. CASE OperatorCleans(p)
  BY <1>1 DEF OperatorCleans, IInv, TypeOK, StampsOrdered, StartedOnly, RowsOlder, disk
<1>2. CASE ListAndProtect(p)
  <2> DEFINE listed == {Row(s) : s \in sessions}
  <2>1. CASE listed = {}
    BY <1>2, <2>1, EndsIInv DEF ListAndProtect, IInv, TypeOK
  <2>2. CASE listed # {}
    <3>1. PICK r \in Newest(listed) :
            /\ head' = [head EXCEPT ![p] = r]
            /\ rows' = [rows EXCEPT ![p] = listed \ {r}]
            /\ cumulative_kb' = [cumulative_kb EXCEPT ![p] = r.size]
            /\ over_budget' = [over_budget EXCEPT ![p] =
                                 IF r.size <= MaxTotal THEN "no" ELSE "yes"]
            /\ cutoff' = [cutoff EXCEPT ![p] = clock - Retention]
            /\ pc' = [pc EXCEPT ![p] = "reading"]
            /\ UNCHANGED <<rec, victim, disk, started, clock>>
      BY <1>2, <2>2 DEF ListAndProtect
    <3>2. listed \subseteq RowType /\ r \in listed
      BY <3>1, RowFields DEF Newest, IInv
    <3>3. ASSUME NEW q \in listed, q # r PROVE r.half = "yes" \/ q.id < r.id
      <4>1. PICK s \in sessions : r = Row(s)
        BY <3>2
      <4>2. PICK t \in sessions : q = Row(t)
        BY <3>3
      <4>3. stamp[t] <= stamp[s] /\ s # t
        BY <3>1, <3>3, <4>1, <4>2, RowFields DEF Newest, IInv
      <4>4. s \notin half => t < s
        <5>1. s \in Nat /\ t \in Nat /\ stamp[s] \in Nat /\ stamp[t] \in Nat
          BY DEF IInv, TypeOK, Ids
        <5> QED BY <4>3, <5>1 DEF IInv, StampsOrdered
      <4> QED BY <4>1, <4>2, <4>4, RowFields DEF IInv
    <3>4. r.id <= started
      BY <3>2, RowFields DEF IInv, StartedOnly
    <3>5. TypeOK'
      BY <3>1, <3>2 DEF IInv, TypeOK, RowType, disk
    <3>6. RowsOlder'
      BY <3>1, <3>3, <3>4 DEF IInv, TypeOK, RowsOlder
    <3>7. StampsOrdered' /\ StartedOnly'
      BY <3>1 DEF IInv, StampsOrdered, StartedOnly, disk
    <3> QED BY <3>5, <3>6, <3>7 DEF IInv
  <2> QED BY <2>1, <2>2
<1>3. CASE ReadRow(p)
  <2>1. PICK r \in rows[p] : 
          /\ rows' = [rows EXCEPT ![p] = @ \ {r}]
          /\ cumulative_kb' = [cumulative_kb EXCEPT ![p] = @]
             \/ cumulative_kb' = [cumulative_kb EXCEPT ![p] = @ + r.size]
          /\ over_budget' = [over_budget EXCEPT ![p] = "yes"]
             \/ over_budget' = [over_budget EXCEPT ![p] = @]
          /\ Remove(p, r.id) \/ UNCHANGED <<half, stamp, victim, pc>>
          /\ UNCHANGED <<sessions, size, started, rec, clock, head, cutoff>>
    BY <1>3 DEF ReadRow, Newest
  <2>2. r \in RowType /\ r.id \in Ids /\ r.size \in Nat
    BY <2>1 DEF IInv, TypeOK, RowType
  <2>3. RowsOlder'
    BY <2>1 DEF IInv, TypeOK, RowsOlder
  <2>4. /\ half \subseteq half' /\ half' \subseteq sessions
        /\ stamp' \in [Ids -> 0..MaxClock]
        /\ \A s \in Ids : stamp'[s] = stamp[s] \/ (s \in half' /\ stamp'[s] = clock)
        /\ victim' \in [Passes -> Ids \union {0}]
        /\ pc' \in [Passes -> {"idle", "listing", "reading", "removing"}]
    BY <2>1, <2>2 DEF Remove, IInv, TypeOK, RowType
  <2>5. TypeOK'
    <3>1. cumulative_kb' \in [Passes -> Nat] /\ over_budget' \in [Passes -> {"yes", "no"}]
      BY <2>1, <2>2 DEF IInv, TypeOK
    <3>2. rows' \in [Passes -> SUBSET RowType]
      BY <2>1 DEF IInv, TypeOK
    <3> QED BY <2>1, <2>4, <3>1, <3>2 DEF IInv, TypeOK
  <2>6. StartedOnly'
    BY <2>1, <2>4 DEF IInv, TypeOK, StartedOnly
  <2>7. StampsOrdered'
    <3> SUFFICES ASSUME NEW s \in sessions, NEW t \in sessions, s < t, s \notin half'
                 PROVE  stamp'[s] < stamp'[t]
      BY <2>1 DEF StampsOrdered
    <3>1. s \in Ids /\ t \in Ids /\ s \notin half /\ stamp'[s] = stamp[s]
      BY <2>4 DEF IInv, TypeOK
    <3>2. stamp[s] < stamp[t]
      BY <3>1 DEF IInv, StampsOrdered
    <3>3. stamp[s] \in Nat /\ stamp[t] \in Nat /\ stamp[t] <= clock /\ clock \in Nat
      BY <3>1 DEF IInv, TypeOK, StartedOnly
    <3> QED BY <2>4, <3>1, <3>2, <3>3
  <2> QED BY <2>3, <2>5, <2>6, <2>7 DEF IInv
<1>4. CASE RemoveEnds(p)
  BY <1>4 DEF RemoveEnds, IInv, TypeOK, StampsOrdered, StartedOnly, RowsOlder
<1>5. CASE PassEnds(p)
  BY <1>5, EndsIInv DEF PassEnds, IInv, TypeOK
<1>6. CASE Interrupted(p)
  BY <1>6, EndsIInv DEF Interrupted, IInv, TypeOK
<1> QED BY <1>1, <1>2, <1>3, <1>4, <1>5, <1>6 DEF Cleanup

LEMMA Inductive == IInv /\ [Next]_vars => IInv'
<1> SUFFICES ASSUME IInv, [Next]_vars PROVE IInv'
  OBVIOUS
<1>1. CASE UNCHANGED vars
  BY <1>1 DEF vars, disk, pass, IInv, TypeOK, StampsOrdered, StartedOnly, RowsOlder
<1> QED BY <1>1, RecorderIInv, CleanupIInv DEF Next

LEMMA AlwaysIInv == Spec => []IInv
BY InitIInv, Inductive, PTL DEF Spec

(* Directories, stamps and the variables of every pass stay in their types. *)
THEOREM CleanupTyping == Spec => []TypeOK
<1>1. IInv => TypeOK
  BY DEF IInv
<1> QED BY <1>1, AlwaysIInv, PTL

(* No pass sets about the session being written, or one that started after *)
(* the one it protects, unless what it protects is a removal's leftover.   *)
THEOREM LiveSessionSafe == Spec => LiveNeverRemoved
<1>1. ASSUME IInv, [Next]_vars, NEW p \in Passes, BeginsToRemove(p)
      PROVE  (victim'[p] < head[p].id /\ victim'[p] # Live) \/ head[p].half = "yes"
  <2>1. /\ pc \in [Passes -> {"idle", "listing", "reading", "removing"}]
        /\ pc[p] = "reading" /\ pc'[p] = "removing"
    BY <1>1 DEF BeginsToRemove, IInv, TypeOK
  <2>2. ~(Recorder \/ TimePasses \/ UNCHANGED vars)
    BY <2>1 DEF Recorder, RecorderCleans, OpenSession, SessionGrows, SessionEnds,
                TimePasses, vars, pass
  <2>3. PICK q \in Passes : Cleanup(q)
    BY <1>1, <2>2 DEF Next
  <2>4. ~(OperatorCleans(q) \/ ListAndProtect(q) \/ RemoveEnds(q) \/ PassEnds(q)
          \/ Interrupted(q))
    BY <2>1 DEF OperatorCleans, ListAndProtect, RemoveEnds, PassEnds, Interrupted, Ends
  <2>5. ReadRow(q)
    BY <2>3, <2>4 DEF Cleanup
  <2>6. PICK r \in rows[q] : Remove(q, r.id) \/ UNCHANGED pc
    BY <2>5 DEF ReadRow, Newest
  <2>7. q = p /\ victim'[p] = r.id
    BY <1>1, <2>1, <2>6 DEF Remove, IInv, TypeOK
  <2>8. /\ r.id \in Nat \ {0} /\ head[p].id \in Nat /\ head[p].id <= started
        /\ started \in Nat
    <3>1. r \in RowType /\ head[p].id \in Nat
      BY <1>1, <2>6, <2>7, HeadIds DEF IInv
    <3>2. r.id \in Ids /\ head[p].id <= started /\ started \in Nat
      BY <1>1, <3>1 DEF IInv, TypeOK, RowsOlder, RowType
    <3> QED BY <3>1, <3>2 DEF Ids
  <2>9. head[p].half = "yes" \/ r.id < head[p].id
    BY <1>1, <2>6, <2>7 DEF IInv, RowsOlder
  <2> QED BY <2>7, <2>8, <2>9 DEF Live
<1>2. IInv /\ [Next]_vars =>
        [\A p \in Passes :
           BeginsToRemove(p) => \/ victim'[p] < head[p].id /\ victim'[p] # Live
                                \/ head[p].half = "yes"]_vars
  BY <1>1
<1> QED BY <1>2, AlwaysIInv, PTL DEF Spec, LiveNeverRemoved
-----------------------------------------------------------------------------
(* Sums over a finite set.  MapThenSumSet takes the elements out in an     *)
(* order of its own; that the sum does not depend on it, and so grows with *)
(* the set, is by induction on the set: a smallest counterexample would    *)
(* leave a smaller one.                                                    *)
Total(f, S) == MapThenSumSet(LAMBDA s : f[s], S)

Step(f, g, s) ==
  IF s = {} THEN 0 ELSE LET x == CHOOSE y \in s : TRUE IN f[x] + g[s \ {x}]

Sums(f, S, g) == g = [s \in SUBSET S |-> Step(f, g, s)]

(* Of any sets of elements of S one has none of the others just below it.  *)
LEMMA SmallestSet ==
  ASSUME NEW S, IsFiniteSet(S), NEW B \in SUBSET (SUBSET S), B # {}
  PROVE  \E T \in B : \A x \in T : T \ {x} \notin B
<1>1. IsWellFoundedOn(StrictSubsetOrdering(S), FiniteSubsetsOf(S))
  BY FS_StrictSubsetOrderingWellFounded
<1>2. B \subseteq FiniteSubsetsOf(S)
  BY FS_Subset DEF FiniteSubsetsOf
<1>3. PICK T \in B : \A U \in B : ~(<<U, T>> \in StrictSubsetOrdering(S))
  BY <1>1, <1>2, WFMin
<1>4. ASSUME NEW x \in T, T \ {x} \in B PROVE FALSE
  <2>1. T \in SUBSET S /\ T \ {x} \in SUBSET S /\ T \ {x} \subseteq T /\ T \ {x} # T
    OBVIOUS
  <2>2. <<T \ {x}, T>> \in StrictSubsetOrdering(S)
    BY <2>1 DEF StrictSubsetOrdering
  <2> QED BY <1>3, <1>4, <2>2
<1> QED BY <1>4

(* The recursion has a solution: on the sets smaller than n, for every n.  *)
LEMMA SumsExist ==
  ASSUME NEW S, IsFiniteSet(S), NEW f
  PROVE  \E g : Sums(f, S, g)
<1> DEFINE Below(n) == {s \in SUBSET S : Cardinality(s) < n}
           Good(n) == \E h : h = [s \in Below(n) |-> Step(f, h, s)]
           Bad == {n \in Nat : ~Good(n)}
<1>0. \A s \in SUBSET S : IsFiniteSet(s) /\ Cardinality(s) \in Nat /\ Cardinality(s) <= Cardinality(S)
  BY FS_Subset, FS_CardinalityType
<1>1. Good(0)
  <2>1. Below(0) = {}
    BY <1>0
  <2>2. PICK h : h = [s \in {} |-> s]
    OBVIOUS
  <2>3. h = [s \in Below(0) |-> Step(f, h, s)]
    BY <2>1, <2>2
  <2> QED BY <2>3
<1>2. ASSUME NEW n \in Nat, Good(n) PROVE Good(n + 1)
  <2>1. PICK h : h = [s \in Below(n) |-> Step(f, h, s)]
    BY <1>2
  <2>2. PICK g : g = [s \in Below(n + 1) |-> Step(f, h, s)]
    OBVIOUS
  <2>3. \A s \in Below(n) : g[s] = h[s]
    BY <1>0, <2>1, <2>2
  <2>4. ASSUME NEW s \in Below(n + 1) PROVE Step(f, g, s) = Step(f, h, s)
    <3>1. CASE s = {}
      BY <3>1 DEF Step
    <3>2. CASE s # {}
      <4>1. PICK x : x = CHOOSE y \in s : TRUE
        OBVIOUS
      <4>2. x \in s
        BY <3>2, <4>1
      <4>3. Cardinality(s \ {x}) = Cardinality(s) - 1
        BY <1>0, <4>2, FS_RemoveElement
      <4>4. s \ {x} \in Below(n)
        BY <1>0, <4>3
      <4> QED BY <2>3, <4>1, <4>4 DEF Step
    <3> QED BY <3>1, <3>2
  <2>5. g = [s \in Below(n + 1) |-> Step(f, g, s)]
    BY <2>2, <2>4
  <2> QED BY <2>5
<1>3. Bad = {}
  <2>1. SUFFICES ASSUME Bad # {} PROVE FALSE
    OBVIOUS
  <2>2. PICK n \in Bad : \A m \in Bad : ~(<<m, n>> \in OpToRel(<, Nat))
    BY <2>1, NatLessThanWellFounded, WFMin
  <2>3. n \in Nat /\ ~Good(n)
    OBVIOUS
  <2> HIDE DEF Good
  <2>4. PICK m \in Nat : n = m + 1
    <3>1. n # 0
      BY <1>1, <2>3
    <3>2. n - 1 \in Nat /\ n = n - 1 + 1
      BY <2>3, <3>1
    <3> QED BY <3>2
  <2>5. <<m, n>> \in OpToRel(<, Nat)
    BY <2>3, <2>4 DEF OpToRel
  <2>6. Good(m)
    BY <2>2, <2>5
  <2>7. Good(m + 1)
    BY <1>2, <2>6
  <2> QED BY <2>3, <2>4, <2>7
<1>4. Cardinality(S) + 1 \in Nat
  BY FS_CardinalityType
<1>5. Good(Cardinality(S) + 1)
  BY <1>3, <1>4
<1>6. Below(Cardinality(S) + 1) = SUBSET S
  BY <1>0, <1>4
<1> QED BY <1>5, <1>6 DEF Sums

(* The sum is what such a solution says of the whole set.                  *)
LEMMA TotalSums ==
  ASSUME NEW S, IsFiniteSet(S), NEW f
  PROVE  \E g : Sums(f, S, g) /\ Total(f, S) = g[S]
<1>1. \E g : Total(f, S) = g[S] /\ g = CHOOSE h : Sums(f, S, h)
  BY DEF Total, MapThenSumSet, MapThenFoldSet, Sums, Step
<1>2. \E h : Sums(f, S, h)
  BY SumsExist
<1> QED BY <1>1, <1>2

(* There is one solution only.                                             *)
LEMMA SumsAgree ==
  ASSUME NEW S, IsFiniteSet(S), NEW f, NEW T \in SUBSET S, NEW g, Sums(f, S, g), NEW h, Sums(f, T, h)
  PROVE  \A U \in SUBSET T : g[U] = h[U]
<1> DEFINE B == {U \in SUBSET T : g[U] # h[U]}
<1>1. SUFFICES ASSUME B # {} PROVE FALSE
  OBVIOUS
<1>2. IsFiniteSet(T)
  BY FS_Subset
<1>3. PICK U \in B : \A x \in U : U \ {x} \notin B
  <2>1. B \in SUBSET (SUBSET T)
    OBVIOUS
  <2> HIDE DEF B
  <2> QED BY <1>1, <1>2, <2>1, SmallestSet
<1>4. g[U] = Step(f, g, U) /\ h[U] = Step(f, h, U) /\ g[U] # h[U]
  BY DEF Sums
<1>5. U # {}
  BY <1>4 DEF Step
<1>6. PICK x : x = CHOOSE y \in U : TRUE
  OBVIOUS
<1>7. x \in U
  BY <1>5, <1>6
<1>8. g[U \ {x}] = h[U \ {x}]
  BY <1>3, <1>7
<1> QED BY <1>4, <1>6, <1>8 DEF Step

LEMMA TotalStep ==
  ASSUME NEW S, IsFiniteSet(S), NEW f
  PROVE  /\ Total(f, {}) = 0
         /\ S # {} => \E x \in S : Total(f, S) = f[x] + Total(f, S \ {x})
<1>1. PICK g : Sums(f, S, g) /\ Total(f, S) = g[S]
  BY TotalSums
<1>2. ASSUME NEW T \in SUBSET S PROVE Total(f, T) = g[T]
  <2>1. IsFiniteSet(T)
    BY FS_Subset
  <2>2. PICK h : Sums(f, T, h) /\ Total(f, T) = h[T]
    BY <2>1, TotalSums
  <2> QED BY <1>1, <2>2, SumsAgree
<1>3. Total(f, {}) = 0
  BY <1>1, <1>2 DEF Sums, Step
<1>4. ASSUME S # {} PROVE \E x \in S : Total(f, S) = f[x] + Total(f, S \ {x})
  <2>1. PICK x : x = CHOOSE y \in S : TRUE
    OBVIOUS
  <2>2. x \in S
    BY <1>4, <2>1
  <2>3. g[S] = f[x] + g[S \ {x}]
    BY <1>1, <1>4, <2>1 DEF Sums, Step
  <2> QED BY <1>1, <1>2, <2>2, <2>3
<1> QED BY <1>3, <1>4

LEMMA TotalNat ==
  ASSUME NEW S, IsFiniteSet(S), NEW f, \A x \in S : f[x] \in Nat
  PROVE  \A T \in SUBSET S : Total(f, T) \in Nat
<1> DEFINE B == {T \in SUBSET S : Total(f, T) \notin Nat}
<1>1. SUFFICES ASSUME B # {} PROVE FALSE
  OBVIOUS
<1>2. PICK T \in B : \A x \in T : T \ {x} \notin B
  <2>1. B \in SUBSET (SUBSET S)
    OBVIOUS
  <2> HIDE DEF B
  <2> QED BY <1>1, <2>1, SmallestSet
<1>3. IsFiniteSet(T) /\ T \in SUBSET S /\ Total(f, T) \notin Nat
  BY FS_Subset
<1>4. PICK x \in T : Total(f, T) = f[x] + Total(f, T \ {x})
  <2>1. T # {}
    <3>1. Total(f, {}) = 0
      BY TotalStep
    <3> QED BY <1>3, <3>1
  <2> QED BY <1>3, <2>1, TotalStep
<1>5. Total(f, T \ {x}) \in Nat
  BY <1>2, <1>3
<1> QED BY <1>3, <1>4, <1>5

(* Any element may be taken out first.                                     *)
LEMMA TotalRemove ==
  ASSUME NEW S, IsFiniteSet(S), NEW f, \A x \in S : f[x] \in Nat
  PROVE  \A T \in SUBSET S : \A y \in T : Total(f, T) = f[y] + Total(f, T \ {y})
<1> DEFINE Additive(T) == \A y \in T : Total(f, T) = f[y] + Total(f, T \ {y})
           B == {T \in SUBSET S : ~Additive(T)}
<1>1. SUFFICES ASSUME B # {} PROVE FALSE
  OBVIOUS
<1>2. PICK T \in B : \A x \in T : T \ {x} \notin B
  <2>1. B \in SUBSET (SUBSET S)
    OBVIOUS
  <2> HIDE DEF B
  <2> QED BY <1>1, <2>1, SmallestSet
<1>3. T \in SUBSET S /\ ~Additive(T) /\ \A x \in T : Additive(T \ {x})
  BY <1>2
<1>4. PICK y \in T : Total(f, T) # f[y] + Total(f, T \ {y})
  BY <1>3
<1>5. IsFiniteSet(T) /\ IsFiniteSet(T \ {y})
  BY <1>3, FS_Subset
<1>6. PICK x \in T : Total(f, T) = f[x] + Total(f, T \ {x})
  BY <1>4, <1>5, TotalStep
<1>7. x # y /\ y \in T \ {x} /\ x \in T \ {y}
  BY <1>4, <1>6
<1>8. PICK U : U = T \ {x, y}
  OBVIOUS
<1>9. U = (T \ {x}) \ {y} /\ U = (T \ {y}) \ {x} /\ U \in SUBSET S
  BY <1>3, <1>8
<1>10. Total(f, T \ {x}) = f[y] + Total(f, U)
  BY <1>3, <1>7, <1>9
<1>11. Total(f, T \ {y}) = f[x] + Total(f, U)
  BY <1>3, <1>7, <1>9
<1>12. Total(f, U) \in Nat /\ f[x] \in Nat /\ f[y] \in Nat
  BY <1>3, <1>9, TotalNat
<1> QED BY <1>4, <1>6, <1>10, <1>11, <1>12

LEMMA TotalSubset ==
  ASSUME NEW S, IsFiniteSet(S), NEW f, \A x \in S : f[x] \in Nat
  PROVE  \A T \in SUBSET S : Total(f, T) <= Total(f, S)
<1> DEFINE B == {U \in SUBSET S : ~(Total(f, S \ U) <= Total(f, S))}
<1>1. B = {}
  <2>1. SUFFICES ASSUME B # {} PROVE FALSE
    OBVIOUS
  <2>2. PICK U \in B : \A x \in U : U \ {x} \notin B
    <3>1. B \in SUBSET (SUBSET S)
      OBVIOUS
    <3> HIDE DEF B
    <3> QED BY <2>1, <3>1, SmallestSet
  <2>3. U \in SUBSET S /\ ~(Total(f, S \ U) <= Total(f, S))
    OBVIOUS
  <2>4. Total(f, S \ U) \in Nat /\ Total(f, S) \in Nat
    BY TotalNat
  <2>5. PICK x \in U : TRUE
    <3>1. CASE U = {}
      <4>1. S \ U = S
        BY <3>1
      <4> QED BY <2>3, <2>4, <4>1
    <3> QED BY <3>1
  <2>6. PICK V : V = S \ (U \ {x})
    OBVIOUS
  <2>7. V \in SUBSET S /\ x \in V /\ V \ {x} = S \ U
    BY <2>3, <2>5, <2>6
  <2>8. Total(f, V) = f[x] + Total(f, S \ U)
    BY <2>7, TotalRemove
  <2>9. Total(f, V) <= Total(f, S)
    BY <2>2, <2>3, <2>5, <2>6
  <2> QED BY <2>3, <2>4, <2>7, <2>8, <2>9
<1>2. ASSUME NEW T \in SUBSET S PROVE Total(f, T) <= Total(f, S)
  <2>1. S \ T \in SUBSET S /\ S \ (S \ T) = T
    OBVIOUS
  <2>2. S \ T \notin B
    BY <1>1
  <2> QED BY <2>1, <2>2
<1> QED BY <1>2

LEMMA TotalAdd ==
  ASSUME NEW S, IsFiniteSet(S), NEW f, \A x \in S : f[x] \in Nat,
         NEW T \in SUBSET S, NEW y \in S, NEW U \in SUBSET (T \union {y})
  PROVE  Total(f, U) <= Total(f, T) + f[y] /\ Total(f, T) \in Nat
<1>1. \A V \in SUBSET S : Total(f, V) \in Nat
  BY TotalNat
<1>2. U \in SUBSET S /\ f[y] \in Nat /\ Total(f, U) \in Nat /\ Total(f, T) \in Nat
  BY <1>1
<1>3. IsFiniteSet(T) /\ \A x \in T : f[x] \in Nat
  BY FS_Subset
<1>4. CASE y \in U
  <2>1. Total(f, U) = f[y] + Total(f, U \ {y})
    BY <1>2, <1>4, TotalRemove
  <2>2. U \ {y} \in SUBSET T /\ U \ {y} \in SUBSET S
    BY <1>2
  <2>3. Total(f, U \ {y}) <= Total(f, T) /\ Total(f, U \ {y}) \in Nat
    BY <1>1, <1>3, <2>2, TotalSubset
  <2> QED BY <1>2, <2>1, <2>3
<1>5. CASE y \notin U
  <2>1. U \in SUBSET T
    BY <1>5
  <2>2. Total(f, U) <= Total(f, T)
    BY <1>3, <2>1, TotalSubset
  <2> QED BY <1>2, <2>2
<1> QED BY <1>4, <1>5

(* What is on disk and the recorder's pass has read and not removed.       *)
Kept ==
  sessions \ ({r.id : r \in rows[Service]}
              \union (IF pc[Service] = "removing" THEN {victim[Service]} ELSE {}))

(* While the pass runs no session grows and stamps only rise, so a row     *)
(* still says the size, and a stamp that is not too young.                 *)
Listed ==
  /\ \A r \in rows[Service] :
       /\ r.size = size[r.id] /\ r.stamp <= stamp[r.id]
       /\ r.stamp <= stamp[head[Service].id]
  /\ head[Service].id \in Ids

(* The running sum bounds what is kept until the budget is passed; the row *)
(* that passes it is not kept.                                             *)
InBudget ==
  /\ over_budget[Service] = "no" =>
       Total(size, Kept) <= cumulative_kb[Service] /\ cumulative_kb[Service] <= MaxTotal
  /\ Kept \subseteq {head[Service].id} \/ Total(size, Kept) <= MaxTotal

Fresh == Kept \subseteq {head[Service].id} \/ \A s \in Kept : stamp[s] >= cutoff[Service]

Reading == pc[Service] \in {"reading", "removing"}

(* The recorder's pass, in the middle of others: what it keeps respects    *)
(* the two rules at each step, so that both hold when nothing is left to   *)
(* read.                                                                   *)
SweepInv ==
  /\ rec = "cleaning" <=> pc[Service] # "idle"
  /\ Reading => Listed /\ InBudget /\ Fresh
  /\ BudgetAfterSweep /\ FreshAfterSweep

OfPass(p) == <<pc[p], rows[p], head[p], cutoff[p], cumulative_kb[p], over_budget[p], victim[p]>>

LEMMA SizesNat ==
  ASSUME TypeOK
  PROVE  IsFiniteSet(Ids) /\ (\A s \in Ids : size[s] \in Nat) /\ Kept \in SUBSET Ids /\ sessions \in SUBSET Ids
<1>1. IsFiniteSet(Ids)
  <2>1. 1 \in Int /\ MaxSession \in Int
    OBVIOUS
  <2> QED BY <2>1, FS_Interval DEF Ids
<1>2. (\A s \in Ids : size[s] \in Nat) /\ Kept \in SUBSET Ids /\ sessions \in SUBSET Ids
  BY DEF TypeOK, Kept
<1> QED BY <1>1, <1>2

(* Fewer directories take no more room.                                    *)
LEMMA SmallerTotal ==
  ASSUME TypeOK, NEW T \in SUBSET Ids, NEW U \in SUBSET T
  PROVE  Total(size, U) <= Total(size, T) /\ Total(size, U) \in Nat /\ Total(size, T) \in Nat
<1>1. IsFiniteSet(T) /\ \A s \in T : size[s] \in Nat
  BY SizesNat, FS_Subset
<1> QED BY <1>1, TotalSubset, TotalNat

LEMMA OnDiskTotal == OnDisk = Total(size, sessions)
BY DEF OnDisk, Total

(* A set with at most one element has at most one.                         *)
LEMMA FewOnDisk ==
  ASSUME TypeOK, NEW x, sessions \subseteq {x}
  PROVE  Cardinality(sessions) <= 1
<1>1. sessions = {} \/ sessions = {x}
  OBVIOUS
<1>2. Cardinality({}) = 0 /\ Cardinality({x}) = 1
  BY FS_EmptySet, FS_Singleton
<1> QED BY <1>1, <1>2

(* A step that keeps no more and makes nothing older preserves both rules. *)
LEMMA ShrinkingKept ==
  ASSUME TypeOK, InBudget, Fresh, Kept' \subseteq Kept, size' = size,
         \A s \in Ids : stamp[s] <= stamp'[s] /\ stamp[s] \in Int /\ stamp'[s] \in Int,
         cutoff[Service] \in Int, cumulative_kb[Service] \in Nat,
         over_budget[Service] \in {"yes", "no"},
         UNCHANGED <<head[Service], cutoff[Service]>>,
         over_budget'[Service] = "yes" \/ UNCHANGED <<over_budget[Service], cumulative_kb[Service]>>
  PROVE  InBudget' /\ Fresh'
<1>1. Total(size, Kept') <= Total(size, Kept) /\ Total(size, Kept') \in Nat /\ Total(size, Kept) \in Nat
  BY SizesNat, SmallerTotal
<1>2. InBudget'
  <2>1. over_budget'[Service] = "no" =>
          Total(size, Kept') <= cumulative_kb'[Service] /\ cumulative_kb'[Service] <= MaxTotal
    <3>1. SUFFICES ASSUME over_budget'[Service] = "no"
                   PROVE  Total(size, Kept') <= cumulative_kb'[Service] /\ cumulative_kb'[Service] <= MaxTotal
      OBVIOUS
    <3>2. over_budget[Service] = "no" /\ cumulative_kb'[Service] = cumulative_kb[Service]
      BY <3>1
    <3> QED BY <1>1, <3>2 DEF InBudget
  <2>2. Kept' \subseteq {head[Service].id} \/ Total(size, Kept') <= MaxTotal
    BY <1>1 DEF InBudget
  <2> QED BY <2>1, <2>2 DEF InBudget
<1>3. Fresh'
  <2>1. CASE Kept \subseteq {head[Service].id}
    BY <2>1 DEF Fresh
  <2>2. CASE \A s \in Kept : stamp[s] >= cutoff[Service]
    <3>1. \A s \in Kept' : s \in Ids /\ stamp[s] >= cutoff[Service]
      BY <2>2, SizesNat
    <3>2. \A s \in Kept' : stamp'[s] >= cutoff[Service]
      BY <3>1
    <3> QED BY <3>2 DEF Fresh
  <2> QED BY <2>1, <2>2 DEF Fresh
<1> QED BY <1>2, <1>3

(* A removal that begins makes its directory younger, never older.         *)
LEMMA StampsRise ==
  ASSUME IInv, NEW p \in Passes, Cleanup(p)
  PROVE  \A s \in Ids : stamp[s] <= stamp'[s] /\ stamp[s] \in Nat /\ stamp'[s] \in Nat
<1>1. UNCHANGED stamp \/ \E s \in sessions : stamp' = [stamp EXCEPT ![s] = clock]
  <2>1. CASE ReadRow(p)
    <3>1. PICK r \in rows[p] : Remove(p, r.id) \/ UNCHANGED stamp
      BY <2>1 DEF ReadRow, Newest
    <3> QED BY <3>1 DEF Remove
  <2>2. CASE ~ReadRow(p)
    BY <2>2 DEF Cleanup, OperatorCleans, ListAndProtect, RemoveEnds, PassEnds, Interrupted, disk
  <2> QED BY <2>1, <2>2
<1>2. \A s \in Ids : stamp[s] \in Nat /\ clock \in Nat /\ (s \in sessions => stamp[s] <= clock)
  BY DEF IInv, TypeOK, StartedOnly
<1>3. \A s \in Ids : stamp'[s] = stamp[s] \/ (s \in sessions /\ stamp'[s] = clock)
  BY <1>1 DEF IInv, TypeOK
<1> QED BY <1>2, <1>3

(* Another pass only takes sessions away and makes others younger.         *)
LEMMA OtherPass ==
  ASSUME IInv, NEW p \in Passes, p # Service, Cleanup(p)
  PROVE  sessions' \subseteq sessions /\ UNCHANGED <<size, rec, clock, OfPass(Service)>>
<1>1. CASE OperatorCleans(p)
  BY <1>1 DEF OperatorCleans, disk, OfPass, IInv, TypeOK
<1>2. CASE ListAndProtect(p)
  <2>1. UNCHANGED <<sessions, size, clock>>
    BY <1>2 DEF ListAndProtect, disk
  <2>2. CASE Ends(p, "swept") /\ UNCHANGED cutoff
    BY <2>2, <2>1 DEF Ends, OfPass, IInv, TypeOK
  <2>3. CASE \E r : /\ head' = [head EXCEPT ![p] = r]
                    /\ rows' = [rows EXCEPT ![p] = {Row(s) : s \in sessions} \ {r}]
                    /\ cumulative_kb' = [cumulative_kb EXCEPT ![p] = r.size]
                    /\ over_budget' = [over_budget EXCEPT ![p] =
                                         IF r.size <= MaxTotal THEN "no" ELSE "yes"]
                    /\ cutoff' = [cutoff EXCEPT ![p] = clock - Retention]
                    /\ pc' = [pc EXCEPT ![p] = "reading"]
                    /\ UNCHANGED <<rec, victim>>
    BY <2>3, <2>1 DEF OfPass, IInv, TypeOK
  <2> QED BY <1>2, <2>2, <2>3 DEF ListAndProtect
<1>3. CASE ReadRow(p)
  BY <1>3 DEF ReadRow, Remove, OfPass, IInv, TypeOK
<1>4. CASE RemoveEnds(p)
  BY <1>4 DEF RemoveEnds, OfPass, IInv, TypeOK
<1>5. CASE PassEnds(p)
  BY <1>5 DEF PassEnds, Ends, disk, OfPass, IInv, TypeOK
<1>6. CASE Interrupted(p)
  BY <1>6 DEF Interrupted, Ends, disk, OfPass, IInv, TypeOK
<1> QED BY <1>1, <1>2, <1>3, <1>4, <1>5, <1>6 DEF Cleanup

(* The types of the recorder's pass.                                       *)
LEMMA ServiceType ==
  ASSUME TypeOK
  PROVE  /\ cutoff[Service] \in Int /\ cumulative_kb[Service] \in Nat
         /\ over_budget[Service] \in {"yes", "no"} /\ rows[Service] \subseteq RowType
         /\ \A r \in rows[Service] : r.id \in Ids /\ r.stamp \in Nat /\ r.size \in Nat
         /\ clock \in Nat
<1>1. /\ cutoff[Service] \in Int /\ cumulative_kb[Service] \in Nat
      /\ over_budget[Service] \in {"yes", "no"} /\ rows[Service] \subseteq RowType
      /\ clock \in Nat
  BY DEF TypeOK
<1>2. \A r \in RowType : r.id \in Ids /\ r.stamp \in Nat /\ r.size \in Nat
  BY DEF RowType
<1> QED BY <1>1, <1>2

(* Fewer sessions of the same sizes, none older, stay within both rules.   *)
LEMMA SweptStays ==
  ASSUME IInv, BudgetAfterSweep, FreshAfterSweep, sessions' \subseteq sessions, size' = size,
         \A s \in Ids : stamp[s] <= stamp'[s] /\ stamp[s] \in Nat /\ stamp'[s] \in Nat,
         rec' = rec, cutoff'[Service] = cutoff[Service]
  PROVE  BudgetAfterSweep' /\ FreshAfterSweep'
<1>1. SUFFICES ASSUME rec = "swept"
               PROVE  /\ Cardinality(sessions') <= 1 \/ Total(size, sessions') <= MaxTotal
                      /\ Cardinality(sessions') <= 1
                         \/ \A s \in sessions' : stamp'[s] >= cutoff'[Service]
  <2>1. OnDisk' = Total(size', sessions')
    BY DEF OnDisk, Total, MapThenSumSet, MapThenFoldSet
  <2> QED BY <2>1 DEF BudgetAfterSweep, FreshAfterSweep
<1>2. sessions \in SUBSET Ids /\ IsFiniteSet(Ids) /\ cutoff[Service] \in Int
  BY SizesNat, ServiceType DEF IInv
<1>3. Cardinality(sessions) \in Nat /\ Cardinality(sessions') \in Nat
      /\ Cardinality(sessions') <= Cardinality(sessions)
  <2>1. IsFiniteSet(sessions) /\ IsFiniteSet(sessions')
    BY <1>2, FS_Subset
  <2> QED BY <2>1, FS_Subset, FS_CardinalityType
<1>4. Total(size, sessions') <= Total(size, sessions) /\ Total(size, sessions') \in Nat
      /\ Total(size, sessions) \in Nat
  BY <1>2, SmallerTotal DEF IInv
<1>5. Cardinality(sessions) <= 1 \/ Total(size, sessions) <= MaxTotal
  BY <1>1, OnDiskTotal DEF BudgetAfterSweep
<1>6. Cardinality(sessions) <= 1 \/ \A s \in sessions : stamp[s] >= cutoff[Service]
  BY <1>1 DEF FreshAfterSweep
<1>7. Cardinality(sessions') <= 1 \/ Total(size, sessions') <= MaxTotal
  BY <1>3, <1>4, <1>5
<1>8. Cardinality(sessions') <= 1 \/ \A s \in sessions' : stamp'[s] >= cutoff'[Service]
  <2>1. ASSUME \A s \in sessions : stamp[s] >= cutoff[Service], NEW s \in sessions'
        PROVE  stamp'[s] >= cutoff'[Service]
    <3>1. s \in Ids /\ stamp[s] >= cutoff[Service]
      BY <1>2, <2>1
    <3> QED BY <1>2, <3>1
  <2> QED BY <1>3, <1>6, <2>1
<1> QED BY <1>7, <1>8

(* Another pass only takes directories away and makes leftovers younger.   *)
LEMMA OtherPassSweeps ==
  ASSUME IInv, SweepInv, NEW p \in Passes, p # Service, Cleanup(p)
  PROVE  SweepInv'
<1>1. sessions' \subseteq sessions /\ UNCHANGED <<size, rec, clock, OfPass(Service)>>
  BY OtherPass
<1>2. \A s \in Ids : stamp[s] <= stamp'[s] /\ stamp[s] \in Nat /\ stamp'[s] \in Nat
  BY StampsRise
<1>3. rec' = "cleaning" <=> pc'[Service] # "idle"
  BY <1>1 DEF SweepInv, OfPass
<1>4. ASSUME Reading' PROVE Listed' /\ InBudget' /\ Fresh'
  <2>1. Reading /\ Listed /\ InBudget /\ Fresh
    BY <1>1, <1>4 DEF SweepInv, Reading, OfPass
  <2>2. Kept' \subseteq Kept
    BY <1>1 DEF Kept, OfPass
  <2>3. Listed'
    <3>1. rows'[Service] = rows[Service] /\ head'[Service] = head[Service]
      BY <1>1 DEF OfPass
    <3>2. ASSUME NEW r \in rows[Service]
          PROVE  /\ r.size = size'[r.id] /\ r.stamp <= stamp'[r.id]
                 /\ r.stamp <= stamp'[head[Service].id]
      <4>1. r.id \in Ids /\ r.stamp \in Nat
        BY ServiceType DEF IInv
      <4>2. r.size = size[r.id] /\ r.stamp <= stamp[r.id]
            /\ r.stamp <= stamp[head[Service].id] /\ head[Service].id \in Ids
        BY <2>1 DEF Listed
      <4>3. stamp[r.id] <= stamp'[r.id] /\ stamp[r.id] \in Nat /\ stamp'[r.id] \in Nat
        BY <1>2, <4>1
      <4>4. /\ stamp[head[Service].id] <= stamp'[head[Service].id]
            /\ stamp[head[Service].id] \in Nat /\ stamp'[head[Service].id] \in Nat
        BY <1>2, <4>2
      <4> QED BY <1>1, <4>1, <4>2, <4>3, <4>4
    <3> QED BY <2>1, <3>1, <3>2 DEF Listed
  <2>4. InBudget' /\ Fresh'
    <3>1. UNCHANGED <<head[Service], cutoff[Service], over_budget[Service], cumulative_kb[Service]>>
      BY <1>1 DEF OfPass
    <3>2. \A s \in Ids : stamp[s] <= stamp'[s] /\ stamp[s] \in Int /\ stamp'[s] \in Int
      BY <1>2
    <3>3. size' = size
      BY <1>1
    <3> QED BY <2>1, <2>2, <3>1, <3>2, <3>3, ServiceType, ShrinkingKept DEF IInv
  <2> QED BY <2>3, <2>4
<1>5. BudgetAfterSweep' /\ FreshAfterSweep'
  <2>1. BudgetAfterSweep /\ FreshAfterSweep /\ size' = size /\ rec' = rec
        /\ cutoff'[Service] = cutoff[Service]
    BY <1>1 DEF SweepInv, OfPass
  <2> QED BY <1>1, <1>2, <2>1, SweptStays
<1> QED BY <1>3, <1>4, <1>5 DEF SweepInv

(* What leaves the disk and the pass alone leaves the rules alone.         *)
LEMMA SameSweep ==
  ASSUME SweepInv, UNCHANGED <<sessions, size, stamp, rec, pass>>
  PROVE  SweepInv'
<1>1. Kept' = Kept
  BY DEF Kept, pass
<1>2. (Reading' <=> Reading) /\ (Listed' <=> Listed) /\ (Fresh' <=> Fresh)
  BY <1>1 DEF pass, Reading, Listed, Fresh
<1>3. InBudget' <=> InBudget
  BY <1>1 DEF pass, InBudget
<1>4. OnDisk' = OnDisk
  BY DEF OnDisk, MapThenSumSet, MapThenFoldSet
<1>5. (BudgetAfterSweep' <=> BudgetAfterSweep) /\ (FreshAfterSweep' <=> FreshAfterSweep)
  BY <1>4 DEF pass, BudgetAfterSweep, FreshAfterSweep
<1>6. rec' = "cleaning" <=> pc'[Service] # "idle"
  BY DEF SweepInv, pass
<1> QED BY <1>2, <1>3, <1>5, <1>6 DEF SweepInv

(* The recorder's other steps fall outside its pass, or begin it.          *)
LEMMA RecorderSweeps ==
  ASSUME IInv, SweepInv, Recorder \/ TimePasses
  PROVE  SweepInv'
<1>1. CASE TimePasses
  BY <1>1, SameSweep DEF TimePasses, disk
<1>2. CASE RecorderCleans
  <2>1. rec' = "cleaning" /\ pc'[Service] = "listing"
    BY <1>2 DEF RecorderCleans, IInv, TypeOK
  <2> QED BY <2>1 DEF SweepInv, Reading, BudgetAfterSweep, FreshAfterSweep
<1>3. CASE OpenSession \/ SessionGrows \/ SessionEnds
  <2>1. rec \in {"swept", "unswept", "recording"} /\ rec' \in {"recording", "off"} /\ pc' = pc
    <3>1. CASE OpenSession
      BY <3>1 DEF OpenSession, pass
    <3> QED BY <1>3, <3>1 DEF SessionGrows, SessionEnds, pass
  <2>2. pc'[Service] = "idle"
    BY <2>1 DEF SweepInv
  <2> QED BY <2>1, <2>2 DEF SweepInv, Reading, BudgetAfterSweep, FreshAfterSweep
<1> QED BY <1>1, <1>2, <1>3 DEF Recorder

LEMMA ListSweeps ==
  ASSUME IInv, SweepInv, ListAndProtect(Service)
  PROVE  SweepInv'
<1> DEFINE listed == {Row(s) : s \in sessions}
<1>0. UNCHANGED <<sessions, stamp, size>> /\ rec = "cleaning"
  BY DEF ListAndProtect, disk, SweepInv
<1>1. CASE listed = {}
  <2>1. sessions' = {} /\ pc'[Service] = "idle" /\ rec' = "swept"
    BY <1>0, <1>1 DEF ListAndProtect, Ends, IInv, TypeOK
  <2>2. Cardinality(sessions') <= 1
    BY <2>1, FS_EmptySet
  <2> QED BY <2>1, <2>2 DEF SweepInv, Reading, BudgetAfterSweep, FreshAfterSweep
<1>2. CASE listed # {}
  <2>1. PICK r \in Newest(listed) :
          /\ head' = [head EXCEPT ![Service] = r]
          /\ rows' = [rows EXCEPT ![Service] = listed \ {r}]
          /\ cumulative_kb' = [cumulative_kb EXCEPT ![Service] = r.size]
          /\ over_budget' = [over_budget EXCEPT ![Service] =
                               IF r.size <= MaxTotal THEN "no" ELSE "yes"]
          /\ pc' = [pc EXCEPT ![Service] = "reading"]
          /\ rec' = rec
    BY <1>2 DEF ListAndProtect
  <2>2. /\ head'[Service] = r /\ rows'[Service] = listed \ {r}
        /\ cumulative_kb'[Service] = r.size /\ pc'[Service] = "reading"
        /\ over_budget'[Service] = "no" => r.size <= MaxTotal
    BY <2>1 DEF IInv, TypeOK
  <2>3. PICK h \in sessions : r = Row(h)
    BY <2>1 DEF Newest
  <2>4. \A s \in sessions : Row(s).id = s /\ Row(s).stamp = stamp[s] /\ Row(s).size = size[s]
                            /\ Row(s).stamp <= r.stamp
    BY <2>1 DEF Newest, Row
  <2>5. r.id = h /\ r.stamp = stamp[h] /\ r.size = size[h] /\ h \in Ids
    BY <2>3, <2>4, SizesNat DEF IInv
  <2>6. Listed'
    <3>1. ASSUME NEW q \in listed
          PROVE  q.size = size[q.id] /\ q.stamp <= stamp[q.id] /\ q.stamp <= stamp[h]
      <4>1. PICK t \in sessions : q = Row(t)
        OBVIOUS
      <4>2. q.id = t /\ q.stamp = stamp[t] /\ q.size = size[t] /\ q.stamp <= stamp[h]
        BY <2>4, <2>5, <4>1
      <4>3. stamp[t] \in Nat
        BY SizesNat DEF IInv, TypeOK
      <4> QED BY <4>2, <4>3
    <3> QED BY <1>0, <2>2, <2>5, <3>1 DEF Listed
  <2>7. Kept' \subseteq {h}
    <3>1. ASSUME NEW t \in sessions, t # h PROVE t \in {q.id : q \in listed \ {r}}
      <4>1. Row(t) \in listed /\ Row(t).id = t /\ Row(t) # r
        BY <2>4, <2>5, <3>1
      <4> QED BY <4>1
    <3> HIDE DEF listed
    <3> QED BY <1>0, <2>2, <3>1 DEF Kept
  <2>8. InBudget'
    <3>1. Total(size, {}) = 0
      BY FS_EmptySet, TotalStep
    <3>2. /\ IsFiniteSet(Ids) /\ \A s \in Ids : size[s] \in Nat
          /\ {} \in SUBSET Ids /\ Kept' \in SUBSET ({} \union {h})
      BY <2>7, SizesNat DEF IInv
    <3>3. Total(size, Kept') <= 0 + size[h] /\ size[h] \in Nat
      BY <2>5, <3>1, <3>2, TotalAdd
    <3>4. Total(size, Kept') <= size[h]
      BY <3>3
    <3> QED BY <1>0, <2>2, <2>5, <2>7, <3>4 DEF InBudget
  <2>9. Fresh'
    BY <2>2, <2>5, <2>7 DEF Fresh
  <2>10. rec' = "cleaning"
    BY <1>0, <2>1
  <2> QED BY <2>2, <2>6, <2>8, <2>9, <2>10 DEF SweepInv, BudgetAfterSweep, FreshAfterSweep
<1> QED BY <1>1, <1>2

LEMMA RowSweeps ==
  ASSUME IInv, SweepInv, ReadRow(Service)
  PROVE  SweepInv'
<1>1. PICK r \in rows[Service] :
        LET spent == cumulative_kb[Service] + r.size
            settled == r.stamp < cutoff[Service] \/ over_budget[Service] = "yes"
        IN /\ rows'[Service] = rows[Service] \ {r}
           /\ cumulative_kb'[Service] = IF settled THEN cumulative_kb[Service] ELSE spent
           /\ over_budget'[Service] = IF ~settled /\ spent > MaxTotal THEN "yes"
                                       ELSE over_budget[Service]
           /\ IF settled \/ spent > MaxTotal
                THEN pc'[Service] = "removing" /\ victim'[Service] = r.id
                ELSE pc'[Service] = "reading"
  BY DEF ReadRow, Newest, Remove, IInv, TypeOK
<1>2. /\ pc[Service] = "reading" /\ rec = "cleaning" /\ UNCHANGED <<rec, sessions, size, head, cutoff>>
      /\ Listed /\ InBudget /\ Fresh
  BY DEF ReadRow, SweepInv, Reading
<1>3. /\ r.id \in Ids /\ r.stamp \in Nat /\ r.size \in Nat /\ cutoff[Service] \in Int
      /\ cumulative_kb[Service] \in Nat /\ over_budget[Service] \in {"yes", "no"}
  BY ServiceType DEF IInv
<1>4. \A s \in Ids : stamp[s] <= stamp'[s] /\ stamp[s] \in Nat /\ stamp'[s] \in Nat
  BY StampsRise DEF Cleanup
<1>5. pc'[Service] \in {"reading", "removing"} /\ rows'[Service] = rows[Service] \ {r}
  BY <1>1
<1>6. Listed'
  <2>1. ASSUME NEW q \in rows[Service]
        PROVE  q.size = size[q.id] /\ q.stamp <= stamp'[q.id]
               /\ q.stamp <= stamp'[head[Service].id]
    <3>1. q.id \in Ids /\ q.stamp \in Nat
      BY ServiceType DEF IInv
    <3>2. q.size = size[q.id] /\ q.stamp <= stamp[q.id]
          /\ q.stamp <= stamp[head[Service].id] /\ head[Service].id \in Ids
      BY <1>2 DEF Listed
    <3>3. stamp[q.id] <= stamp'[q.id] /\ stamp[q.id] \in Nat /\ stamp'[q.id] \in Nat
      BY <1>4, <3>1
    <3>4. /\ stamp[head[Service].id] <= stamp'[head[Service].id]
          /\ stamp[head[Service].id] \in Nat /\ stamp'[head[Service].id] \in Nat
      BY <1>4, <3>2
    <3> QED BY <3>1, <3>2, <3>3, <3>4
  <2> QED BY <1>2, <1>5, <2>1 DEF Listed
<1>7. CASE r.stamp < cutoff[Service] \/ over_budget[Service] = "yes"
           \/ cumulative_kb[Service] + r.size > MaxTotal
  <2>1. Kept' \subseteq Kept
    <3>1. pc'[Service] = "removing" /\ victim'[Service] = r.id
      BY <1>1, <1>7
    <3> QED BY <1>2, <1>5, <3>1 DEF Kept
  <2>2. over_budget'[Service] = "yes" \/ UNCHANGED <<over_budget[Service], cumulative_kb[Service]>>
    BY <1>1, <1>7
  <2>3. \A s \in Ids : stamp[s] <= stamp'[s] /\ stamp[s] \in Int /\ stamp'[s] \in Int
    BY <1>4
  <2>4. TypeOK /\ UNCHANGED <<size, head[Service], cutoff[Service]>>
    BY <1>2 DEF IInv
  <2>5. InBudget' /\ Fresh'
    BY <1>2, <1>3, <2>1, <2>2, <2>3, <2>4, ShrinkingKept
  <2> QED BY <1>2, <1>5, <1>6, <2>5 DEF SweepInv, BudgetAfterSweep, FreshAfterSweep
<1>8. CASE /\ ~(r.stamp < cutoff[Service]) /\ over_budget[Service] # "yes"
           /\ ~(cumulative_kb[Service] + r.size > MaxTotal)
  <2>1. /\ pc'[Service] = "reading" /\ over_budget'[Service] = "no" /\ over_budget[Service] = "no"
        /\ cumulative_kb'[Service] = cumulative_kb[Service] + r.size
        /\ cumulative_kb[Service] + r.size <= MaxTotal
    BY <1>1, <1>3, <1>8
  <2>2. Kept' \in SUBSET (Kept \union {r.id})
    <3>1. ASSUME NEW s \in Kept', s # r.id PROVE s \in Kept
      BY <1>2, <1>5, <2>1, <3>1 DEF Kept
    <3> QED BY <3>1
  <2>3. Total(size, Kept) <= cumulative_kb[Service] /\ r.size = size[r.id]
    BY <1>2, <2>1 DEF InBudget, Listed
  <2>4. Total(size, Kept') <= Total(size, Kept) + size[r.id] /\ Total(size, Kept) \in Nat
        /\ Total(size, Kept') \in Nat
    <3>1. IsFiniteSet(Ids) /\ (\A s \in Ids : size[s] \in Nat) /\ Kept \in SUBSET Ids
      BY SizesNat DEF IInv
    <3>2. Total(size, Kept') <= Total(size, Kept) + size[r.id] /\ Total(size, Kept) \in Nat
      BY <1>3, <2>2, <3>1, TotalAdd
    <3>3. Kept' \in SUBSET Ids
      BY <1>3, <2>2, <3>1
    <3> QED BY <3>1, <3>2, <3>3, TotalNat
  <2>5. Total(size, Kept') <= cumulative_kb[Service] + r.size
    BY <1>3, <2>3, <2>4
  <2>6. InBudget'
    <3>1. Total(size, Kept') <= MaxTotal
      BY <1>3, <2>1, <2>4, <2>5
    <3> QED BY <1>2, <2>1, <2>5, <3>1 DEF InBudget
  <2>7. Fresh'
    <3>1. r.stamp >= cutoff[Service]
      BY <1>3, <1>8
    <3>2. r.stamp <= stamp[r.id] /\ r.stamp <= stamp[head[Service].id] /\ head[Service].id \in Ids
      BY <1>2 DEF Listed
    <3>3. stamp[r.id] >= cutoff[Service] /\ stamp[head[Service].id] >= cutoff[Service]
      BY <1>3, <1>4, <3>1, <3>2
    <3>4. \A s \in Kept \union {r.id} : s \in Ids /\ stamp[s] >= cutoff[Service]
      BY <1>2, <1>3, <3>3, SizesNat DEF Fresh, IInv
    <3>5. \A s \in Kept' : stamp'[s] >= cutoff[Service]
      BY <1>3, <1>4, <2>2, <3>4
    <3> QED BY <1>2, <3>5 DEF Fresh
  <2> QED BY <1>2, <1>5, <1>6, <2>6, <2>7 DEF SweepInv, BudgetAfterSweep, FreshAfterSweep
<1> QED BY <1>3, <1>7, <1>8

LEMMA ServiceEndsSweeps ==
  ASSUME IInv, SweepInv, RemoveEnds(Service) \/ PassEnds(Service) \/ Interrupted(Service)
  PROVE  SweepInv'
<1>1. CASE RemoveEnds(Service)
  <2>1. /\ pc[Service] = "removing" /\ pc'[Service] = "reading" /\ rec = "cleaning"
        /\ sessions' = sessions \ {victim[Service]}
        /\ UNCHANGED <<stamp, size, rec, rows, head, cutoff, cumulative_kb, over_budget>>
    BY <1>1 DEF RemoveEnds, SweepInv, IInv, TypeOK
  <2>2. Kept' = Kept
    BY <2>1 DEF Kept
  <2>3. Listed /\ InBudget /\ Fresh
    BY <2>1 DEF SweepInv, Reading
  <2>4. Listed' /\ InBudget' /\ Fresh'
    BY <2>1, <2>2, <2>3 DEF Listed, InBudget, Fresh
  <2> QED BY <2>1, <2>4 DEF SweepInv, BudgetAfterSweep, FreshAfterSweep
<1>2. CASE PassEnds(Service)
  <2>1. /\ pc[Service] = "reading" /\ rows[Service] = {} /\ pc'[Service] = "idle"
        /\ rec' = "swept" /\ UNCHANGED <<sessions, size, stamp, cutoff>>
    BY <1>2 DEF PassEnds, Ends, disk, IInv, TypeOK
  <2>2. Kept = sessions /\ InBudget /\ Fresh
    BY <2>1 DEF Kept, SweepInv, Reading
  <2>3. sessions \subseteq {head[Service].id} => Cardinality(sessions) <= 1
    BY FewOnDisk DEF IInv
  <2>4. BudgetAfterSweep'
    <3>1. OnDisk' = Total(size, sessions)
      BY <2>1 DEF OnDisk, Total, MapThenSumSet, MapThenFoldSet
    <3> QED BY <2>1, <2>2, <2>3, <3>1 DEF InBudget, BudgetAfterSweep
  <2>5. FreshAfterSweep'
    BY <2>1, <2>2, <2>3 DEF Fresh, FreshAfterSweep
  <2> QED BY <2>1, <2>4, <2>5 DEF SweepInv, Reading
<1>3. CASE Interrupted(Service)
  <2>1. pc'[Service] = "idle" /\ rec' = "unswept"
    BY <1>3 DEF Interrupted, Ends, IInv, TypeOK
  <2> QED BY <2>1 DEF SweepInv, Reading, BudgetAfterSweep, FreshAfterSweep
<1> QED BY <1>1, <1>2, <1>3

LEMMA SweepStep == IInv /\ SweepInv /\ [Next]_vars => SweepInv'
<1> SUFFICES ASSUME IInv, SweepInv, [Next]_vars PROVE SweepInv'
  OBVIOUS
<1>1. CASE UNCHANGED vars
  BY <1>1, SameSweep DEF vars, disk
<1>2. CASE Recorder \/ TimePasses
  BY <1>2, RecorderSweeps
<1>3. ASSUME NEW p \in Passes, Cleanup(p) PROVE SweepInv'
  <2>1. CASE p # Service
    BY <1>3, <2>1, OtherPassSweeps
  <2>2. CASE p = Service
    <3>1. ~OperatorCleans(Service)
      BY DEF OperatorCleans
    <3> QED BY <1>3, <2>2, <3>1, ListSweeps, RowSweeps, ServiceEndsSweeps DEF Cleanup
  <2> QED BY <2>1, <2>2
<1> QED BY <1>1, <1>2, <1>3 DEF Next

LEMMA InitSweep == Init => SweepInv
BY DEF Init, SweepInv, Reading, BudgetAfterSweep, FreshAfterSweep

(* Rule 2 of bin/cleanup_sessions.sh: after a whole pass of the recorder's *)
(* the disk holds one session or at most SESSION_MAX_TOTAL_MB, for any     *)
(* budget, any number of sessions of any size, and any number of passes    *)
(* that an operator starts, or interrupts, meanwhile.                      *)
THEOREM SweepInBudget == Spec => []BudgetAfterSweep
<1>1. SweepInv => BudgetAfterSweep
  BY DEF SweepInv
<1> QED BY <1>1, InitSweep, SweepStep, AlwaysIInv, PTL DEF Spec

(* Rules 1 and 3 of bin/cleanup_sessions.sh: after a whole pass of the     *)
(* recorder's no session older than the retention is left, unless it is    *)
(* the only one.                                                           *)
THEOREM SweepExpires == Spec => []FreshAfterSweep
<1>1. SweepInv => FreshAfterSweep
  BY DEF SweepInv
<1> QED BY <1>1, InitSweep, SweepStep, AlwaysIInv, PTL DEF Spec
=============================================================================
