------------------------------- MODULE EqlProofs -----------------------------
(***************************************************************************)
(* Proofs about the query engine, for every query, event, rule and text:   *)
(* case, a rule that fails, the parser against its grammar, and the lexer  *)
(* against the ways to cut a text.                                         *)
(***************************************************************************)
EXTENDS Engine, FiniteSetTheorems, SequenceTheorems, TLAPS

-----------------------------------------------------------------------------
(* Case.  Two values a query cannot tell apart.                            *)
Alike(v, w) ==
  \/ v = w
  \/ /\ v.k = "str" /\ w.k = "str" /\ v.v \in Seq(STRING) /\ w.v \in Seq(STRING)
     /\ Lower(v.v) = Lower(w.v)

(* Strings that are the same in lower case are of one length, and agree    *)
(* wherever either has a character without another case.                   *)
LEMMA LowerMeans ==
  ASSUME NEW s \in Seq(STRING), NEW t \in Seq(STRING), Lower(s) = Lower(t)
  PROVE  /\ Len(s) = Len(t)
         /\ \A i \in 1..Len(s) : LowerCase(s[i]) = LowerCase(t[i])
         /\ \A i \in 1..Len(s), c \in {"*", "?", "1"} : s[i] = c <=> t[i] = c
<1>1. DOMAIN s = DOMAIN t
  BY DEF Lower
<1>2. Len(s) = Len(t)
  BY <1>1
<1>3. \A i \in 1..Len(s) : LowerCase(s[i]) = LowerCase(t[i])
  <2> TAKE i \in 1..Len(s)
  <2>1. i \in DOMAIN s /\ i \in DOMAIN t
    BY <1>2
  <2>2. Lower(s)[i] = LowerCase(s[i]) /\ Lower(t)[i] = LowerCase(t[i])
    BY <2>1 DEF Lower
  <2> QED
    BY <2>2
<1>4. \A c \in {"*", "?", "1"} : \A x : LowerCase(x) = LowerCase(c) <=> x = c
  BY EqlAssumption DEF LowerCase
<1> QED
  BY <1>2, <1>3, <1>4

LEMMA AlikeTexts ==
  ASSUME NEW v, NEW w, Alike(v, w)
  PROVE  /\ v.k = w.k
         /\ v.k # "str" => v = w
         /\ Lower(Text(v)) = Lower(Text(w)) /\ Lower(TextOrEmpty(v)) = Lower(TextOrEmpty(w))
         /\ Len(TextOrEmpty(v)) = Len(TextOrEmpty(w))
         /\ Number(v) = Number(w)
<1>1. CASE v = w
  BY <1>1
<1>2. CASE v # w
  <2>1. /\ v.k = "str" /\ w.k = "str" /\ v.v \in Seq(STRING) /\ w.v \in Seq(STRING)
        /\ Lower(v.v) = Lower(w.v)
    BY <1>2 DEF Alike
  <2>2. Text(v) = v.v /\ Text(w) = w.v /\ TextOrEmpty(v) = v.v /\ TextOrEmpty(w) = w.v
    BY <2>1 DEF Text, TextOrEmpty, Absent
  <2>3. Len(v.v) = Len(w.v) /\ (v.v = <<>> <=> w.v = <<>>) /\ (v.v = <<"1">> <=> w.v = <<"1">>)
    BY <2>1, LowerMeans
  <2>4. Number(v) = Number(w)
    BY <2>1, <2>3 DEF Number
  <2> QED
    BY <2>1, <2>2, <2>3, <2>4
<1> QED
  BY <1>1, <1>2

LEMMA AlikeEqual ==
  ASSUME NEW a, NEW b, NEW c, NEW d, Alike(a, c), Alike(b, d)
  PROVE  LooseEq(a, b) = LooseEq(c, d)
BY AlikeTexts DEF LooseEq

LEMMA AlikeCompared ==
  ASSUME NEW a, NEW b, NEW c, NEW d, Alike(a, c), Alike(b, d), NEW cmp
  PROVE  EvalCmp(cmp, a, b) = EvalCmp(cmp, c, d)
<1>1. Number(a) = Number(c) /\ Number(b) = Number(d) /\ LooseEq(a, b) = LooseEq(c, d)
  BY AlikeTexts, AlikeEqual
<1> QED
  BY <1>1 DEF EvalCmp

(* Two sequences of values, alike one by one.                              *)
AllAlike(vs, ws) == DOMAIN vs = DOMAIN ws /\ \A i \in DOMAIN vs : Alike(vs[i], ws[i])

LEMMA AlikeIn ==
  ASSUME NEW a, NEW c, Alike(a, c), NEW vs, NEW ws, AllAlike(vs, ws)
  PROVE  EvalIn(a, vs) = EvalIn(c, ws)
BY AlikeEqual DEF EvalIn, AllAlike

LEMMA AlikeMatch ==
  ASSUME NEW v, NEW w, Lower(v) = Lower(w), NEW p, NEW q, Lower(p) = Lower(q)
  PROVE  RegexTest(v, p) = RegexTest(w, q)
BY DEF RegexTest

LEMMA AlikeCall ==
  ASSUME NEW n \in Nat, NEW vs, NEW ws, AllAlike(vs, ws), Len(vs) = n, Len(ws) = n,
         DOMAIN vs = 1..n, NEW name
  PROVE  EvalCall(name, vs) = EvalCall(name, ws)
<1> DEFINE v == TextOrEmpty(vs[1]) w == TextOrEmpty(ws[1])
<1> DEFINE ps == [i \in 1..n - 1 |-> Text(vs[i + 1])] qs == [i \in 1..n - 1 |-> Text(ws[i + 1])]
<1>1. CASE n = 0
  <2>1. ps = qs /\ DOMAIN ps = {} /\ DOMAIN qs = {}
    BY <1>1
  <2>2. EvalFunc(name, v, ps) = FALSE /\ EvalFunc(name, w, qs) = FALSE
    BY <2>1 DEF EvalFunc
  <2> QED
    BY <2>2 DEF EvalCall
<1>2. CASE n > 0
  <2>1. Lower(v) = Lower(w) /\ (v = w \/ (v \in Seq(STRING) /\ w \in Seq(STRING)))
    <3>1. 1 \in 1..n /\ Alike(vs[1], ws[1])
      BY <1>2 DEF AllAlike
    <3>2. CASE vs[1] = ws[1]
      BY <3>2
    <3>3. CASE vs[1] # ws[1]
      BY <3>1, <3>3 DEF Alike, TextOrEmpty, Absent, Text
    <3> QED
      BY <3>2, <3>3
  <2>2. \A i \in 1..n - 1 :
          /\ Lower(ps[i]) = Lower(qs[i])
          /\ ps[i] = qs[i] \/ (ps[i] \in Seq(STRING) /\ qs[i] \in Seq(STRING))
    <3> TAKE i \in 1..n - 1
    <3>1. Alike(vs[i + 1], ws[i + 1])
      BY DEF AllAlike
    <3>2. CASE vs[i + 1] = ws[i + 1]
      BY <3>2
    <3>3. CASE vs[i + 1] # ws[i + 1]
      BY <3>1, <3>3 DEF Alike, Text
    <3> QED
      BY <3>2, <3>3
  <2>3. \A i \in 1..n - 1 : RegexTest(v, ps[i]) = RegexTest(w, qs[i])
    <3> TAKE i \in 1..n - 1
    <3> QED
      BY <2>1, <2>2, AlikeMatch
  <2>4. \A i \in 1..n - 1 : WildcardTest(v, ps[i]) = WildcardTest(w, qs[i])
    BY <2>1, <2>2 DEF WildcardTest
  <2> HIDE DEF v, w, ps, qs
  <2>5. DOMAIN ps = 1..n - 1 /\ DOMAIN qs = 1..n - 1
    BY DEF ps, qs
  <2>6. EvalFunc(name, v, ps) = EvalFunc(name, w, qs)
    <3>1. \A i \in 1..n - 1 : TestPattern(name, v, ps[i]) = TestPattern(name, w, qs[i])
      BY <2>1, <2>2, <2>3, <2>4 DEF TestPattern
    <3> QED
      BY <2>5, <3>1 DEF EvalFunc
  <2> QED
    BY <2>6 DEF EvalCall, v, w, ps, qs
<1> QED
  BY <1>1, <1>2

(* Two events that agree but for the case of strings.                      *)
AlikeEvents(e, f) ==
  /\ e.type = f.type /\ DOMAIN e.fields = DOMAIN f.fields
  /\ \A x \in DOMAIN e.fields : Alike(e.fields[x], f.fields[x])

LEMMA AlikeValueOf ==
  ASSUME NEW e, NEW f, AlikeEvents(e, f), NEW n
  PROVE  Alike(ValueOf(n, e), ValueOf(n, f))
BY DEF ValueOf, GetField, AlikeEvents, Alike

LEMMA AlikeLength ==
  ASSUME NEW e, NEW f, AlikeEvents(e, f)
  PROVE  Length(e) = Length(f)
<1>1. \A length, n : LengthStep(length, n, e) = LengthStep(length, n, f)
  BY AlikeValueOf, AlikeTexts DEF LengthStep
<1>2. \A length : [n \in OperandNode |-> LengthStep(length, n, e)]
                    = [n \in OperandNode |-> LengthStep(length, n, f)]
  BY <1>1
<1> QED
  BY <1>2 DEF Length

LEMMA AlikeOperand ==
  ASSUME NEW e, NEW f, AlikeEvents(e, f), NEW n
  PROVE  Alike(ResolveOperand(n, e), ResolveOperand(n, f))
BY AlikeLength, AlikeValueOf DEF ResolveOperand, Alike

LEMMA AlikeNode ==
  ASSUME NEW e, NEW f, AlikeEvents(e, f)
  PROVE  EvalNode(e) = EvalNode(f)
<1>1. \A eval : \A n \in ConditionNode : EvalStep(eval, n, e) = EvalStep(eval, n, f)
  <2> TAKE eval
  <2> TAKE n \in ConditionNode
  <2>1. \A nodes : AllAlike(ValuesOf(nodes, e), ValuesOf(nodes, f))
    BY AlikeOperand DEF AllAlike, ValuesOf
  <2>2. CASE n.op = "cmp"
    BY <2>2, AlikeOperand, AlikeCompared DEF EvalStep
  <2>3. CASE n.op = "in"
    BY <2>1, <2>3, AlikeOperand, AlikeIn DEF EvalStep
  <2>4. CASE n.op = "func"
    <3>1. n.args \in Seq(OperandNode)
      BY <2>4, ConditionAssumption
    <3>2. /\ DOMAIN ValuesOf(n.args, e) = 1..Len(n.args)
          /\ Len(ValuesOf(n.args, e)) = Len(n.args) /\ Len(ValuesOf(n.args, f)) = Len(n.args)
      BY <3>1 DEF ValuesOf
    <3>3. Len(n.args) \in Nat
      BY <3>1
    <3>4. EvalCall(n.name, ValuesOf(n.args, e)) = EvalCall(n.name, ValuesOf(n.args, f))
      BY <2>1, <3>2, <3>3, AlikeCall
    <3> QED
      BY <2>4, <3>4 DEF EvalStep
  <2>5. CASE n.op \in {"lit", "and", "or", "not"}
    BY <2>5 DEF EvalStep
  <2> QED
    BY <2>2, <2>3, <2>4, <2>5, ConditionAssumption
<1>2. \A eval : [n \in ConditionNode |-> EvalStep(eval, n, e)]
                  = [n \in ConditionNode |-> EvalStep(eval, n, f)]
  BY <1>1
<1> QED
  BY <1>2 DEF EvalNode

(* A query is run only over an event it was given with.                    *)
RunInv == query # NoQuery => query \in Queries /\ event \in Events

(* Whatever the query and the events: what a query matches does not depend *)
(* on the case of letters, through every operator, function and connective *)
(* of evalNode.                                                            *)
THEOREM EngineCaseBlind == Spec => []CaseBlind
<1>1. RunInv => CaseBlind
  <2> SUFFICES ASSUME RunInv, query # NoQuery, NEW other \in Events, SameButCase(event, other)
               PROVE  Evaluate(query, other) = Evaluate(query, event)
    BY DEF CaseBlind
  <2>1. AlikeEvents(event, other)
    BY EventsAssumption DEF RunInv, SameButCase, SameValue, AlikeEvents, Alike
  <2>2. EvalNode(event) = EvalNode(other) /\ event.type = other.type
    BY <2>1, AlikeNode DEF AlikeEvents
  <2> QED
    BY <2>2 DEF Evaluate, EventTypeMatches
<1>2. Init => RunInv
  BY DEF Init, RunInv
<1>3. RunInv /\ [Next]_vars => RunInv'
  <2> SUFFICES ASSUME RunInv, [Next]_vars PROVE RunInv'
    OBVIOUS
  <2>1. CASE TypeCharacter \/ Type \/ Judge \/ UNCHANGED vars
    BY <2>1 DEF TypeCharacter, Type, Judge, vars, RunInv
  <2>2. CASE Run
    BY <2>2 DEF Run, RunInv
  <2> QED
    BY <2>1, <2>2 DEF Next
<1> QED
  BY <1>1, <1>2, <1>3, PTL DEF Spec

-----------------------------------------------------------------------------
(* Ranks: how many members of a set are no greater than one of them.       *)
Rank(S, k) == Cardinality(S \cap 1..k)

LEMMA FiniteBelow ==
  ASSUME NEW N \in Nat, NEW S \in SUBSET (1..N)
  PROVE  IsFiniteSet(S) /\ Cardinality(S) \in Nat
<1>1. IsFiniteSet(1..N)
  BY FS_Interval
<1>2. IsFiniteSet(S)
  BY <1>1, FS_Subset
<1> QED
  BY <1>2, FS_CardinalityType

LEMMA Ranked ==
  ASSUME NEW N \in Nat, NEW S \in SUBSET (1..N)
  PROVE  /\ \A k \in S : Rank(S, k) \in 1..Cardinality(S)
         /\ \A k, m \in S : k < m => Rank(S, k) < Rank(S, m)
         /\ \A n \in 1..Cardinality(S) : \E k \in S : Rank(S, k) = n
<1>1. IsFiniteSet(S) /\ Cardinality(S) \in Nat
  BY FiniteBelow
<1>2. \A k : /\ S \cap 1..k \in SUBSET S
             /\ IsFiniteSet(S \cap 1..k) /\ Rank(S, k) \in Nat /\ Rank(S, k) <= Cardinality(S)
  BY <1>1, FS_Subset, FS_CardinalityType DEF Rank
<1>r. \A k : Rank(S, k) \in Nat /\ Rank(S, k) <= Cardinality(S)
  BY <1>2
<1>3. ASSUME NEW k \in S PROVE Rank(S, k) \in 1..Cardinality(S)
  <2>1. k \in S \cap 1..k
    OBVIOUS
  <2>2. Rank(S, k) # 0
    BY <1>2, <2>1, FS_EmptySet DEF Rank
  <2> QED
    BY <1>1, <1>r, <2>2
<1>4. ASSUME NEW k \in S, NEW m \in S, k < m PROVE Rank(S, k) < Rank(S, m)
  <2>1. (S \cap 1..k) \in SUBSET (S \cap 1..m) /\ m \in S \cap 1..m /\ m \notin S \cap 1..k
    BY <1>4
  <2>2. Rank(S, k) <= Rank(S, m) /\ Rank(S, k) # Rank(S, m)
    BY <1>2, <2>1, FS_Subset DEF Rank
  <2> QED
    BY <1>r, <2>2
<1> DEFINE rank == [k \in S |-> Rank(S, k)]
           T == 1..Cardinality(S)
<1>5. rank \in [S -> T]
  BY <1>3
<1>6. \A k, m \in S : rank[k] = rank[m] => k = m
  <2> SUFFICES ASSUME NEW k \in S, NEW m \in S, k # m PROVE Rank(S, k) # Rank(S, m)
    OBVIOUS
  <2>1. k < m \/ m < k
    OBVIOUS
  <2> QED
    BY <1>r, <1>4, <2>1
<1>7. rank \in Injection(S, T)
  <2> HIDE DEF rank, T
  <2> QED
    BY <1>5, <1>6 DEF Injection, IsInjective
<1>8. IsFiniteSet(T) /\ Cardinality(T) = Cardinality(S)
  BY <1>1, FS_Interval
<1>9. \A n \in T : \E k \in S : rank[k] = n
  <2> HIDE DEF rank, T
  <2>1. rank \in Surjection(S, T)
    BY <1>7, <1>8, FS_Injection
  <2> QED
    BY <2>1 DEF Surjection
<1> QED
  BY <1>3, <1>4, <1>9

(* Numbers that are moved apart, in order, keep their ranks.               *)
Moves(move, S, U) ==
  /\ move \in [S -> U]
  /\ \A k, m \in S : k < m => move[k] < move[m]
  /\ \A u \in U : \E k \in S : move[k] = u

LEMMA RanksMoved ==
  ASSUME NEW N \in Nat, NEW S \in SUBSET (1..N), NEW U \in SUBSET (1..N),
         NEW move, Moves(move, S, U)
  PROVE  /\ Cardinality(U) = Cardinality(S)
         /\ \A k \in S : Rank(U, move[k]) = Rank(S, k)
<1>0. /\ move \in [S -> U]
      /\ \A k, m \in S : k < m => move[k] < move[m]
      /\ \A u \in U : \E k \in S : move[k] = u
  BY DEF Moves
<1>1. \A k, m \in S : (k <= m <=> move[k] <= move[m]) /\ (move[k] = move[m] => k = m)
  <2> SUFFICES ASSUME NEW k \in S, NEW m \in S
               PROVE  (k <= m <=> move[k] <= move[m]) /\ (move[k] = move[m] => k = m)
    OBVIOUS
  <2>1. k \in Nat /\ m \in Nat /\ move[k] \in Nat /\ move[m] \in Nat
    <3>1. move[k] \in U /\ move[m] \in U
      BY <1>0
    <3>2. U \subseteq Nat /\ S \subseteq Nat
      OBVIOUS
    <3> QED
      BY <3>1, <3>2
  <2>2. k < m \/ k = m \/ m < k
    BY <2>1
  <2> QED
    BY <1>0, <2>1, <2>2
<1>2. ASSUME NEW A \in SUBSET S, NEW B \in SUBSET U, \A k \in S : k \in A <=> move[k] \in B
      PROVE  Cardinality(B) = Cardinality(A)
  <2> DEFINE f == [k \in A |-> move[k]]
  <2>1. f \in [A -> B] /\ (\A k, m \in A : f[k] = f[m] => k = m) /\ (\A u \in B : \E k \in A : f[k] = u)
    BY <1>0, <1>1, <1>2
  <2> HIDE DEF f
  <2>2. f \in Bijection(A, B)
    BY <2>1 DEF Bijection, Injection, Surjection, IsInjective
  <2>3. IsFiniteSet(A)
    BY FiniteBelow, FS_Subset
  <2> QED
    BY <2>2, <2>3, FS_Bijection DEF ExistsBijection
<1>3. Cardinality(U) = Cardinality(S)
  BY <1>0, <1>2
<1>4. ASSUME NEW k \in S PROVE Rank(U, move[k]) = Rank(S, k)
  <2>1. \A m \in S : m \in S \cap 1..k <=> move[m] \in U \cap 1..move[k]
    <3> TAKE m \in S
    <3>1. move[m] \in U /\ move[k] \in U
      BY <1>0
    <3>2. /\ m \in 1..k <=> m <= k
          /\ move[m] \in 1..move[k] <=> move[m] <= move[k]
      <4>1. S \subseteq 1..N /\ U \subseteq 1..N /\ k \in S
        OBVIOUS
      <4>2. m \in 1..N /\ k \in 1..N /\ move[m] \in 1..N /\ move[k] \in 1..N
        BY <3>1, <4>1
      <4> QED
        BY <4>2
    <3> QED
      BY <1>1, <3>1, <3>2
  <2> QED
    BY <1>2, <2>1 DEF Rank
<1> QED
  BY <1>3, <1>4

(* The member with a rank is the only one with it.                         *)
LEMMA RankedOnce ==
  ASSUME NEW N \in Nat, NEW S \in SUBSET (1..N), NEW k \in S
  PROVE  (CHOOSE m \in S : Cardinality(S \cap 1..m) = Rank(S, k)) = k
<1>1. \A m \in S : Rank(S, m) = Rank(S, k) => m = k
  <2> SUFFICES ASSUME NEW m \in S, m # k PROVE Rank(S, m) # Rank(S, k)
    OBVIOUS
  <2>1. m < k \/ k < m
    OBVIOUS
  <2>2. \A a \in S : Rank(S, a) \in 1..Cardinality(S)
    BY Ranked
  <2>3. \A a, b \in S : a < b => Rank(S, a) < Rank(S, b)
    BY Ranked
  <2>4. Rank(S, m) \in Int /\ Rank(S, k) \in Int
    BY <2>2
  <2> QED
    BY <2>1, <2>3, <2>4
<1> QED
  BY <1>1 DEF Rank

LEMMA AlertsRanked ==
  ASSUME NEW N \in Nat, NEW S \in SUBSET (1..N), NEW rules, NEW k \in S
  PROVE  AlertsOf(rules, S)[Rank(S, k)] = Alert(rules[k])
BY Ranked, RankedOnce DEF AlertsOf

SameRules(move, S, rules, others) == \A k \in S : others[move[k]] = rules[k]

LEMMA AlertsMoved ==
  \A N \in Nat : \A S, U \in SUBSET (1..N) : \A move, rules, others :
    Moves(move, S, U) /\ SameRules(move, S, rules, others)
      => AlertsOf(others, U) = AlertsOf(rules, S)
<1> SUFFICES ASSUME NEW N \in Nat, NEW S \in SUBSET (1..N), NEW U \in SUBSET (1..N),
                    NEW move, NEW rules, NEW others,
                    Moves(move, S, U), SameRules(move, S, rules, others)
             PROVE  AlertsOf(others, U) = AlertsOf(rules, S)
  OBVIOUS
<1>1. Cardinality(U) = Cardinality(S) /\ \A k \in S : Rank(U, move[k]) = Rank(S, k)
  BY RanksMoved, ZenonT(60)
<1>2. ASSUME NEW n \in 1..Cardinality(S) PROVE AlertsOf(others, U)[n] = AlertsOf(rules, S)[n]
  <2>1. PICK k \in S : Rank(S, k) = n
    BY Ranked
  <2>2. AlertsOf(rules, S)[n] = Alert(rules[k])
    BY <2>1, AlertsRanked
  <2>3. move[k] \in U
    BY DEF Moves
  <2>4. AlertsOf(others, U)[Rank(U, move[k])] = Alert(others[move[k]]) /\ Rank(U, move[k]) = n
    BY <1>1, <2>1, <2>3, AlertsRanked, ZenonT(60)
  <2> QED
    BY <2>2, <2>4 DEF SameRules
<1>3. /\ AlertsOf(others, U) = [n \in 1..Cardinality(S) |-> AlertsOf(others, U)[n]]
      /\ AlertsOf(rules, S) = [n \in 1..Cardinality(S) |-> AlertsOf(rules, S)[n]]
  BY <1>1 DEF AlertsOf
<1> QED
  BY <1>2, <1>3

(* A rule whose query cannot be parsed or evaluated takes no alert away    *)
(* and adds none, wherever it stands among whatever rules.                 *)
LEMMA BadRuleSkipped ==
  ASSUME NEW S, NEW rules \in Seq(S), NEW bad, NEW i \in 1..Len(rules) + 1, NEW evt,
         QueryError(bad, evt)
  PROVE  matchEvent(InsertAt(rules, i, bad), evt) = matchEvent(rules, evt)
<1> DEFINE N      == Len(rules)
           others == InsertAt(rules, i, bad)
           place  == [k \in 1..N |-> IF k < i THEN k ELSE k + 1]
           hits   == {k \in DOMAIN rules : Matches(rules[k], evt)}
           kept   == {k \in DOMAIN others : Matches(others[k], evt)}
           move   == [k \in hits |-> place[k]]
<1>1. N \in Nat /\ DOMAIN rules = 1..N /\ i \in 1..N + 1
  OBVIOUS
<1>2. /\ DOMAIN others = 1..N + 1 /\ others[i] = bad
      /\ \A k \in 1..N : others[place[k]] = rules[k] /\ place[k] \in 1..N + 1
  <2> DEFINE before == SubSeq(rules, 1, i - 1) after == SubSeq(rules, i, N)
  <2>1. /\ before \in Seq(S \cup {bad}) /\ Len(before) = i - 1
        /\ \A k \in 1..i - 1 : before[k] = rules[k]
    BY <1>1
  <2>2. /\ after \in Seq(S \cup {bad}) /\ Len(after) = N - i + 1
        /\ \A k \in 1..N - i + 1 : after[k] = rules[i + k - 1]
    BY <1>1
  <2>3. others = before \o <<bad>> \o after
    BY DEF InsertAt
  <2> HIDE DEF before, after, others
  <2> DEFINE first == before \o <<bad>>
  <2>f. /\ first \in Seq(S \cup {bad}) /\ Len(first) = i /\ first[i] = bad
        /\ \A k \in 1..i - 1 : first[k] = before[k]
    BY <1>1, <2>1
  <2>g. others = first \o after
    BY <2>3
  <2> HIDE DEF first
  <2>4. /\ DOMAIN others = 1..N + 1 /\ others[i] = bad
        /\ \A k \in 1..i - 1 : others[k] = before[k]
        /\ \A k \in 1..N - i + 1 : others[i + k] = after[k]
    <3>1. /\ others \in Seq(S \cup {bad}) /\ Len(others) = N + 1
          /\ \A k \in 1..i : others[k] = first[k]
          /\ \A k \in 1..N - i + 1 : others[i + k] = after[k]
      <4>1. others \in Seq(S \cup {bad}) /\ Len(others) = i + (N - i + 1)
        BY <2>2, <2>f, <2>g, ConcatProperties
      <4>2. \A k \in 1..i : others[k] = first[k]
        BY <1>1, <2>2, <2>f, <2>g
      <4>3. \A k \in 1..N - i + 1 : others[i + k] = after[k]
        BY <1>1, <2>2, <2>f, <2>g
      <4> QED
        BY <1>1, <4>1, <4>2, <4>3
    <3> QED
      BY <1>1, <2>f, <3>1
  <2>5. ASSUME NEW k \in 1..N PROVE others[place[k]] = rules[k] /\ place[k] \in 1..N + 1
    <3>1. CASE k < i
      BY <1>1, <2>1, <2>4, <3>1
    <3>2. CASE k >= i
      <4>1. k - i + 1 \in 1..N - i + 1 /\ place[k] = i + (k - i + 1) /\ i + (k - i + 1) - 1 = k
        BY <1>1, <3>2
      <4>2. others[i + (k - i + 1)] = after[k - i + 1] /\ after[k - i + 1] = rules[i + (k - i + 1) - 1]
        BY <2>2, <2>4, <4>1
      <4> QED
        BY <1>1, <4>1, <4>2
    <3> QED
      BY <1>1, <3>1, <3>2
  <2> QED
    BY <2>4, <2>5
<1>3. ~ Matches(bad, evt)
  BY DEF QueryError, Matches, Hits
<1> HIDE DEF others
<1>4. hits \in SUBSET (1..N + 1) /\ kept \in SUBSET (1..N + 1) /\ N + 1 \in Nat /\ hits \in SUBSET (1..N)
  BY <1>1, <1>2
<1>5. \A k \in 1..N : k \in hits <=> place[k] \in kept
  BY <1>1, <1>2
<1>6. \A u \in kept : \E k \in hits : move[k] = u
  <2> TAKE u \in kept
  <2>1. u \in 1..N + 1 /\ u # i
    BY <1>2, <1>3
  <2>2. CASE u < i
    <3>1. u \in 1..N /\ place[u] = u
      BY <1>1, <2>1, <2>2
    <3> QED
      BY <1>5, <3>1
  <2>3. CASE u > i
    <3>1. u - 1 \in 1..N /\ place[u - 1] = u
      BY <1>1, <2>1, <2>3
    <3> QED
      BY <1>5, <3>1
  <2> QED
    BY <1>1, <2>1, <2>2, <2>3
<1>7. move \in [hits -> kept]
  BY <1>4, <1>5
<1>8. \A k, m \in hits : k < m => move[k] < move[m]
  BY <1>1, <1>4
<1>9. \A k \in hits : others[move[k]] = rules[k]
  BY <1>2, <1>4
<1>s. SameRules(move, hits, rules, others)
  BY <1>9 DEF SameRules
<1> DEFINE M == N + 1
<1> HIDE DEF hits, kept, move, N
<1>M. M \in Nat /\ hits \in SUBSET (1..M) /\ kept \in SUBSET (1..M)
  BY <1>4
<1> HIDE DEF M
<1>m. Moves(move, hits, kept)
  BY <1>6, <1>7, <1>8 DEF Moves
<1>10. AlertsOf(others, kept) = AlertsOf(rules, hits)
  <2>2. \A A, B \in SUBSET (1..M) : \A f, r, o :
          Moves(f, A, B) /\ SameRules(f, A, r, o) => AlertsOf(o, B) = AlertsOf(r, A)
    BY AlertsMoved, <1>M
  <2>3. \A f, r, o :
          Moves(f, hits, kept) /\ SameRules(f, hits, r, o) => AlertsOf(o, kept) = AlertsOf(r, hits)
    BY <2>2, <1>M
  <2> QED
    BY <2>3, <1>m, <1>s
<1> QED
  BY <1>10 DEF matchEvent, hits, kept, others

LEMMA RulesAreRules == RULES \in Seq({RULES[i] : i \in 1..11}) /\ Len(RULES) = 11
BY DEF RULES

(* Whatever the event: a rule whose query fails is skipped by matchEvent,  *)
(* wherever it stands among the rules.                                     *)
THEOREM EngineBadRuleContained == Spec => []BadRuleContained
<1>1. BadRuleContained
  BY RulesAreRules, BadRuleSkipped DEF BadRuleContained
<1> QED
  BY <1>1, PTL DEF Spec

-----------------------------------------------------------------------------
(* Induction over numbers, in a form without a predicate as a parameter:   *)
(* the numbers for which a statement holds are a set.                      *)
LEMMA LeastNatural ==
  ASSUME NEW T \in SUBSET Nat, NEW n \in T
  PROVE  \E m \in T : \A k \in T : m <= k
<1>1. CASE 0 \in T
  BY <1>1
<1>2. CASE 0 \notin T
  <2> DEFINE S == T \cap 1..n
  <2>1. n \in Nat /\ S \in SUBSET (1..n) /\ n \in S
    BY <1>2
  <2>2. /\ \A k \in S : Rank(S, k) \in 1..Cardinality(S)
        /\ \A k, m \in S : k < m => Rank(S, k) < Rank(S, m)
        /\ \A r \in 1..Cardinality(S) : \E k \in S : Rank(S, k) = r
    BY <2>1, Ranked
  <2>3. Cardinality(S) \in Nat
    BY <2>1, FiniteBelow
  <2> HIDE DEF S
  <2>4. 1 \in 1..Cardinality(S)
    BY <2>1, <2>2, <2>3
  <2>5. PICK m \in S : Rank(S, m) = 1
    BY <2>2, <2>4
  <2>6. ASSUME NEW k \in S PROVE ~ (k < m)
    BY <2>2, <2>3, <2>5
  <2>7. ASSUME NEW k \in T PROVE m <= k
    <3>1. m \in 1..n /\ k \in Nat
      BY <2>1
    <3>2. CASE k \in 1..n
      BY <2>6, <3>1, <3>2 DEF S
    <3>3. CASE k > n
      BY <3>1, <3>3
    <3> QED
      BY <1>2, <2>1, <3>1, <3>2, <3>3
  <2> QED
    BY <2>7 DEF S
<1> QED
  BY <1>1, <1>2

LEMMA Upwards ==
  ASSUME NEW S, \A k \in Nat : (\A j \in 0..k - 1 : j \in S) => k \in S
  PROVE  \A k \in Nat : k \in S
<1> SUFFICES ASSUME NEW n \in Nat, n \notin S PROVE FALSE
  OBVIOUS
<1> DEFINE T == {k \in Nat : k \notin S}
<1>1. T \in SUBSET Nat /\ n \in T
  OBVIOUS
<1>2. PICK m \in T : \A k \in T : m <= k
  BY <1>1, LeastNatural
<1>3. \A j \in 0..m - 1 : j \in S
  BY <1>2
<1> QED
  BY <1>2, <1>3

LEMMA Downwards ==
  ASSUME NEW n \in Nat, NEW S,
         \A k \in 1..n : (\A j \in k + 1..n : j \in S) => k \in S
  PROVE  \A k \in 1..n : k \in S
<1> DEFINE U == {d \in Nat : d < n => n - d \in S}
<1>1. ASSUME NEW d \in Nat, \A c \in 0..d - 1 : c \in U PROVE d \in U
  <2> SUFFICES ASSUME d < n PROVE n - d \in S
    OBVIOUS
  <2>1. ASSUME NEW j \in n - d + 1..n PROVE j \in S
    <3>1. n - j \in 0..d - 1 /\ n - j < n /\ n - (n - j) = j
      BY <2>1
    <3> QED
      BY <1>1, <3>1
  <2> QED
    BY <2>1
<1>2. \A d \in Nat : d \in U
  <2> HIDE DEF U
  <2> QED
    BY <1>1, Upwards
<1> TAKE k \in 1..n
<1>3. n - k \in Nat /\ n - k < n /\ n - (n - k) = k
  OBVIOUS
<1> QED
  BY <1>2, <1>3

-----------------------------------------------------------------------------
(* The parser, as where it gets to.  A result reaches a position if it is  *)
(* no exception and ends there.                                            *)
Reach(r, q) == r.ok /\ r.pos = q

(* The provers do not read this token's name.                              *)
Comma == ","

LEMMA CommaApart ==
  Comma \notin {"(", ")", "IN", "CMP", "AND", "OR", "NOT", "EOF", "IDENT", "STRING", "NUMBER"}
BY Zenon DEF Comma

Kind(ts, p)       == ts[p].t
LengthCall(ts, p) == PeekCall(ts, p, {"length"})
BoolCall(ts, p)   == PeekCall(ts, p, BoolFuncs)
Truth(ts, p)      == PeekWord(ts, p, {"true", "false"})

(* The entry of a table of results for a production at p ends at q.        *)
Gets(g, a, p, q) == Reach(g[<<a, p>>], q)

LEMMA Peeked ==
  ASSUME NEW ts, NEW p \in Int
  PROVE  /\ LengthCall(ts, p) => Kind(ts, p) = "IDENT" /\ Kind(ts, p + 1) = "("
         /\ BoolCall(ts, p) => Kind(ts, p) = "IDENT" /\ Kind(ts, p + 1) = "("
         /\ Truth(ts, p) => Kind(ts, p) = "IDENT"
         /\ ~ (LengthCall(ts, p) /\ BoolCall(ts, p))
         /\ ~ (Truth(ts, p) /\ (LengthCall(ts, p) \/ BoolCall(ts, p)))
BY DEF LengthCall, BoolCall, Truth, PeekCall, PeekWord, Peek, Kind, BoolFuncs

LEMMA ReachOperand ==
  ASSUME NEW g, NEW ts, NEW p \in Int, NEW q
  PROVE  Reach(Operand(g, ts, p), q) <=>
           \/ /\ LengthCall(ts, p)
              /\ \E a : Gets(g, "operand", p + 2, a) /\ Kind(ts, a) = ")" /\ q = a + 1
           \/ /\ ~ LengthCall(ts, p)
              /\ Kind(ts, p) \in {"IDENT", "STRING", "NUMBER"} /\ q = p + 1
BY DEF LengthCall, Reach, Operand, Then, Expect, Peek, Ok, Throw, Gets, Kind

LEMMA ReachMoreArgs ==
  ASSUME NEW g, NEW ts, NEW p \in Int, NEW q
  PROVE  Reach(MoreArgs(g, ts, p), q) <=>
           \/ Kind(ts, p) # Comma /\ q = p
           \/ /\ Kind(ts, p) = Comma
              /\ \E a : Gets(g, "operand", p + 1, a) /\ Gets(g, "moreArgs", a, q)
BY DEF Reach, MoreArgs, Then, Peek, Ok, Throw, Comma, Gets, Kind

LEMMA ReachArguments ==
  ASSUME NEW g, NEW ts, NEW p \in Int, NEW q
  PROVE  Reach(Arguments(g, ts, p), q) <=>
           /\ Kind(ts, p) = "("
           /\ \/ Kind(ts, p + 1) = ")" /\ q = p + 1 + 1
              \/ /\ Kind(ts, p + 1) # ")"
                 /\ \E a, b : /\ Gets(g, "operand", p + 1, a) /\ Gets(g, "moreArgs", a, b)
                              /\ Kind(ts, b) = ")" /\ q = b + 1
BY DEF Reach, Arguments, ArgList, Then, Expect, Peek, Ok, Throw, Gets, Kind

LEMMA ReachComparison ==
  ASSUME NEW g, NEW ts, NEW p \in Int, NEW q
  PROVE  Reach(Comparison(g, ts, p), q) <=>
           \E a : /\ Reach(Operand(g, ts, p), a)
                  /\ \/ Kind(ts, a) = "IN" /\ Reach(Arguments(g, ts, a + 1), q)
                     \/ Kind(ts, a) = "CMP" /\ Reach(Operand(g, ts, a + 1), q)
BY DEF Reach, Comparison, Then, Expect, Peek, Ok, Throw, Gets, Kind

LEMMA ReachPredicate ==
  ASSUME NEW g, NEW ts, NEW p \in Int, NEW q
  PROVE  Reach(Predicate(g, ts, p), q) <=>
           IF BoolCall(ts, p) THEN Reach(Arguments(g, ts, p + 1), q)
           ELSE IF Truth(ts, p) THEN q = p + 1
           ELSE Reach(Comparison(g, ts, p), q)
BY DEF BoolCall, Truth, Reach, Predicate, FunctionPredicate, Then, Ok, Throw, Gets, Kind

LEMMA ReachUnary ==
  ASSUME NEW g, NEW ts, NEW p \in Int, NEW q
  PROVE  Reach(Unary(g, ts, p), q) <=>
           IF Kind(ts, p) = "NOT" THEN Gets(g, "unary", p + 1, q)
           ELSE IF Kind(ts, p) = "("
           THEN \E a : Reach(OrExpr(g, ts, p + 1), a) /\ Kind(ts, a) = ")" /\ q = a + 1
           ELSE Reach(Predicate(g, ts, p), q)
BY DEF Reach, Unary, Then, Expect, Peek, Ok, Throw, Gets, Kind

LEMMA ReachMoreAnds ==
  ASSUME NEW g, NEW ts, NEW p \in Int, NEW q
  PROVE  Reach(MoreAnds(g, ts, p), q) <=>
           \/ Kind(ts, p) # "AND" /\ q = p
           \/ /\ Kind(ts, p) = "AND"
              /\ \E a : Gets(g, "unary", p + 1, a) /\ Gets(g, "moreAnds", a, q)
BY DEF Reach, MoreAnds, Then, Peek, Ok, Throw, Gets, Kind

LEMMA ReachAnd ==
  ASSUME NEW g, NEW ts, NEW p \in Int, NEW q
  PROVE  Reach(AndExpr(g, ts, p), q) <=>
           \E a : Gets(g, "unary", p, a) /\ Gets(g, "moreAnds", a, q)
BY DEF Reach, AndExpr, Then, Ok, Throw, Gets, Kind

LEMMA ReachMoreOrs ==
  ASSUME NEW g, NEW ts, NEW p \in Int, NEW q
  PROVE  Reach(MoreOrs(g, ts, p), q) <=>
           \/ Kind(ts, p) # "OR" /\ q = p
           \/ /\ Kind(ts, p) = "OR"
              /\ \E a : Reach(AndExpr(g, ts, p + 1), a) /\ Gets(g, "moreOrs", a, q)
BY DEF Reach, MoreOrs, Then, Peek, Ok, Throw, Gets, Kind

LEMMA ReachOr ==
  ASSUME NEW g, NEW ts, NEW p \in Int, NEW q
  PROVE  Reach(OrExpr(g, ts, p), q) <=>
           \E a : Reach(AndExpr(g, ts, p), a) /\ Gets(g, "moreOrs", a, q)
BY DEF Reach, OrExpr, Then, Ok, Throw, Gets, Kind

-----------------------------------------------------------------------------
(* The tokens of a text: the last one is "EOF", and no other.              *)
Ended(ts, n) ==
  /\ n \in Nat \ {0} /\ DOMAIN ts = 1..n
  /\ \A i \in 1..n : Kind(ts, i) = "EOF" <=> i = n

(* A parser goes forwards from positions from k on, and not over the end.  *)
Forwards(g, n, k) ==
  \A p \in k..n : \A q :
    /\ Gets(g, "operand", p, q) \/ Gets(g, "unary", p, q) => q \in p + 1..n
    /\ Gets(g, "moreArgs", p, q) \/ Gets(g, "moreAnds", p, q) \/ Gets(g, "moreOrs", p, q)
       => q \in p..n

LEMMA NotLast ==
  ASSUME NEW ts, NEW n, Ended(ts, n), NEW p \in 1..n, Kind(ts, p) # "EOF"
  PROVE  p + 1 \in 1..n
BY DEF Ended

LEMMA ForwardsOperand ==
  ASSUME NEW g, NEW ts, NEW n, Ended(ts, n), NEW p \in 1..n, Forwards(g, n, p + 1),
         NEW q, Reach(Operand(g, ts, p), q)
  PROVE  q \in p + 1..n
<1>0. n \in Nat
  BY DEF Ended
<1>1. CASE LengthCall(ts, p)
  <2>1. p + 1 \in 1..n /\ Kind(ts, p + 1) = "("
    BY <1>1, NotLast, Peeked
  <2>2. p + 2 \in 1..n
    BY <1>0, <2>1, NotLast
  <2>3. PICK a : Gets(g, "operand", p + 2, a) /\ Kind(ts, a) = ")" /\ q = a + 1
    BY <1>1, ReachOperand
  <2>4. a \in p + 3..n
    BY <1>0, <2>2, <2>3 DEF Forwards
  <2>5. a + 1 \in 1..n
    BY <1>0, <2>3, <2>4, NotLast
  <2> QED
    BY <2>3, <2>4, <2>5
<1>2. CASE ~ LengthCall(ts, p)
  <2>1. Kind(ts, p) \in {"IDENT", "STRING", "NUMBER"} /\ q = p + 1
    BY <1>2, ReachOperand
  <2> QED
    BY <2>1, NotLast
<1> QED
  BY <1>1, <1>2

LEMMA ForwardsArguments ==
  ASSUME NEW g, NEW ts, NEW n, Ended(ts, n), NEW p \in 1..n, Forwards(g, n, p + 1),
         NEW q, Reach(Arguments(g, ts, p), q)
  PROVE  q \in p + 2..n
<1>0. n \in Nat
  BY DEF Ended
<1>1. Kind(ts, p) = "(" /\ p + 1 \in 1..n
  BY ReachArguments, NotLast
<1>2. CASE Kind(ts, p + 1) = ")"
  <2>1. q = p + 1 + 1
    BY <1>2, ReachArguments
  <2> QED
    BY <1>0, <1>1, <1>2, <2>1, NotLast
<1>3. CASE Kind(ts, p + 1) # ")"
  <2>1. PICK a, b : /\ Gets(g, "operand", p + 1, a) /\ Gets(g, "moreArgs", a, b)
                    /\ Kind(ts, b) = ")" /\ q = b + 1
    BY <1>3, ReachArguments
  <2>2. a \in p + 2..n
    BY <1>0, <1>1, <2>1 DEF Forwards
  <2>3. b \in a..n
    BY <1>0, <2>1, <2>2 DEF Forwards
  <2>4. b + 1 \in 1..n
    BY <1>0, <2>1, <2>2, <2>3, NotLast
  <2> QED
    BY <2>1, <2>2, <2>3, <2>4
<1> QED
  BY <1>2, <1>3

LEMMA ForwardsComparison ==
  ASSUME NEW g, NEW ts, NEW n, Ended(ts, n), NEW p \in 1..n, Forwards(g, n, p + 1),
         NEW q, Reach(Comparison(g, ts, p), q)
  PROVE  q \in p + 1..n
<1>0. n \in Nat
  BY DEF Ended
<1>1. PICK a : /\ Reach(Operand(g, ts, p), a)
               /\ \/ Kind(ts, a) = "IN" /\ Reach(Arguments(g, ts, a + 1), q)
                  \/ Kind(ts, a) = "CMP" /\ Reach(Operand(g, ts, a + 1), q)
  BY ReachComparison
<1>2. a \in p + 1..n
  BY <1>1, ForwardsOperand
<1>3. a + 1 \in 1..n
  BY <1>0, <1>1, <1>2, NotLast
<1>4. Forwards(g, n, a + 1 + 1)
  BY <1>0, <1>2 DEF Forwards
<1>5. CASE Reach(Arguments(g, ts, a + 1), q)
  <2>1. q \in a + 1 + 2..n
    BY <1>3, <1>4, <1>5, ForwardsArguments
  <2> QED
    BY <1>0, <1>2, <2>1
<1>6. CASE Reach(Operand(g, ts, a + 1), q)
  <2>1. q \in a + 1 + 1..n
    BY <1>3, <1>4, <1>6, ForwardsOperand
  <2> QED
    BY <1>0, <1>2, <2>1
<1> QED
  BY <1>1, <1>5, <1>6

LEMMA ForwardsPredicate ==
  ASSUME NEW g, NEW ts, NEW n, Ended(ts, n), NEW p \in 1..n, Forwards(g, n, p + 1),
         NEW q, Reach(Predicate(g, ts, p), q)
  PROVE  q \in p + 1..n
<1>0. n \in Nat
  BY DEF Ended
<1>1. CASE BoolCall(ts, p)
  <2>1. p + 1 \in 1..n /\ Reach(Arguments(g, ts, p + 1), q)
    BY <1>1, Peeked, NotLast, ReachPredicate
  <2>2. Forwards(g, n, p + 1 + 1)
    BY <1>0 DEF Forwards
  <2> QED
    BY <1>0, <2>1, <2>2, ForwardsArguments
<1>2. CASE ~ BoolCall(ts, p) /\ Truth(ts, p)
  BY <1>2, Peeked, NotLast, ReachPredicate
<1>3. CASE ~ BoolCall(ts, p) /\ ~ Truth(ts, p)
  BY <1>3, ReachPredicate, ForwardsComparison
<1> QED
  BY <1>1, <1>2, <1>3

LEMMA ForwardsAnd ==
  ASSUME NEW g, NEW n \in Nat, NEW p \in 1..n, Forwards(g, n, p), NEW ts,
         NEW q, Reach(AndExpr(g, ts, p), q)
  PROVE  q \in p + 1..n
<1>1. PICK a : Gets(g, "unary", p, a) /\ Gets(g, "moreAnds", a, q)
  BY ReachAnd
<1>2. a \in p + 1..n
  BY <1>1 DEF Forwards
<1> QED
  BY <1>1, <1>2 DEF Forwards

LEMMA ForwardsOr ==
  ASSUME NEW g, NEW n \in Nat, NEW p \in 1..n, Forwards(g, n, p), NEW ts,
         NEW q, Reach(OrExpr(g, ts, p), q)
  PROVE  q \in p + 1..n
<1>1. PICK a : Reach(AndExpr(g, ts, p), a) /\ Gets(g, "moreOrs", a, q)
  BY ReachOr
<1>2. a \in p + 1..n
  BY <1>1, ForwardsAnd
<1> QED
  BY <1>1, <1>2 DEF Forwards

LEMMA ForwardsUnary ==
  ASSUME NEW g, NEW ts, NEW n, Ended(ts, n), NEW p \in 1..n, Forwards(g, n, p + 1),
         NEW q, Reach(Unary(g, ts, p), q)
  PROVE  q \in p + 1..n
<1>0. n \in Nat
  BY DEF Ended
<1>1. CASE Kind(ts, p) = "NOT"
  <2>1. p + 1 \in 1..n /\ Gets(g, "unary", p + 1, q)
    BY <1>1, NotLast, ReachUnary
  <2> QED
    BY <1>0, <2>1 DEF Forwards
<1>2. CASE Kind(ts, p) = "("
  <2>1. PICK a : Reach(OrExpr(g, ts, p + 1), a) /\ Kind(ts, a) = ")" /\ q = a + 1
    BY <1>2, ReachUnary
  <2>2. p + 1 \in 1..n
    BY <1>2, NotLast
  <2>3. a \in p + 2..n
    BY <1>0, <2>1, <2>2, ForwardsOr
  <2>4. a + 1 \in 1..n
    BY <1>0, <2>1, <2>3, NotLast
  <2> QED
    BY <2>1, <2>3, <2>4
<1>3. CASE Kind(ts, p) \notin {"NOT", "("}
  BY <1>3, ReachUnary, ForwardsPredicate
<1> QED
  BY <1>1, <1>2, <1>3

LEMMA ForwardsMore ==
  ASSUME NEW g, NEW ts, NEW n, Ended(ts, n), NEW p \in 1..n, Forwards(g, n, p + 1), NEW q,
         \/ Reach(MoreArgs(g, ts, p), q) \/ Reach(MoreAnds(g, ts, p), q)
         \/ Reach(MoreOrs(g, ts, p), q)
  PROVE  q \in p..n
<1>0. n \in Nat
  BY DEF Ended
<1>1. CASE Reach(MoreArgs(g, ts, p), q)
  <2>1. CASE Kind(ts, p) # Comma
    BY <1>0, <1>1, <2>1, ReachMoreArgs
  <2>2. CASE Kind(ts, p) = Comma
    <3>1. PICK a : Gets(g, "operand", p + 1, a) /\ Gets(g, "moreArgs", a, q)
      BY <1>1, <2>2, ReachMoreArgs
    <3>2. p + 1 \in 1..n
      BY <2>2, NotLast, CommaApart
    <3>3. a \in p + 2..n
      BY <1>0, <3>1, <3>2 DEF Forwards
    <3> QED
      BY <1>0, <3>1, <3>3 DEF Forwards
  <2> QED
    BY <2>1, <2>2
<1>2. CASE Reach(MoreAnds(g, ts, p), q)
  <2>1. CASE Kind(ts, p) # "AND"
    BY <1>0, <1>2, <2>1, ReachMoreAnds
  <2>2. CASE Kind(ts, p) = "AND"
    <3>1. PICK a : Gets(g, "unary", p + 1, a) /\ Gets(g, "moreAnds", a, q)
      BY <1>2, <2>2, ReachMoreAnds
    <3>2. p + 1 \in 1..n
      BY <2>2, NotLast
    <3>3. a \in p + 2..n
      BY <1>0, <3>1, <3>2 DEF Forwards
    <3> QED
      BY <1>0, <3>1, <3>3 DEF Forwards
  <2> QED
    BY <2>1, <2>2
<1>3. CASE Reach(MoreOrs(g, ts, p), q)
  <2>1. CASE Kind(ts, p) # "OR"
    BY <1>0, <1>3, <2>1, ReachMoreOrs
  <2>2. CASE Kind(ts, p) = "OR"
    <3>1. PICK a : Reach(AndExpr(g, ts, p + 1), a) /\ Gets(g, "moreOrs", a, q)
      BY <1>3, <2>2, ReachMoreOrs
    <3>2. p + 1 \in 1..n
      BY <2>2, NotLast
    <3>3. a \in p + 2..n
      BY <1>0, <3>1, <3>2, ForwardsAnd
    <3> QED
      BY <1>0, <3>1, <3>3 DEF Forwards
  <2> QED
    BY <2>1, <2>2
<1> QED
  BY <1>1, <1>2, <1>3

(* What a production gives at p from a table that goes forwards behind p.  *)
LEMMA ForwardsProduce ==
  ASSUME NEW g, NEW ts, NEW n, Ended(ts, n), NEW p \in 1..n, Forwards(g, n, p + 1), NEW q
  PROVE  /\ \/ Reach(Produce(g, ts, <<"operand", p>>), q)
            \/ Reach(Produce(g, ts, <<"unary", p>>), q)
            => q \in p + 1..n
         /\ \/ Reach(Produce(g, ts, <<"moreArgs", p>>), q)
            \/ Reach(Produce(g, ts, <<"moreAnds", p>>), q)
            \/ Reach(Produce(g, ts, <<"moreOrs", p>>), q)
            => q \in p..n
<1>1. /\ Produce(g, ts, <<"operand", p>>) = Operand(g, ts, p)
      /\ Produce(g, ts, <<"unary", p>>) = Unary(g, ts, p)
      /\ Produce(g, ts, <<"moreArgs", p>>) = MoreArgs(g, ts, p)
      /\ Produce(g, ts, <<"moreAnds", p>>) = MoreAnds(g, ts, p)
      /\ Produce(g, ts, <<"moreOrs", p>>) = MoreOrs(g, ts, p)
  BY DEF Produce
<1> QED
  BY <1>1, ForwardsOperand, ForwardsUnary, ForwardsMore

-----------------------------------------------------------------------------
(* What a production gives at p depends on the results behind p only.      *)
Agree(g, h, n, k) == \A a \in Productions : \A q \in k..n : g[<<a, q>>] = h[<<a, q>>]

LEMMA EndsAt ==
  ASSUME NEW g, NEW a, NEW p, g[<<a, p>>].ok
  PROVE  Gets(g, a, p, g[<<a, p>>].pos)
BY DEF Gets, Reach

LEMMA LocalOperand ==
  ASSUME NEW g, NEW h, NEW ts, NEW n, Ended(ts, n), NEW p \in 1..n, Agree(g, h, n, p + 1)
  PROVE  Operand(g, ts, p) = Operand(h, ts, p)
<1>0. n \in Nat
  BY DEF Ended
<1>1. CASE LengthCall(ts, p)
  <2>1. p + 1 \in 1..n /\ Kind(ts, p + 1) = "("
    BY <1>1, NotLast, Peeked
  <2>2. p + 2 \in p + 1..n
    BY <1>0, <2>1, NotLast
  <2>3. g[<<"operand", p + 2>>] = h[<<"operand", p + 2>>]
    BY <2>2 DEF Agree, Productions
  <2> QED
    BY <2>3 DEF Operand
<1>2. CASE ~ LengthCall(ts, p)
  BY <1>2 DEF Operand, LengthCall
<1> QED
  BY <1>1, <1>2

LEMMA LocalArgList ==
  ASSUME NEW g, NEW h, NEW n \in Nat, NEW p \in 1..n, Agree(g, h, n, p), Forwards(g, n, p), NEW ts
  PROVE  ArgList(g, ts, p) = ArgList(h, ts, p)
<1> DEFINE r == g[<<"operand", p>>]
<1>0. p \in p..n
  OBVIOUS
<1>1. r = h[<<"operand", p>>]
  BY <1>0 DEF Agree, Productions
<1>2. ASSUME r.ok PROVE g[<<"moreArgs", r.pos>>] = h[<<"moreArgs", r.pos>>]
  <2>1. Gets(g, "operand", p, r.pos)
    BY <1>2, EndsAt
  <2>2. r.pos \in p..n
    BY <2>1 DEF Forwards
  <2> QED
    BY <2>2 DEF Agree, Productions
<1> QED
  BY <1>1, <1>2 DEF ArgList, Then

LEMMA LocalArguments ==
  ASSUME NEW g, NEW h, NEW ts, NEW n, Ended(ts, n), NEW p \in 1..n,
         Agree(g, h, n, p + 1), Forwards(g, n, p + 1)
  PROVE  Arguments(g, ts, p) = Arguments(h, ts, p)
<1>1. CASE Kind(ts, p) = "("
  <2>1. p + 1 \in 1..n /\ n \in Nat
    BY <1>1, NotLast DEF Ended
  <2>2. ArgList(g, ts, p + 1) = ArgList(h, ts, p + 1)
    BY <2>1, LocalArgList
  <2> QED
    BY <2>2 DEF Arguments
<1>2. CASE Kind(ts, p) # "("
  BY <1>2 DEF Arguments, Kind, Peek
<1> QED
  BY <1>1, <1>2

LEMMA LocalComparison ==
  ASSUME NEW g, NEW h, NEW ts, NEW n, Ended(ts, n), NEW p \in 1..n,
         Agree(g, h, n, p + 1), Forwards(g, n, p + 1)
  PROVE  Comparison(g, ts, p) = Comparison(h, ts, p)
<1> DEFINE r == Operand(g, ts, p)
<1>0. n \in Nat
  BY DEF Ended
<1>1. r = Operand(h, ts, p)
  BY LocalOperand
<1>2. ASSUME r.ok, Kind(ts, r.pos) # "EOF"
      PROVE  /\ Arguments(g, ts, r.pos + 1) = Arguments(h, ts, r.pos + 1)
             /\ Operand(g, ts, r.pos + 1) = Operand(h, ts, r.pos + 1)
  <2>1. r.pos \in p + 1..n
    BY <1>2, ForwardsOperand DEF Reach
  <2> HIDE DEF r
  <2>2. r.pos + 1 \in 1..n
    BY <1>0, <1>2, <2>1, NotLast
  <2>3. Agree(g, h, n, r.pos + 1 + 1) /\ Forwards(g, n, r.pos + 1 + 1)
    BY <1>0, <2>1 DEF Agree, Forwards
  <2> QED
    BY <2>2, <2>3, LocalArguments, LocalOperand
<1>3. CASE ~ r.ok
  BY <1>1, <1>3 DEF Comparison, Then
<1>4. CASE r.ok
  <2> HIDE DEF r
  <2>1. Comparison(g, ts, p) =
          IF Peek(ts, r.pos, "IN")
          THEN Then(Arguments(g, ts, r.pos + 1), LAMBDA values, q :
                 Ok([op |-> "in", field |-> r.node, values |-> values], q))
          ELSE IF Peek(ts, r.pos, "CMP")
               THEN Then(Operand(g, ts, r.pos + 1), LAMBDA right, q :
                      Ok([op |-> "cmp", cmp |-> ts[r.pos].v, left |-> r.node, right |-> right], q))
               ELSE Throw(r.pos)
    BY <1>4 DEF Comparison, Then, r
  <2>2. Comparison(h, ts, p) =
          IF Peek(ts, r.pos, "IN")
          THEN Then(Arguments(h, ts, r.pos + 1), LAMBDA values, q :
                 Ok([op |-> "in", field |-> r.node, values |-> values], q))
          ELSE IF Peek(ts, r.pos, "CMP")
               THEN Then(Operand(h, ts, r.pos + 1), LAMBDA right, q :
                      Ok([op |-> "cmp", cmp |-> ts[r.pos].v, left |-> r.node, right |-> right], q))
               ELSE Throw(r.pos)
    BY <1>1, <1>4 DEF Comparison, Then
  <2>3. CASE Kind(ts, r.pos) = "IN"
    BY <1>2, <1>4, <2>1, <2>2, <2>3 DEF Peek, Kind
  <2>4. CASE Kind(ts, r.pos) = "CMP"
    BY <1>2, <1>4, <2>1, <2>2, <2>4 DEF Peek, Kind
  <2>5. CASE Kind(ts, r.pos) \notin {"IN", "CMP"}
    BY <2>1, <2>2, <2>5 DEF Peek, Kind
  <2> QED
    BY <2>3, <2>4, <2>5
<1> QED
  BY <1>3, <1>4

LEMMA LocalPredicate ==
  ASSUME NEW g, NEW h, NEW ts, NEW n, Ended(ts, n), NEW p \in 1..n,
         Agree(g, h, n, p + 1), Forwards(g, n, p + 1)
  PROVE  Predicate(g, ts, p) = Predicate(h, ts, p)
<1>0. n \in Nat
  BY DEF Ended
<1>1. CASE BoolCall(ts, p)
  <2>1. p + 1 \in 1..n
    BY <1>1, Peeked, NotLast
  <2>2. Agree(g, h, n, p + 1 + 1) /\ Forwards(g, n, p + 1 + 1)
    BY <1>0 DEF Agree, Forwards
  <2>3. Arguments(g, ts, p + 1) = Arguments(h, ts, p + 1)
    BY <2>1, <2>2, LocalArguments
  <2> QED
    BY <1>1, <2>3 DEF Predicate, FunctionPredicate, BoolCall
<1>2. CASE ~ BoolCall(ts, p)
  <2>1. Comparison(g, ts, p) = Comparison(h, ts, p)
    BY LocalComparison
  <2> QED
    BY <1>2, <2>1 DEF Predicate, BoolCall
<1> QED
  BY <1>1, <1>2

LEMMA LocalAnd ==
  ASSUME NEW g, NEW h, NEW n \in Nat, NEW p \in 1..n, Agree(g, h, n, p), Forwards(g, n, p), NEW ts
  PROVE  AndExpr(g, ts, p) = AndExpr(h, ts, p)
<1> DEFINE r == g[<<"unary", p>>]
<1>1. r = h[<<"unary", p>>]
  BY DEF Agree, Productions
<1>2. ASSUME r.ok PROVE g[<<"moreAnds", r.pos>>] = h[<<"moreAnds", r.pos>>]
  <2>1. Gets(g, "unary", p, r.pos)
    BY <1>2, EndsAt
  <2>2. r.pos \in p..n
    BY <2>1 DEF Forwards
  <2> QED
    BY <2>2 DEF Agree, Productions
<1> QED
  BY <1>1, <1>2 DEF AndExpr, Then

LEMMA LocalOr ==
  ASSUME NEW g, NEW h, NEW n \in Nat, NEW p \in 1..n, Agree(g, h, n, p), Forwards(g, n, p), NEW ts
  PROVE  OrExpr(g, ts, p) = OrExpr(h, ts, p)
<1> DEFINE r == AndExpr(g, ts, p)
<1>1. r = AndExpr(h, ts, p)
  BY LocalAnd
<1>2. ASSUME r.ok PROVE g[<<"moreOrs", r.pos>>] = h[<<"moreOrs", r.pos>>]
  <2>1. r.pos \in p + 1..n
    BY <1>2, ForwardsAnd DEF Reach
  <2> HIDE DEF r
  <2>2. r.pos \in p..n
    BY <2>1
  <2> QED
    BY <2>2 DEF Agree, Productions
<1> HIDE DEF r
<1>3. OrExpr(g, ts, p) = Then(r, LAMBDA n1, q :
        Then(g[<<"moreOrs", q>>], LAMBDA ns, e : Ok(Chain("or", n1, ns), e)))
  BY DEF OrExpr, r
<1>4. OrExpr(h, ts, p) = Then(r, LAMBDA n1, q :
        Then(h[<<"moreOrs", q>>], LAMBDA ns, e : Ok(Chain("or", n1, ns), e)))
  BY <1>1 DEF OrExpr
<1> QED
  BY <1>2, <1>3, <1>4 DEF Then

LEMMA LocalUnary ==
  ASSUME NEW g, NEW h, NEW ts, NEW n, Ended(ts, n), NEW p \in 1..n,
         Agree(g, h, n, p + 1), Forwards(g, n, p + 1)
  PROVE  Unary(g, ts, p) = Unary(h, ts, p)
<1>0. n \in Nat
  BY DEF Ended
<1>1. CASE Kind(ts, p) = "NOT"
  <2>1. p + 1 \in p + 1..n
    BY <1>0, <1>1, NotLast
  <2>2. g[<<"unary", p + 1>>] = h[<<"unary", p + 1>>]
    BY <2>1 DEF Agree, Productions
  <2> QED
    BY <1>1, <2>2 DEF Unary, Peek, Kind
<1>2. CASE Kind(ts, p) = "("
  <2>1. p + 1 \in 1..n
    BY <1>0, <1>2, NotLast
  <2>2. OrExpr(g, ts, p + 1) = OrExpr(h, ts, p + 1)
    BY <1>0, <2>1, LocalOr
  <2> QED
    BY <1>2, <2>2 DEF Unary, Peek, Kind
<1>3. CASE Kind(ts, p) \notin {"NOT", "("}
  <2>1. Predicate(g, ts, p) = Predicate(h, ts, p)
    BY LocalPredicate
  <2> QED
    BY <1>3, <2>1 DEF Unary, Peek, Kind
<1> QED
  BY <1>1, <1>2, <1>3

LEMMA LocalMoreArgs ==
  ASSUME NEW g, NEW h, NEW ts, NEW n, Ended(ts, n), NEW p \in 1..n,
         Agree(g, h, n, p + 1), Forwards(g, n, p + 1)
  PROVE  MoreArgs(g, ts, p) = MoreArgs(h, ts, p)
<1>0. n \in Nat
  BY DEF Ended
<1> DEFINE more(t) == Then(t[<<"operand", p + 1>>], LAMBDA arg, q :
                        Then(t[<<"moreArgs", q>>], LAMBDA args, e : Ok(<<arg>> \o args, e)))
<1>1. CASE Kind(ts, p) = Comma
  <2> DEFINE r == g[<<"operand", p + 1>>]
  <2>1. p + 1 \in p + 1..n
    BY <1>0, <1>1, NotLast, CommaApart
  <2>2. r = h[<<"operand", p + 1>>]
    BY <2>1 DEF Agree, Productions
  <2>3. ASSUME r.ok PROVE g[<<"moreArgs", r.pos>>] = h[<<"moreArgs", r.pos>>]
    <3>1. Gets(g, "operand", p + 1, r.pos)
      BY <2>3, EndsAt
    <3>2. r.pos \in p + 1..n
      BY <1>0, <2>1, <3>1 DEF Forwards
    <3> QED
      BY <3>2 DEF Agree, Productions
  <2>4. MoreArgs(g, ts, p) = more(g) /\ MoreArgs(h, ts, p) = more(h)
    BY <1>1, Zenon DEF MoreArgs, Peek, Kind, Comma
  <2>5. more(g) = more(h)
    BY <2>2, <2>3 DEF Then
  <2> QED
    BY <2>4, <2>5
<1>2. CASE Kind(ts, p) # Comma
  BY <1>2, Zenon DEF MoreArgs, Peek, Kind, Comma
<1> QED
  BY <1>1, <1>2

LEMMA LocalMoreAnds ==
  ASSUME NEW g, NEW h, NEW ts, NEW n, Ended(ts, n), NEW p \in 1..n,
         Agree(g, h, n, p + 1), Forwards(g, n, p + 1)
  PROVE  MoreAnds(g, ts, p) = MoreAnds(h, ts, p)
<1>0. n \in Nat
  BY DEF Ended
<1>1. CASE Kind(ts, p) = "AND"
  <2> DEFINE r == g[<<"unary", p + 1>>]
  <2>1. p + 1 \in p + 1..n
    BY <1>0, <1>1, NotLast
  <2>2. r = h[<<"unary", p + 1>>]
    BY <2>1 DEF Agree, Productions
  <2>3. ASSUME r.ok PROVE g[<<"moreAnds", r.pos>>] = h[<<"moreAnds", r.pos>>]
    <3>1. Gets(g, "unary", p + 1, r.pos)
      BY <2>3, EndsAt
    <3>2. r.pos \in p + 1..n
      BY <1>0, <2>1, <3>1 DEF Forwards
    <3> QED
      BY <3>2 DEF Agree, Productions
  <2> QED
    BY <2>2, <2>3 DEF MoreAnds, Then
<1>2. CASE Kind(ts, p) # "AND"
  BY <1>2 DEF MoreAnds, Peek, Kind
<1> QED
  BY <1>1, <1>2

LEMMA LocalMoreOrs ==
  ASSUME NEW g, NEW h, NEW ts, NEW n, Ended(ts, n), NEW p \in 1..n,
         Agree(g, h, n, p + 1), Forwards(g, n, p + 1)
  PROVE  MoreOrs(g, ts, p) = MoreOrs(h, ts, p)
<1>0. n \in Nat
  BY DEF Ended
<1>1. CASE Kind(ts, p) = "OR"
  <2> DEFINE r == AndExpr(g, ts, p + 1)
  <2>1. p + 1 \in 1..n
    BY <1>0, <1>1, NotLast
  <2>2. r = AndExpr(h, ts, p + 1)
    BY <1>0, <2>1, LocalAnd
  <2>3. ASSUME r.ok PROVE g[<<"moreOrs", r.pos>>] = h[<<"moreOrs", r.pos>>]
    <3>1. r.pos \in p + 1 + 1..n
      BY <1>0, <2>1, <2>3, ForwardsAnd DEF Reach
    <3> HIDE DEF r
    <3>2. r.pos \in p + 1..n
      BY <1>0, <3>1
    <3> QED
      BY <3>2 DEF Agree, Productions
  <2> HIDE DEF r
  <2>4. MoreOrs(g, ts, p) = Then(r, LAMBDA n1, q :
          Then(g[<<"moreOrs", q>>], LAMBDA ns, e : Ok(<<n1>> \o ns, e)))
    BY <1>1 DEF MoreOrs, Peek, Kind, r
  <2>5. MoreOrs(h, ts, p) = Then(r, LAMBDA n1, q :
          Then(h[<<"moreOrs", q>>], LAMBDA ns, e : Ok(<<n1>> \o ns, e)))
    BY <1>1, <2>2 DEF MoreOrs, Peek, Kind
  <2> QED
    BY <2>3, <2>4, <2>5 DEF Then
<1>2. CASE Kind(ts, p) # "OR"
  BY <1>2 DEF MoreOrs, Peek, Kind
<1> QED
  BY <1>1, <1>2

LEMMA LocalProduce ==
  ASSUME NEW g, NEW h, NEW ts, NEW n, Ended(ts, n), NEW p \in 1..n,
         Agree(g, h, n, p + 1), Forwards(g, n, p + 1), NEW a \in Productions
  PROVE  Produce(g, ts, <<a, p>>) = Produce(h, ts, <<a, p>>)
<1>1. /\ Operand(g, ts, p) = Operand(h, ts, p) /\ Unary(g, ts, p) = Unary(h, ts, p)
      /\ MoreArgs(g, ts, p) = MoreArgs(h, ts, p) /\ MoreAnds(g, ts, p) = MoreAnds(h, ts, p)
      /\ MoreOrs(g, ts, p) = MoreOrs(h, ts, p)
  BY LocalOperand, LocalUnary, LocalMoreArgs, LocalMoreAnds, LocalMoreOrs
<1> QED
  BY <1>1 DEF Produce, Productions

-----------------------------------------------------------------------------
(* The parser exists: a table of its results from position k on.           *)
Table(g, ts, n, k) == g = [x \in Productions \X (k..n) |-> Produce(g, ts, x)]

LEMMA TableEntry ==
  ASSUME NEW g, NEW ts, NEW n, NEW k, Table(g, ts, n, k), NEW p \in k..n, NEW a \in Productions
  PROVE  g[<<a, p>>] = Produce(g, ts, <<a, p>>)
BY DEF Table

LEMMA TableForwards ==
  ASSUME NEW g, NEW ts, NEW n, Ended(ts, n), NEW k \in 1..n + 1, Table(g, ts, n, k)
  PROVE  Forwards(g, n, k)
<1>0. n \in Nat
  BY DEF Ended
<1> DEFINE S == {p \in 1..n : p >= k => Forwards(g, n, p)}
<1>1. ASSUME NEW p \in 1..n, \A j \in p + 1..n : j \in S PROVE p \in S
  <2> SUFFICES ASSUME p >= k PROVE Forwards(g, n, p)
    OBVIOUS
  <2>1. Forwards(g, n, p + 1)
    <3>1. CASE p = n
      BY <1>0, <3>1 DEF Forwards
    <3>2. CASE p < n
      BY <1>0, <1>1, <3>2
    <3> QED
      BY <1>0, <3>1, <3>2
  <2>2. \A a \in Productions : g[<<a, p>>] = Produce(g, ts, <<a, p>>)
    BY <1>0, TableEntry
  <2>3. ASSUME NEW q
        PROVE  /\ Gets(g, "operand", p, q) \/ Gets(g, "unary", p, q) => q \in p + 1..n
               /\ Gets(g, "moreArgs", p, q) \/ Gets(g, "moreAnds", p, q) \/ Gets(g, "moreOrs", p, q)
                  => q \in p..n
    BY <2>1, <2>2, ForwardsProduce DEF Gets, Productions
  <2> QED
    BY <1>0, <2>1, <2>3 DEF Forwards
<1>2. \A p \in 1..n : p \in S
  <2> HIDE DEF S
  <2> QED
    BY <1>0, <1>1, Downwards
<1>3. CASE k = n + 1
  BY <1>0, <1>3 DEF Forwards
<1>4. CASE k # n + 1
  BY <1>0, <1>2, <1>4
<1> QED
  BY <1>3, <1>4

LEMMA TableExists ==
  ASSUME NEW ts, NEW n, Ended(ts, n)
  PROVE  \A k \in 1..n : \E g : Table(g, ts, n, k)
<1>0. n \in Nat
  BY DEF Ended
<1> DEFINE S == {k \in 1..n : \E g : Table(g, ts, n, k)}
<1>1. ASSUME NEW k \in 1..n, \A j \in k + 1..n : j \in S PROVE k \in S
  <2>1. \E g : Table(g, ts, n, k + 1)
    <3>1. CASE k = n
      <4>1. Productions \X (k + 1..n) = {}
        BY <1>0, <3>1
      <4>2. Table([x \in {} |-> x], ts, n, k + 1)
        BY <4>1 DEF Table
      <4> QED
        BY <4>2
    <3>2. CASE k < n
      BY <1>0, <1>1, <3>2
    <3> QED
      BY <1>0, <3>1, <3>2
  <2>2. PICK g : Table(g, ts, n, k + 1)
    BY <2>1
  <2>3. Forwards(g, n, k + 1)
    BY <1>0, <2>2, TableForwards
  <2> DEFINE h == [x \in Productions \X (k..n) |-> IF x[2] = k THEN Produce(g, ts, x) ELSE g[x]]
  <2>4. ASSUME NEW a \in Productions, NEW p \in k..n
        PROVE  h[<<a, p>>] = Produce(g, ts, <<a, p>>)
    <3>1. <<a, p>> \in Productions \X (k..n) /\ <<a, p>>[2] = p
      OBVIOUS
    <3>2. CASE p = k
      BY <3>1, <3>2
    <3>3. CASE p # k
      <4>1. p \in k + 1..n
        BY <1>0, <3>3
      <4>2. g[<<a, p>>] = Produce(g, ts, <<a, p>>)
        BY <2>2, <4>1, TableEntry
      <4> QED
        BY <3>1, <3>3, <4>2
    <3> QED
      BY <3>2, <3>3
  <2>5. Agree(g, h, n, k + 1)
    <3>1. ASSUME NEW a \in Productions, NEW q \in k + 1..n PROVE g[<<a, q>>] = h[<<a, q>>]
      BY <1>0
    <3> QED
      BY <3>1 DEF Agree
  <2> HIDE DEF h
  <2>6. ASSUME NEW a \in Productions, NEW p \in k..n
        PROVE  Produce(g, ts, <<a, p>>) = Produce(h, ts, <<a, p>>)
    <3>1. Agree(g, h, n, p + 1)
      <4>1. ASSUME NEW b \in Productions, NEW q \in p + 1..n PROVE g[<<b, q>>] = h[<<b, q>>]
        <5>1. q \in k + 1..n
          BY <1>0
        <5> QED
          BY <2>5, <5>1 DEF Agree
      <4> QED
        BY <4>1 DEF Agree
    <3>2. Forwards(g, n, p + 1)
      BY <1>0, <2>3 DEF Forwards
    <3> QED
      BY <1>0, <3>1, <3>2, LocalProduce
  <2>7. \A x \in Productions \X (k..n) : h[x] = Produce(h, ts, x)
    <3> TAKE x \in Productions \X (k..n)
    <3>1. PICK a \in Productions, p \in k..n : x = <<a, p>>
      OBVIOUS
    <3> QED
      BY <2>4, <2>6, <3>1
  <2>8. h = [x \in Productions \X (k..n) |-> h[x]]
    BY DEF h
  <2>9. [x \in Productions \X (k..n) |-> h[x]] = [x \in Productions \X (k..n) |-> Produce(h, ts, x)]
    BY <2>7
  <2> QED
    BY <2>8, <2>9 DEF Table
<1>2. \A k \in 1..n : k \in S
  <2> HIDE DEF S
  <2> QED
    BY <1>0, <1>1, Downwards
<1> QED
  BY <1>2

LEMMA ParserTable ==
  ASSUME NEW ts, NEW n, Ended(ts, n)
  PROVE  Table(Parser(ts), ts, n, 1)
<1>1. PICK g : Table(g, ts, n, 1)
  <2>1. 1 \in 1..n
    BY DEF Ended
  <2>2. \A k \in 1..n : \E g : Table(g, ts, n, k)
    BY TableExists
  <2> QED
    BY <2>1, <2>2
<1>2. DOMAIN ts = 1..n
  BY DEF Ended
<1>3. g = [x \in Productions \X DOMAIN ts |-> Produce(g, ts, x)]
  BY <1>1, <1>2 DEF Table
<1>4. Parser(ts) = CHOOSE parse : parse = [x \in Productions \X DOMAIN ts |-> Produce(parse, ts, x)]
  BY DEF Parser
<1>5. Parser(ts) = [x \in Productions \X DOMAIN ts |-> Produce(Parser(ts), ts, x)]
  BY <1>3, <1>4
<1> QED
  BY <1>2, <1>5 DEF Table

-----------------------------------------------------------------------------

-----------------------------------------------------------------------------
(* The nodes of conditions, and the lists of them.                         *)
LiteralAt(ts, p)    == Literal(ts[p].v)
NameAt(ts, p)       == Named(ts[p].v)
LengthOf(n)         == [kind |-> "length", arg |-> n]
TruthAt(ts, p)      == [op |-> "lit", value |-> LowerCase(ts[p].v) = "true"]
CallAt(ts, p, l)    == [op |-> "func", name |-> LowerCase(ts[p].v), args |-> l]
InOf(f, l)          == [op |-> "in", field |-> f, values |-> l]
CompareAt(ts, p, l, r) == [op |-> "cmp", cmp |-> ts[p].v, left |-> l, right |-> r]
NotOf(n)            == [op |-> "not", node |-> n]
PairOf(op, l, r)    == [op |-> op, left |-> l, right |-> r]

IsSeq(l) == \E X : l \in Seq(X)

LEMMA EmptyList == IsSeq(<<>>) /\ \A l : IsSeq(l) => l \o <<>> = l /\ <<>> \o l = l
BY DEF IsSeq

LEMMA LongerList ==
  ASSUME NEW l, NEW n, IsSeq(l)
  PROVE  IsSeq(Append(l, n)) /\ IsSeq(Cons(n, l)) /\ Append(l, n) = l \o <<n>>
<1>1. PICK X : l \in Seq(X)
  BY DEF IsSeq
<1>2. l \in Seq(X \cup {n}) /\ n \in X \cup {n}
  BY <1>1
<1>3. Append(l, n) \in Seq(X \cup {n}) /\ Cons(n, l) \in Seq(X \cup {n}) /\ Append(l, n) = l \o <<n>>
  BY <1>2 DEF Cons
<1> QED
  BY <1>3 DEF IsSeq

LEMMA JoinedLists ==
  ASSUME NEW l, NEW n, NEW r, IsSeq(l), IsSeq(r)
  PROVE  IsSeq(l \o r) /\ Append(l, n) \o r = l \o Cons(n, r)
<1>1. PICK X, Y : l \in Seq(X) /\ r \in Seq(Y)
  BY DEF IsSeq
<1> DEFINE Z == X \cup Y \cup {n}
<1>2. l \in Seq(Z) /\ r \in Seq(Z) /\ n \in Z
  BY <1>1
<1> HIDE DEF Z
<1>3. l \o r \in Seq(Z)
  BY <1>2
<1>4. <<n>> \in Seq(Z) /\ Append(l, n) = l \o <<n>>
  BY <1>2
<1>5. (l \o <<n>>) \o r = l \o Cons(n, r)
  BY <1>2, <1>4, ConcatAssociative DEF Cons
<1> QED
  BY <1>3, <1>4, <1>5 DEF IsSeq

LEMMA ConsAppend ==
  ASSUME NEW x, NEW l, NEW n, IsSeq(l)
  PROVE  Append(Cons(x, l), n) = Cons(x, Append(l, n))
<1>1. PICK X : l \in Seq(X)
  BY DEF IsSeq
<1> DEFINE Z == X \cup {x, n}
<1>2. l \in Seq(Z) /\ x \in Z /\ n \in Z
  BY <1>1
<1> HIDE DEF Z
<1>3. /\ <<x>> \in Seq(Z) /\ <<n>> \in Seq(Z) /\ Append(l, n) = l \o <<n>>
      /\ Append(<<x>> \o l, n) = (<<x>> \o l) \o <<n>>
  BY <1>2
<1>4. (<<x>> \o l) \o <<n>> = <<x>> \o (l \o <<n>>)
  BY <1>2, <1>3, ConcatAssociative
<1> QED
  BY <1>3, <1>4 DEF Cons

(* A chain, by the table of its beginnings.                                *)
ChainTo(node, op, x, ms, n) ==
  node = [k \in 0..n |-> IF k = 0 THEN x ELSE PairOf(op, node[k - 1], ms[k])]

LEMMA ChainExists ==
  ASSUME NEW op, NEW x, NEW ms
  PROVE  \A n \in Nat : \E node : ChainTo(node, op, x, ms, n)
<1> DEFINE S == {n \in Nat : \E node : ChainTo(node, op, x, ms, n)}
<1>1. ASSUME NEW n \in Nat, \A j \in 0..n - 1 : j \in S PROVE n \in S
  <2>1. CASE n = 0
    <3> DEFINE h == [k \in 0..n |-> x]
    <3>1. h = [k \in 0..n |-> IF k = 0 THEN x ELSE PairOf(op, h[k - 1], ms[k])]
      BY <2>1
    <3> HIDE DEF h
    <3>2. ChainTo(h, op, x, ms, n)
      BY <3>1 DEF ChainTo
    <3> QED
      BY <3>2
  <2>2. CASE n # 0
    <3>1. n - 1 \in Nat /\ n - 1 \in S
      BY <1>1, <2>2
    <3>2. PICK node : ChainTo(node, op, x, ms, n - 1)
      BY <3>1
    <3>3. \A k \in 0..n - 1 : node[k] = IF k = 0 THEN x ELSE PairOf(op, node[k - 1], ms[k])
      BY <3>2 DEF ChainTo
    <3> DEFINE h == [k \in 0..n |-> IF k = n THEN PairOf(op, node[n - 1], ms[n]) ELSE node[k]]
    <3>4. ASSUME NEW k \in 0..n
          PROVE  h[k] = IF k = 0 THEN x ELSE PairOf(op, h[k - 1], ms[k])
      <4>1. CASE k = n
        <5>1. h[k] = PairOf(op, node[n - 1], ms[n]) /\ n - 1 \in 0..n /\ n - 1 # n
          BY <2>2, <4>1
        <5>2. h[n - 1] = node[n - 1]
          BY <5>1
        <5> QED
          BY <2>2, <4>1, <5>1, <5>2
      <4>2. CASE k # n
        <5>1. k \in 0..n - 1 /\ h[k] = node[k]
          BY <4>2
        <5>2. CASE k = 0
          BY <3>3, <5>1, <5>2
        <5>3. CASE k # 0
          <6>1. k - 1 \in 0..n /\ k - 1 # n
            BY <5>3
          <6>2. h[k - 1] = node[k - 1]
            BY <6>1
          <6> QED
            BY <3>3, <5>1, <5>3, <6>2
        <5> QED
          BY <5>2, <5>3
      <4> QED
        BY <4>1, <4>2
    <3>5. h = [k \in 0..n |-> h[k]]
      OBVIOUS
    <3> HIDE DEF h
    <3>6. ChainTo(h, op, x, ms, n)
      BY <3>4, <3>5 DEF ChainTo
    <3> QED
      BY <3>6
  <2> QED
    BY <2>1, <2>2
<1>2. \A n \in Nat : n \in S
  <2> HIDE DEF S
  <2> QED
    BY <1>1, Upwards
<1> QED
  BY <1>2

LEMMA ChainByTable ==
  ASSUME NEW op, NEW x, NEW ms, Len(ms) \in Nat
  PROVE  \E node : ChainTo(node, op, x, ms, Len(ms)) /\ Chain(op, x, ms) = node[Len(ms)]
<1> DEFINE node == CHOOSE node : ChainTo(node, op, x, ms, Len(ms))
<1>1. ChainTo(node, op, x, ms, Len(ms))
  BY ChainExists
<1>2. Chain(op, x, ms) = node[Len(ms)]
  BY DEF Chain, ChainTo, PairOf
<1> QED
  BY <1>1, <1>2

LEMMA ChainSame ==
  ASSUME NEW op, NEW x, NEW ms, NEW ns, NEW m \in Nat, NEW n \in Nat, n <= m,
         \A k \in 1..n : ns[k] = ms[k],
         NEW f, NEW h, ChainTo(f, op, x, ns, n), ChainTo(h, op, x, ms, m)
  PROVE  f[n] = h[n]
<1>1. \A k \in 0..n : f[k] = IF k = 0 THEN x ELSE PairOf(op, f[k - 1], ns[k])
  BY DEF ChainTo
<1>2. \A k \in 0..m : h[k] = IF k = 0 THEN x ELSE PairOf(op, h[k - 1], ms[k])
  BY DEF ChainTo
<1> DEFINE S == {k \in Nat : k <= n => f[k] = h[k]}
<1>3. ASSUME NEW k \in Nat, \A j \in 0..k - 1 : j \in S PROVE k \in S
  <2> SUFFICES ASSUME k <= n PROVE f[k] = h[k]
    OBVIOUS
  <2>0. k \in 0..n /\ k \in 0..m
    OBVIOUS
  <2>1. CASE k = 0
    BY <1>1, <1>2, <2>0, <2>1
  <2>2. CASE k # 0
    <3>1. k - 1 \in 0..k - 1 /\ k - 1 <= n /\ k \in 1..n
      BY <2>2
    <3>2. f[k - 1] = h[k - 1]
      BY <1>3, <3>1
    <3> QED
      BY <1>1, <1>2, <2>0, <2>2, <3>1, <3>2
  <2> QED
    BY <2>1, <2>2
<1>4. \A k \in Nat : k \in S
  <2> HIDE DEF S
  <2> QED
    BY <1>3, Upwards
<1> QED
  BY <1>4

LEMMA ChainGrows ==
  ASSUME NEW op, NEW x, NEW ms, IsSeq(ms), NEW n
  PROVE  /\ Chain(op, x, <<>>) = x
         /\ Chain(op, x, Append(ms, n)) = PairOf(op, Chain(op, x, ms), n)
<1>1. PICK X : ms \in Seq(X)
  BY DEF IsSeq
<1> DEFINE ns == Append(ms, n)
           m  == Len(ms)
<1>2. /\ m \in Nat /\ Len(ns) = m + 1 /\ ns[m + 1] = n
      /\ \A k \in 1..m : ms[k] = ns[k]
  BY <1>1
<1>3. Chain(op, x, <<>>) = x
  <2>1. Len(<<>>) = 0
    OBVIOUS
  <2>2. PICK f : ChainTo(f, op, x, <<>>, 0) /\ Chain(op, x, <<>>) = f[0]
    BY <2>1, ChainByTable
  <2> QED
    BY <2>2 DEF ChainTo
<1> HIDE DEF ns, m
<1>4. PICK f : ChainTo(f, op, x, ms, m) /\ Chain(op, x, ms) = f[m]
  BY <1>2, ChainByTable DEF m
<1>5. PICK h : ChainTo(h, op, x, ns, m + 1) /\ Chain(op, x, ns) = h[m + 1]
  BY <1>2, ChainByTable
<1>6. f[m] = h[m]
  BY <1>2, <1>4, <1>5, ChainSame
<1>7. h[m + 1] = PairOf(op, h[m + 1 - 1], ns[m + 1])
  BY <1>2, <1>5 DEF ChainTo
<1>8. m + 1 - 1 = m
  BY <1>2
<1>9. Chain(op, x, ns) = PairOf(op, Chain(op, x, ms), n)
  BY <1>2, <1>4, <1>5, <1>6, <1>7, <1>8
<1> QED
  BY <1>3, <1>9 DEF ns

-----------------------------------------------------------------------------
(* The parser with its nodes: a result gives a node and ends at a position. *)
Gives(r, q, n) == r.ok /\ r.pos = q /\ r.node = n

(* The entry of a table of results for a production at p.                  *)
Has(g, a, p, q, n) == Gives(g[<<a, p>>], q, n)

LEMMA GivesReach ==
  ASSUME NEW r, NEW q
  PROVE  /\ \A n : Gives(r, q, n) => Reach(r, q)
         /\ Reach(r, q) => Gives(r, q, r.node)
         /\ \A n, m : Gives(r, q, n) /\ Gives(r, q, m) => n = m
BY DEF Gives, Reach

LEMMA HasGets ==
  ASSUME NEW g, NEW a, NEW p, NEW q, NEW n, Has(g, a, p, q, n)
  PROVE  Gets(g, a, p, q)
BY DEF Has, Gets, Gives, Reach

LEMMA GivesOperand ==
  ASSUME NEW g, NEW ts, NEW p \in Int, NEW q, NEW n
  PROVE  Gives(Operand(g, ts, p), q, n) <=>
           \/ /\ LengthCall(ts, p)
              /\ \E a, m : /\ Has(g, "operand", p + 2, a, m) /\ Kind(ts, a) = ")" /\ q = a + 1
                           /\ n = LengthOf(m)
           \/ /\ ~ LengthCall(ts, p) /\ q = p + 1
              /\ \/ Kind(ts, p) \in {"STRING", "NUMBER"} /\ n = LiteralAt(ts, p)
                 \/ Kind(ts, p) = "IDENT" /\ n = NameAt(ts, p)
BY DEF LengthCall, Gives, Operand, Then, Expect, Peek, Ok, Throw, Has, Kind, LengthOf, LiteralAt, NameAt

LEMMA GivesMoreArgs ==
  ASSUME NEW g, NEW ts, NEW p \in Int, NEW q, NEW l
  PROVE  Gives(MoreArgs(g, ts, p), q, l) <=>
           \/ Kind(ts, p) # Comma /\ q = p /\ l = <<>>
           \/ /\ Kind(ts, p) = Comma
              /\ \E a, n, ns : /\ Has(g, "operand", p + 1, a, n) /\ Has(g, "moreArgs", a, q, ns)
                               /\ l = Cons(n, ns)
BY DEF Gives, MoreArgs, Then, Peek, Ok, Throw, Comma, Has, Kind, Cons

LEMMA GivesArguments ==
  ASSUME NEW g, NEW ts, NEW p \in Int, NEW q, NEW l
  PROVE  Gives(Arguments(g, ts, p), q, l) <=>
           /\ Kind(ts, p) = "("
           /\ \/ Kind(ts, p + 1) = ")" /\ q = p + 1 + 1 /\ l = <<>>
              \/ /\ Kind(ts, p + 1) # ")"
                 /\ \E a, b, n, ns :
                      /\ Has(g, "operand", p + 1, a, n) /\ Has(g, "moreArgs", a, b, ns)
                      /\ Kind(ts, b) = ")" /\ q = b + 1 /\ l = Cons(n, ns)
BY ZenonT(60) DEF Gives, Arguments, ArgList, Then, Expect, Peek, Ok, Throw, Has, Kind, Cons

LEMMA GivesComparison ==
  ASSUME NEW g, NEW ts, NEW p \in Int, NEW q, NEW n
  PROVE  Gives(Comparison(g, ts, p), q, n) <=>
           \E a, f :
             /\ Gives(Operand(g, ts, p), a, f)
             /\ \/ \E l : Kind(ts, a) = "IN" /\ Gives(Arguments(g, ts, a + 1), q, l) /\ n = InOf(f, l)
                \/ \E r : /\ Kind(ts, a) = "CMP" /\ Gives(Operand(g, ts, a + 1), q, r)
                          /\ n = CompareAt(ts, a, f, r)
BY DEF Gives, Comparison, Then, Expect, Peek, Ok, Throw, Has, Kind, InOf, CompareAt

LEMMA GivesPredicate ==
  ASSUME NEW g, NEW ts, NEW p \in Int, NEW q, NEW n
  PROVE  Gives(Predicate(g, ts, p), q, n) <=>
           IF BoolCall(ts, p) THEN \E l : Gives(Arguments(g, ts, p + 1), q, l) /\ n = CallAt(ts, p, l)
           ELSE IF Truth(ts, p) THEN q = p + 1 /\ n = TruthAt(ts, p)
           ELSE Gives(Comparison(g, ts, p), q, n)
BY DEF BoolCall, Truth, Gives, Predicate, FunctionPredicate, Then, Ok, Throw, Has, Kind, CallAt, TruthAt

LEMMA GivesUnary ==
  ASSUME NEW g, NEW ts, NEW p \in Int, NEW q, NEW n
  PROVE  Gives(Unary(g, ts, p), q, n) <=>
           IF Kind(ts, p) = "NOT" THEN \E m : Has(g, "unary", p + 1, q, m) /\ n = NotOf(m)
           ELSE IF Kind(ts, p) = "("
           THEN \E a : Gives(OrExpr(g, ts, p + 1), a, n) /\ Kind(ts, a) = ")" /\ q = a + 1
           ELSE Gives(Predicate(g, ts, p), q, n)
BY DEF Gives, Unary, Then, Expect, Peek, Ok, Throw, Has, Kind, NotOf

LEMMA GivesMoreAnds ==
  ASSUME NEW g, NEW ts, NEW p \in Int, NEW q, NEW l
  PROVE  Gives(MoreAnds(g, ts, p), q, l) <=>
           \/ Kind(ts, p) # "AND" /\ q = p /\ l = <<>>
           \/ /\ Kind(ts, p) = "AND"
              /\ \E a, n, ns : /\ Has(g, "unary", p + 1, a, n) /\ Has(g, "moreAnds", a, q, ns)
                               /\ l = Cons(n, ns)
BY DEF Gives, MoreAnds, Then, Peek, Ok, Throw, Has, Kind, Cons

LEMMA GivesAnd ==
  ASSUME NEW g, NEW ts, NEW p \in Int, NEW q, NEW n
  PROVE  Gives(AndExpr(g, ts, p), q, n) <=>
           \E a, x, ms : /\ Has(g, "unary", p, a, x) /\ Has(g, "moreAnds", a, q, ms)
                         /\ n = Chain("and", x, ms)
BY DEF Gives, AndExpr, Then, Ok, Throw, Has, Kind

LEMMA GivesMoreOrs ==
  ASSUME NEW g, NEW ts, NEW p \in Int, NEW q, NEW l
  PROVE  Gives(MoreOrs(g, ts, p), q, l) <=>
           \/ Kind(ts, p) # "OR" /\ q = p /\ l = <<>>
           \/ /\ Kind(ts, p) = "OR"
              /\ \E a, n, ns : /\ Gives(AndExpr(g, ts, p + 1), a, n) /\ Has(g, "moreOrs", a, q, ns)
                               /\ l = Cons(n, ns)
BY DEF Gives, MoreOrs, Then, Peek, Ok, Throw, Has, Kind, Cons

LEMMA GivesOr ==
  ASSUME NEW g, NEW ts, NEW p \in Int, NEW q, NEW n
  PROVE  Gives(OrExpr(g, ts, p), q, n) <=>
           \E a, x, ms : /\ Gives(AndExpr(g, ts, p), a, x) /\ Has(g, "moreOrs", a, q, ms)
                         /\ n = Chain("or", x, ms)
BY DEF Gives, OrExpr, Then, Ok, Throw, Has, Kind

LEMMA GivesParse ==
  ASSUME NEW ts, Kind(ts, 1) = "IDENT", Kind(ts, 2) = "WHERE"
  PROVE  /\ Parse(ts).ok <=> \E a, n : Gives(OrExpr(Parser(ts), ts, 3), a, n) /\ Kind(ts, a) = "EOF"
         /\ \A a, n : Gives(OrExpr(Parser(ts), ts, 3), a, n) /\ Kind(ts, a) = "EOF" =>
              Parse(ts).node.condition = n
BY DEF Gives, Parse, Then, Expect, Peek, Ok, Throw, Has, Kind

(* The parser, by its table.                                               *)
Parses(g, ts, n) ==
  \A p \in 1..n : \A q, x :
    /\ Has(g, "operand", p, q, x) <=> Gives(Operand(g, ts, p), q, x)
    /\ Has(g, "moreArgs", p, q, x) <=> Gives(MoreArgs(g, ts, p), q, x)
    /\ Has(g, "unary", p, q, x) <=> Gives(Unary(g, ts, p), q, x)
    /\ Has(g, "moreAnds", p, q, x) <=> Gives(MoreAnds(g, ts, p), q, x)
    /\ Has(g, "moreOrs", p, q, x) <=> Gives(MoreOrs(g, ts, p), q, x)

LEMMA ParserParses ==
  ASSUME NEW ts, NEW n, Ended(ts, n)
  PROVE  Parses(Parser(ts), ts, n) /\ Forwards(Parser(ts), n, 1)
<1>0. n \in Nat /\ 1 \in 1..n + 1 /\ Table(Parser(ts), ts, n, 1)
  BY ParserTable DEF Ended
<1> DEFINE g == Parser(ts)
<1> HIDE DEF g
<1>1. ASSUME NEW p \in 1..n PROVE \A a \in Productions : g[<<a, p>>] = Produce(g, ts, <<a, p>>)
  BY <1>0, TableEntry DEF g
<1>2. ASSUME NEW p \in 1..n
      PROVE  /\ Produce(g, ts, <<"operand", p>>) = Operand(g, ts, p)
             /\ Produce(g, ts, <<"unary", p>>) = Unary(g, ts, p)
             /\ Produce(g, ts, <<"moreArgs", p>>) = MoreArgs(g, ts, p)
             /\ Produce(g, ts, <<"moreAnds", p>>) = MoreAnds(g, ts, p)
             /\ Produce(g, ts, <<"moreOrs", p>>) = MoreOrs(g, ts, p)
  BY DEF Produce
<1>3. ASSUME NEW p \in 1..n
      PROVE  /\ g[<<"operand", p>>] = Operand(g, ts, p)
             /\ g[<<"unary", p>>] = Unary(g, ts, p)
             /\ g[<<"moreArgs", p>>] = MoreArgs(g, ts, p)
             /\ g[<<"moreAnds", p>>] = MoreAnds(g, ts, p)
             /\ g[<<"moreOrs", p>>] = MoreOrs(g, ts, p)
  BY <1>1, <1>2 DEF Productions
<1>4. Parses(g, ts, n)
  BY <1>3 DEF Parses, Has
<1> QED
  BY <1>0, <1>4, TableForwards DEF g

-----------------------------------------------------------------------------
(* The grammar, as a table of the spans of its symbols: the trees of a     *)
(* span depend on shorter spans only, so the table exists.                 *)
Span(d, a, i, j) == d[<<a, i, j>>]

LEMMA Extensional ==
  ASSUME NEW A, NEW B, \A x : x \in A <=> x \in B
  PROVE  A = B
OBVIOUS

LEMMA SpanOperand ==
  ASSUME NEW d, NEW s, NEW i \in Int, NEW j \in Int, NEW n
  PROVE  n \in Operands(d, s, i, j) <=>
           \/ /\ j = i + 1
              /\ \/ Kind(s, i) \in {"STRING", "NUMBER"} /\ n = LiteralAt(s, i)
                 \/ Kind(s, i) = "IDENT" /\ n = NameAt(s, i)
           \/ /\ LengthCall(s, i) /\ i + 2 < j /\ Kind(s, j - 1) = ")"
              /\ \E m \in Span(d, "operand", i + 2, j - 1) : n = LengthOf(m)
BY DEF Operands, When, Bracketed, LengthCall, PeekCall, PeekWord, Peek, Kind, Span, LiteralAt, NameAt, LengthOf

LEMMA SpanList ==
  ASSUME NEW d, NEW s, NEW i \in Int, NEW j \in Int, NEW l
  PROVE  l \in Lists(d, s, i, j) <=>
           \/ \E n \in Operands(d, s, i, j) : l = <<n>>
           \/ \E k \in i..j - 1 : Kind(s, k) = Comma /\
                \E m \in Span(d, "list", i, k), n \in Span(d, "operand", k + 1, j) : l = Append(m, n)
<1>1. ASSUME NEW k PROVE l \in Extended(Span(d, "list", i, k), Span(d, "operand", k + 1, j)) <=>
        \E m \in Span(d, "list", i, k), n \in Span(d, "operand", k + 1, j) : l = Append(m, n)
  BY DEF Extended
<1> QED
  BY <1>1, Zenon DEF Lists, Comma, Kind, Span

LEMMA SpanInBrackets ==
  ASSUME NEW d, NEW s, NEW i \in Int, NEW j \in Int, NEW l
  PROVE  l \in InBrackets(d, s, i, j) <=>
           /\ i + 1 < j /\ Kind(s, i) = "(" /\ Kind(s, j - 1) = ")"
           /\ IF i + 1 = j - 1 THEN l = <<>> ELSE l \in Span(d, "list", i + 1, j - 1)
BY DEF InBrackets, When, Bracketed, Kind, Span

LEMMA SpanTruth ==
  ASSUME NEW s, NEW i \in Int, NEW j \in Int
  PROVE  IsTruth(s, i, j) <=> (j = i + 1 /\ Truth(s, i))
BY DEF IsTruth, Truth

LEMMA SpanTruths ==
  ASSUME NEW s, NEW i \in Int, NEW j \in Int, NEW n
  PROVE  n \in Truths(s, i, j) <=> (j = i + 1 /\ Truth(s, i) /\ n = TruthAt(s, i))
BY SpanTruth DEF Truths, When, TruthAt

LEMMA SpanCall ==
  ASSUME NEW d, NEW s, NEW i \in Int, NEW j \in Int, NEW n
  PROVE  n \in Calls(d, s, i, j) <=>
           BoolCall(s, i) /\ i < j /\ \E l \in InBrackets(d, s, i + 1, j) : n = CallAt(s, i, l)
<1>1. ASSUME NEW l, l \in InBrackets(d, s, i + 1, j) PROVE Kind(s, i + 1) = "("
  BY <1>1, SpanInBrackets
<1> QED
  BY <1>1 DEF Calls, When, CallAt, BoolCall, PeekCall, Peek, Kind

LEMMA SpanMember ==
  ASSUME NEW d, NEW s, NEW i \in Int, NEW j \in Int, NEW n
  PROVE  n \in Members(d, s, i, j) <=>
           \E k \in i + 1..j - 1 :
             /\ ~ Truth(s, i) /\ Kind(s, k) = "IN"
             /\ \E f \in Operands(d, s, i, k), l \in InBrackets(d, s, k + 1, j) : n = InOf(f, l)
<1>1. ASSUME NEW k \in i + 1..j - 1, NEW f \in Operands(d, s, i, k) PROVE IsTruth(s, i, k) <=> Truth(s, i)
  BY <1>1, SpanOperand, SpanTruth, Peeked
<1> QED
  BY <1>1 DEF Members, Kind, InOf

LEMMA SpanCompare ==
  ASSUME NEW d, NEW s, NEW i \in Int, NEW j \in Int, NEW n
  PROVE  n \in Compares(d, s, i, j) <=>
           \E k \in i + 1..j - 1 :
             /\ ~ Truth(s, i) /\ Kind(s, k) = "CMP"
             /\ \E l \in Operands(d, s, i, k), r \in Operands(d, s, k + 1, j) : n = CompareAt(s, k, l, r)
<1>1. ASSUME NEW k \in i + 1..j - 1, NEW f \in Operands(d, s, i, k) PROVE IsTruth(s, i, k) <=> Truth(s, i)
  BY <1>1, SpanOperand, SpanTruth, Peeked
<1> QED
  BY <1>1 DEF Compares, Kind, CompareAt

LEMMA SpanUnary ==
  ASSUME NEW d, NEW s, NEW i \in Int, NEW j \in Int, NEW n
  PROVE  n \in Unaries(d, s, i, j) <=>
           \/ i < j /\ Kind(s, i) = "NOT" /\ \E m \in Span(d, "unary", i + 1, j) : n = NotOf(m)
           \/ /\ i + 1 < j /\ Kind(s, i) = "(" /\ Kind(s, j - 1) = ")"
              /\ n \in Span(d, "or", i + 1, j - 1)
           \/ n \in Truths(s, i, j) \/ n \in Calls(d, s, i, j)
           \/ n \in Members(d, s, i, j) \/ n \in Compares(d, s, i, j)
BY DEF Unaries, When, Bracketed, Kind, Span, NotOf

LEMMA SpanAnd ==
  ASSUME NEW d, NEW s, NEW i \in Int, NEW j \in Int, NEW n
  PROVE  n \in Ands(d, s, i, j) <=>
           \/ n \in Unaries(d, s, i, j)
           \/ \E k \in i..j - 1 : Kind(s, k) = "AND" /\
                \E l \in Span(d, "and", i, k), r \in Span(d, "unary", k + 1, j) : n = PairOf("and", l, r)
<1>1. ASSUME NEW k PROVE n \in Pairs("and", Span(d, "and", i, k), Span(d, "unary", k + 1, j)) <=>
        \E l \in Span(d, "and", i, k), r \in Span(d, "unary", k + 1, j) : n = PairOf("and", l, r)
  BY DEF Pairs, PairOf
<1> QED
  BY <1>1, Zenon DEF Ands, Joined, Kind, Span

LEMMA SpanOr ==
  ASSUME NEW d, NEW s, NEW i \in Int, NEW j \in Int, NEW n
  PROVE  n \in Ors(d, s, i, j) <=>
           \/ n \in Ands(d, s, i, j)
           \/ \E k \in i..j - 1 : Kind(s, k) = "OR" /\
                \E l \in Span(d, "or", i, k), r \in Span(d, "and", k + 1, j) : n = PairOf("or", l, r)
<1>1. ASSUME NEW k PROVE n \in Pairs("or", Span(d, "or", i, k), Span(d, "and", k + 1, j)) <=>
        \E l \in Span(d, "or", i, k), r \in Span(d, "and", k + 1, j) : n = PairOf("or", l, r)
  BY DEF Pairs, PairOf
<1> QED
  BY <1>1, Zenon DEF Ors, Joined, Kind, Span

(* Two tables are alike on spans shorter than k - n.                       *)
SameSpans(d, e, n, k) ==
  \A a \in Symbols : \A i, j \in 1..n + 1 : j + n < i + k => Span(d, a, i, j) = Span(e, a, i, j)

LEMMA SameLeaves ==
  ASSUME NEW d, NEW e, NEW s, NEW n \in Nat, NEW k \in Nat, SameSpans(d, e, n, k),
         NEW i \in 1..n + 1, NEW j \in 1..n + 1, j + n <= i + k
  PROVE  /\ Operands(d, s, i, j) = Operands(e, s, i, j)
         /\ InBrackets(d, s, i, j) = InBrackets(e, s, i, j)
<1>1. ASSUME i + 2 < j PROVE Span(d, "operand", i + 2, j - 1) = Span(e, "operand", i + 2, j - 1)
  BY <1>1 DEF SameSpans, Symbols
<1>2. ASSUME i + 1 < j PROVE Span(d, "list", i + 1, j - 1) = Span(e, "list", i + 1, j - 1)
  BY <1>2 DEF SameSpans, Symbols
<1>3. ASSUME NEW x PROVE x \in Operands(d, s, i, j) <=> x \in Operands(e, s, i, j)
  BY <1>1, SpanOperand
<1>4. ASSUME NEW x PROVE x \in InBrackets(d, s, i, j) <=> x \in InBrackets(e, s, i, j)
  BY <1>2, SpanInBrackets
<1> QED
  BY <1>3, <1>4, Extensional

LEMMA SameSplits ==
  ASSUME NEW d, NEW e, NEW n \in Nat, NEW k \in Nat, SameSpans(d, e, n, k),
         NEW i \in 1..n + 1, NEW j \in 1..n + 1, j + n <= i + k, NEW m \in i..j - 1
  PROVE  \A a \in Symbols : Span(d, a, i, m) = Span(e, a, i, m) /\ Span(d, a, m + 1, j) = Span(e, a, m + 1, j)
<1>1. m \in 1..n + 1 /\ m + 1 \in 1..n + 1 /\ m + n < i + k /\ j + n < m + 1 + k
  OBVIOUS
<1> QED
  BY <1>1 DEF SameSpans

LEMMA SameUnary ==
  ASSUME NEW d, NEW e, NEW s, NEW n \in Nat, NEW k \in Nat, SameSpans(d, e, n, k),
         NEW i \in 1..n + 1, NEW j \in 1..n + 1, j + n <= i + k
  PROVE  Unaries(d, s, i, j) = Unaries(e, s, i, j)
<1>1. ASSUME i < j PROVE Span(d, "unary", i + 1, j) = Span(e, "unary", i + 1, j)
  BY <1>1 DEF SameSpans, Symbols
<1>2. ASSUME i + 1 < j PROVE Span(d, "or", i + 1, j - 1) = Span(e, "or", i + 1, j - 1)
  BY <1>2 DEF SameSpans, Symbols
<1>3. ASSUME NEW m \in i + 1..j - 1
      PROVE  /\ Operands(d, s, i, m) = Operands(e, s, i, m)
             /\ Operands(d, s, m + 1, j) = Operands(e, s, m + 1, j)
             /\ InBrackets(d, s, m + 1, j) = InBrackets(e, s, m + 1, j)
  <2>1. m \in 1..n + 1 /\ m + 1 \in 1..n + 1 /\ m + n <= i + k /\ j + n <= m + 1 + k
    OBVIOUS
  <2> QED
    BY <2>1, SameLeaves
<1>4. ASSUME NEW x PROVE x \in Members(d, s, i, j) <=> x \in Members(e, s, i, j)
  BY <1>3, SpanMember
<1>5. ASSUME NEW x PROVE x \in Compares(d, s, i, j) <=> x \in Compares(e, s, i, j)
  BY <1>3, SpanCompare
<1>6. ASSUME NEW x PROVE x \in Calls(d, s, i, j) <=> x \in Calls(e, s, i, j)
  <2>1. CASE i < j
    <3>1. i + 1 \in 1..n + 1 /\ j + n <= i + 1 + k
      BY <2>1
    <3>2. InBrackets(d, s, i + 1, j) = InBrackets(e, s, i + 1, j)
      BY <3>1, SameLeaves
    <3> QED
      BY <3>2, SpanCall
  <2>2. CASE ~ (i < j)
    BY <2>2, SpanCall
  <2> QED
    BY <2>1, <2>2
<1>7. ASSUME NEW x PROVE x \in Unaries(d, s, i, j) <=> x \in Unaries(e, s, i, j)
  BY <1>1, <1>2, <1>4, <1>5, <1>6, SpanUnary
<1> QED
  BY <1>7, Extensional

LEMMA SameDerive ==
  ASSUME NEW d, NEW e, NEW s, NEW n \in Nat, NEW k \in Nat, SameSpans(d, e, n, k),
         NEW i \in 1..n + 1, NEW j \in 1..n + 1, j + n <= i + k, NEW a \in Symbols
  PROVE  Derive(d, s, <<a, i, j>>) = Derive(e, s, <<a, i, j>>)
<1>1. Operands(d, s, i, j) = Operands(e, s, i, j)
  BY SameLeaves
<1>2. Unaries(d, s, i, j) = Unaries(e, s, i, j)
  BY SameUnary
<1>3. Lists(d, s, i, j) = Lists(e, s, i, j)
  <2>1. ASSUME NEW m \in i..j - 1
        PROVE  /\ Span(d, "list", i, m) = Span(e, "list", i, m)
               /\ Span(d, "operand", m + 1, j) = Span(e, "operand", m + 1, j)
    <3>1. \A c \in Symbols : Span(d, c, i, m) = Span(e, c, i, m) /\ Span(d, c, m + 1, j) = Span(e, c, m + 1, j)
      BY <2>1, SameSplits
    <3> QED
      BY <3>1 DEF Symbols
  <2>2. ASSUME NEW x PROVE x \in Lists(d, s, i, j) <=> x \in Lists(e, s, i, j)
    BY <1>1, <2>1, SpanList
  <2> QED
    BY <2>2, Extensional
<1>4. Ands(d, s, i, j) = Ands(e, s, i, j)
  <2>1. ASSUME NEW m \in i..j - 1
        PROVE  /\ Span(d, "and", i, m) = Span(e, "and", i, m)
               /\ Span(d, "unary", m + 1, j) = Span(e, "unary", m + 1, j)
    <3>1. \A c \in Symbols : Span(d, c, i, m) = Span(e, c, i, m) /\ Span(d, c, m + 1, j) = Span(e, c, m + 1, j)
      BY <2>1, SameSplits
    <3> QED
      BY <3>1 DEF Symbols
  <2>2. ASSUME NEW x PROVE x \in Ands(d, s, i, j) <=> x \in Ands(e, s, i, j)
    BY <1>2, <2>1, SpanAnd
  <2> QED
    BY <2>2, Extensional
<1>5. Ors(d, s, i, j) = Ors(e, s, i, j)
  <2>1. ASSUME NEW m \in i..j - 1
        PROVE  /\ Span(d, "or", i, m) = Span(e, "or", i, m)
               /\ Span(d, "and", m + 1, j) = Span(e, "and", m + 1, j)
    <3>1. \A c \in Symbols : Span(d, c, i, m) = Span(e, c, i, m) /\ Span(d, c, m + 1, j) = Span(e, c, m + 1, j)
      BY <2>1, SameSplits
    <3> QED
      BY <3>1 DEF Symbols
  <2>2. ASSUME NEW x PROVE x \in Ors(d, s, i, j) <=> x \in Ors(e, s, i, j)
    BY <1>4, <2>1, SpanOr
  <2> QED
    BY <2>2, Extensional
<1>6. <<a, i, j>>[1] = a /\ <<a, i, j>>[2] = i /\ <<a, i, j>>[3] = j
  OBVIOUS
<1> QED
  BY <1>1, <1>2, <1>3, <1>4, <1>5, <1>6 DEF Derive, Symbols

(* The entries of a table that are right, on spans shorter than k - n.     *)
Grounded(d, s, n, k) ==
  \A a \in Symbols : \A i, j \in 1..n + 1 :
    j + n < i + k => Span(d, a, i, j) = Derive(d, s, <<a, i, j>>)

LEMMA GroundedExists ==
  ASSUME NEW s, NEW n \in Nat
  PROVE  \A k \in Nat : \E d : Grounded(d, s, n, k)
<1> DEFINE S == {k \in Nat : \E d : Grounded(d, s, n, k)}
<1>1. ASSUME NEW k \in Nat, \A l \in 0..k - 1 : l \in S PROVE k \in S
  <2>1. CASE k = 0
    <3>1. Grounded({}, s, n, k)
      BY <2>1 DEF Grounded
    <3> QED
      BY <3>1
  <2>2. CASE k # 0
    <3>1. k - 1 \in Nat /\ k - 1 \in S
      BY <1>1, <2>2
    <3>2. PICK d : Grounded(d, s, n, k - 1)
      BY <3>1
    <3> DEFINE h == [x \in Symbols \X (1..n + 1) \X (1..n + 1) |-> Derive(d, s, x)]
    <3>3. ASSUME NEW a \in Symbols, NEW i \in 1..n + 1, NEW j \in 1..n + 1
          PROVE  Span(h, a, i, j) = Derive(d, s, <<a, i, j>>)
      BY DEF Span
    <3> HIDE DEF h
    <3>4. SameSpans(d, h, n, k - 1)
      BY <3>2, <3>3, ZenonT(60) DEF Grounded, SameSpans
    <3>5. ASSUME NEW a \in Symbols, NEW i \in 1..n + 1, NEW j \in 1..n + 1, j + n < i + k
          PROVE  Span(h, a, i, j) = Derive(h, s, <<a, i, j>>)
      <4>1. j + n <= i + (k - 1)
        BY <3>5
      <4>2. Derive(d, s, <<a, i, j>>) = Derive(h, s, <<a, i, j>>)
        BY <3>1, <3>4, <4>1, SameDerive
      <4> QED
        BY <3>3, <4>2
    <3>6. Grounded(h, s, n, k)
      BY <3>5 DEF Grounded
    <3> QED
      BY <3>6
  <2> QED
    BY <2>1, <2>2
<1>2. \A k \in Nat : k \in S
  <2> HIDE DEF S
  <2> QED
    BY <1>1, Upwards
<1> QED
  BY <1>2

LEMMA TreesEntry ==
  ASSUME NEW s, Len(s) \in Nat, NEW a \in Symbols, NEW i \in 1..Len(s) + 1, NEW j \in 1..Len(s) + 1
  PROVE  Span(Trees(s), a, i, j) = Derive(Trees(s), s, <<a, i, j>>)
<1> DEFINE n == Len(s)
           T == Symbols \X (1..n + 1) \X (1..n + 1)
<1>0. n \in Nat /\ n + n + 2 \in Nat
  OBVIOUS
<1> HIDE DEF n
<1>1. PICK d : Grounded(d, s, n, n + n + 2)
  BY <1>0, GroundedExists
<1> DEFINE h == [x \in T |-> Span(d, x[1], x[2], x[3])]
<1>2. ASSUME NEW b \in Symbols, NEW k \in 1..n + 1, NEW l \in 1..n + 1
      PROVE  /\ Span(h, b, k, l) = Span(d, b, k, l)
             /\ Span(d, b, k, l) = Derive(d, s, <<b, k, l>>)
  <2>1. <<b, k, l>> \in T
    OBVIOUS
  <2>2. h[<<b, k, l>>] = Span(d, b, k, l)
    BY <2>1
  <2>3. l + n < k + (n + n + 2)
    BY <1>0
  <2> QED
    BY <1>1, <2>2, <2>3 DEF Grounded, Span
<1> HIDE DEF h
<1>3. ASSUME NEW x \in T PROVE h[x] = Derive(h, s, x)
  <2>1. PICK b \in Symbols, k \in 1..n + 1, l \in 1..n + 1 : x = <<b, k, l>>
    OBVIOUS
  <2>2. SameSpans(d, h, n, n + n + 2)
    BY <1>2 DEF SameSpans
  <2>3. l + n <= k + (n + n + 2)
    BY <1>0
  <2>4. Derive(d, s, <<b, k, l>>) = Derive(h, s, <<b, k, l>>)
    BY <1>0, <2>2, <2>3, SameDerive
  <2> QED
    BY <1>2, <2>1, <2>4 DEF Span
<1>4. h = [x \in T |-> h[x]]
  BY DEF h
<1>5. h = [x \in T |-> Derive(h, s, x)]
  BY <1>3, <1>4
<1>6. Trees(s) = CHOOSE trees : trees = [x \in T |-> Derive(trees, s, x)]
  BY DEF Trees, n
<1>7. Trees(s) = [x \in T |-> Derive(Trees(s), s, x)]
  BY <1>5, <1>6
<1> HIDE DEF T
<1>8. <<a, i, j>> \in T
  BY DEF T, n
<1> QED
  BY <1>7, <1>8 DEF Span

(* The grammar, by its table.                                              *)
Grammar(d, s, n) ==
  \A i, j \in 1..n + 1 :
    /\ Span(d, "operand", i, j) = Operands(d, s, i, j)
    /\ Span(d, "list", i, j) = Lists(d, s, i, j)
    /\ Span(d, "unary", i, j) = Unaries(d, s, i, j)
    /\ Span(d, "and", i, j) = Ands(d, s, i, j)
    /\ Span(d, "or", i, j) = Ors(d, s, i, j)

LEMMA TreesGrammar ==
  ASSUME NEW s, Len(s) \in Nat
  PROVE  Grammar(Trees(s), s, Len(s))
<1> DEFINE d == Trees(s)
<1> SUFFICES ASSUME NEW i \in 1..Len(s) + 1, NEW j \in 1..Len(s) + 1
    PROVE  /\ Span(d, "operand", i, j) = Operands(d, s, i, j)
           /\ Span(d, "list", i, j) = Lists(d, s, i, j)
           /\ Span(d, "unary", i, j) = Unaries(d, s, i, j)
           /\ Span(d, "and", i, j) = Ands(d, s, i, j)
           /\ Span(d, "or", i, j) = Ors(d, s, i, j)
  BY DEF Grammar
<1>1. \A a \in Symbols : Span(d, a, i, j) = Derive(d, s, <<a, i, j>>)
  BY TreesEntry
<1> HIDE DEF d
<1>2. \A a \in Symbols : <<a, i, j>>[1] = a /\ <<a, i, j>>[2] = i /\ <<a, i, j>>[3] = j
  OBVIOUS
<1>3. Derive(d, s, <<"operand", i, j>>) = Operands(d, s, i, j)
  BY <1>2 DEF Derive, Symbols
<1>4. Derive(d, s, <<"list", i, j>>) = Lists(d, s, i, j)
  BY <1>2 DEF Derive, Symbols
<1>5. Derive(d, s, <<"unary", i, j>>) = Unaries(d, s, i, j)
  BY <1>2 DEF Derive, Symbols
<1>6. Derive(d, s, <<"and", i, j>>) = Ands(d, s, i, j)
  BY <1>2 DEF Derive, Symbols
<1>7. Derive(d, s, <<"or", i, j>>) = Ors(d, s, i, j)
  BY <1>2 DEF Derive, Symbols
<1> QED
  BY <1>1, <1>3, <1>4, <1>5, <1>6, <1>7 DEF Symbols

-----------------------------------------------------------------------------
(* What the parser takes from p on, for all positions from k on, is in the *)
(* grammar, and gives a tree of it: what a loop adds to a list or a chain  *)
(* that ends at p makes a longer one.                                      *)
ListOn(d, p, q, ns) ==
  /\ IsSeq(ns)
  /\ \A i \in 1..p : \A l :
       IsSeq(l) /\ l \in Span(d, "list", i, p) => l \o ns \in Span(d, "list", i, q)

ChainOn(d, op, p, q, ns) ==
  /\ IsSeq(ns)
  /\ \A i \in 1..p : \A x, l :
       IsSeq(l) /\ Chain(op, x, l) \in Span(d, op, i, p) => Chain(op, x, l \o ns) \in Span(d, op, i, q)

Sound(g, d, n, k) ==
  \A p \in k..n : \A q, x :
    /\ Has(g, "operand", p, q, x) => x \in Span(d, "operand", p, q)
    /\ Has(g, "unary", p, q, x) => x \in Span(d, "unary", p, q)
    /\ Has(g, "moreArgs", p, q, x) => ListOn(d, p, q, x)
    /\ Has(g, "moreAnds", p, q, x) => ChainOn(d, "and", p, q, x)
    /\ Has(g, "moreOrs", p, q, x) => ChainOn(d, "or", p, q, x)

LEMMA SoundOperand ==
  ASSUME NEW g, NEW d, NEW ts, NEW n, Ended(ts, n), NEW p \in 1..n, Forwards(g, n, p + 1),
         Sound(g, d, n, p + 1), NEW q, NEW x, Gives(Operand(g, ts, p), q, x)
  PROVE  q \in p + 1..n /\ x \in Operands(d, ts, p, q)
<1>0. n \in Nat /\ q \in p + 1..n
  BY GivesReach, ForwardsOperand DEF Ended
<1>1. CASE LengthCall(ts, p)
  <2>1. PICK a, m : /\ Has(g, "operand", p + 2, a, m) /\ Kind(ts, a) = ")" /\ q = a + 1
                    /\ x = LengthOf(m)
    BY <1>1, GivesOperand
  <2>2. p + 1 \in 1..n /\ Kind(ts, p + 1) = "("
    BY <1>1, Peeked, NotLast
  <2>3. p + 2 \in p + 1..n
    BY <1>0, <2>2, NotLast
  <2>4. a \in p + 3..n
    BY <1>0, <2>1, <2>3, HasGets DEF Forwards
  <2>5. m \in Span(d, "operand", p + 2, a)
    BY <2>1, <2>3 DEF Sound
  <2>6. p + 2 < q /\ q - 1 = a
    BY <1>0, <2>1, <2>4
  <2> QED
    BY <1>0, <1>1, <2>1, <2>5, <2>6, SpanOperand
<1>2. CASE ~ LengthCall(ts, p)
  BY <1>0, <1>2, GivesOperand, SpanOperand
<1> QED
  BY <1>0, <1>1, <1>2

LEMMA SoundArguments ==
  ASSUME NEW g, NEW d, NEW ts, NEW n, Ended(ts, n), Grammar(d, ts, n), NEW p \in 1..n,
         Forwards(g, n, p + 1), Sound(g, d, n, p + 1),
         NEW q, NEW l, Gives(Arguments(g, ts, p), q, l)
  PROVE  q \in p + 2..n /\ l \in InBrackets(d, ts, p, q)
<1>0. n \in Nat /\ q \in p + 2..n
  BY GivesReach, ForwardsArguments DEF Ended
<1>1. Kind(ts, p) = "(" /\ p + 1 \in 1..n
  BY GivesArguments, NotLast
<1>2. CASE Kind(ts, p + 1) = ")"
  <2>1. q = p + 1 + 1 /\ l = <<>>
    BY <1>2, GivesArguments
  <2>2. p + 1 < q /\ p + 1 = q - 1
    BY <1>0, <2>1
  <2> QED
    BY <1>0, <1>1, <1>2, <2>1, <2>2, SpanInBrackets
<1>3. CASE Kind(ts, p + 1) # ")"
  <2>1. PICK a, b, x, ns : /\ Has(g, "operand", p + 1, a, x) /\ Has(g, "moreArgs", a, b, ns)
                           /\ Kind(ts, b) = ")" /\ q = b + 1 /\ l = Cons(x, ns)
    <3>1. p \in Int
      BY <1>0
    <3> QED
      BY <1>3, <3>1, GivesArguments
  <2>2. Gets(g, "operand", p + 1, a) /\ Gets(g, "moreArgs", a, b)
    BY <2>1, HasGets
  <2>3. a \in p + 2..n /\ x \in Span(d, "operand", p + 1, a)
    BY <1>0, <1>1, <2>1, <2>2 DEF Forwards, Sound
  <2>4. x \in Operands(d, ts, p + 1, a)
    BY <1>0, <1>1, <2>3 DEF Grammar
  <2>5. <<x>> \in Lists(d, ts, p + 1, a)
    BY <1>1, <2>3, <2>4, SpanList
  <2>6. <<x>> \in Span(d, "list", p + 1, a) /\ IsSeq(<<x>>)
    BY <1>0, <1>1, <2>3, <2>5 DEF Grammar, IsSeq
  <2>7. b \in a..n
    BY <1>0, <2>2, <2>3 DEF Forwards
  <2>8. a \in p + 1..n /\ p + 1 \in 1..a
    BY <1>0, <2>3
  <2>9. ListOn(d, a, b, ns)
    BY <2>1, <2>8 DEF Sound
  <2>10. l \in Span(d, "list", p + 1, b)
    <3>1. <<x>> \o ns \in Span(d, "list", p + 1, b)
      BY <2>6, <2>8, <2>9 DEF ListOn
    <3> QED
      BY <2>1, <3>1 DEF Cons
  <2>11. p + 1 < q /\ p + 1 # q - 1 /\ q - 1 = b
    BY <1>0, <2>1, <2>3, <2>7
  <2> QED
    BY <1>0, <1>1, <2>1, <2>10, <2>11, SpanInBrackets
<1> QED
  BY <1>0, <1>2, <1>3

LEMMA SoundComparison ==
  ASSUME NEW g, NEW d, NEW ts, NEW n, Ended(ts, n), Grammar(d, ts, n), NEW p \in 1..n,
         Forwards(g, n, p + 1), Sound(g, d, n, p + 1), ~ Truth(ts, p),
         NEW q, NEW x, Gives(Comparison(g, ts, p), q, x)
  PROVE  x \in Members(d, ts, p, q) \/ x \in Compares(d, ts, p, q)
<1>0. n \in Nat
  BY DEF Ended
<1>1. PICK a, f :
        /\ Gives(Operand(g, ts, p), a, f)
        /\ \/ \E l : Kind(ts, a) = "IN" /\ Gives(Arguments(g, ts, a + 1), q, l) /\ x = InOf(f, l)
           \/ \E r : /\ Kind(ts, a) = "CMP" /\ Gives(Operand(g, ts, a + 1), q, r)
                     /\ x = CompareAt(ts, a, f, r)
  BY GivesComparison
<1>2. a \in p + 1..n /\ f \in Operands(d, ts, p, a)
  BY <1>1, SoundOperand
<1>3. a + 1 \in 1..n
  BY <1>0, <1>1, <1>2, NotLast
<1>4. Forwards(g, n, a + 1 + 1) /\ Sound(g, d, n, a + 1 + 1)
  BY <1>0, <1>2 DEF Forwards, Sound
<1>5. ASSUME NEW l, Kind(ts, a) = "IN", Gives(Arguments(g, ts, a + 1), q, l), x = InOf(f, l)
      PROVE  x \in Members(d, ts, p, q)
  <2>1. q \in a + 1 + 2..n /\ l \in InBrackets(d, ts, a + 1, q)
    BY <1>3, <1>4, <1>5, SoundArguments
  <2>2. a \in p + 1..q - 1 /\ q \in Int
    BY <1>0, <1>2, <2>1
  <2> QED
    BY <1>2, <1>5, <2>1, <2>2, SpanMember
<1>6. ASSUME NEW r, Kind(ts, a) = "CMP", Gives(Operand(g, ts, a + 1), q, r), x = CompareAt(ts, a, f, r)
      PROVE  x \in Compares(d, ts, p, q)
  <2>1. q \in a + 1 + 1..n /\ r \in Operands(d, ts, a + 1, q)
    BY <1>3, <1>4, <1>6, SoundOperand
  <2>2. a \in p + 1..q - 1 /\ q \in Int
    BY <1>0, <1>2, <2>1
  <2> QED
    BY <1>2, <1>6, <2>1, <2>2, SpanCompare
<1> QED
  BY <1>1, <1>5, <1>6

LEMMA SoundPredicate ==
  ASSUME NEW g, NEW d, NEW ts, NEW n, Ended(ts, n), Grammar(d, ts, n), NEW p \in 1..n,
         Forwards(g, n, p + 1), Sound(g, d, n, p + 1),
         NEW q, NEW x, Gives(Predicate(g, ts, p), q, x)
  PROVE  \/ x \in Truths(ts, p, q) \/ x \in Calls(d, ts, p, q)
         \/ x \in Members(d, ts, p, q) \/ x \in Compares(d, ts, p, q)
<1>0. n \in Nat /\ q \in p + 1..n
  BY GivesReach, ForwardsPredicate DEF Ended
<1>1. CASE BoolCall(ts, p)
  <2>1. PICK l : Gives(Arguments(g, ts, p + 1), q, l) /\ x = CallAt(ts, p, l)
    BY <1>1, GivesPredicate
  <2>2. p + 1 \in 1..n
    BY <1>1, Peeked, NotLast
  <2>3. Forwards(g, n, p + 1 + 1) /\ Sound(g, d, n, p + 1 + 1)
    BY <1>0 DEF Forwards, Sound
  <2>4. l \in InBrackets(d, ts, p + 1, q)
    BY <2>1, <2>2, <2>3, SoundArguments
  <2>5. q \in Int /\ p < q
    BY <1>0
  <2>6. x \in Calls(d, ts, p, q)
    BY <1>1, <2>1, <2>4, <2>5, SpanCall
  <2> QED
    BY <2>6
<1>2. CASE ~ BoolCall(ts, p) /\ Truth(ts, p)
  <2>1. q = p + 1 /\ x = TruthAt(ts, p)
    BY <1>2, GivesPredicate
  <2>2. x \in Truths(ts, p, q)
    BY <1>0, <1>2, <2>1, SpanTruths
  <2> QED
    BY <2>2
<1>3. CASE ~ BoolCall(ts, p) /\ ~ Truth(ts, p)
  BY <1>3, GivesPredicate, SoundComparison
<1> QED
  BY <1>1, <1>2, <1>3

LEMMA SoundAnd ==
  ASSUME NEW g, NEW d, NEW ts, NEW n, Ended(ts, n), Grammar(d, ts, n), NEW p \in 1..n,
         Forwards(g, n, p), Sound(g, d, n, p), NEW q, NEW x, Gives(AndExpr(g, ts, p), q, x)
  PROVE  x \in Span(d, "and", p, q)
<1>0. n \in Nat
  BY DEF Ended
<1>1. PICK a, y, ms : /\ Has(g, "unary", p, a, y) /\ Has(g, "moreAnds", a, q, ms)
                      /\ x = Chain("and", y, ms)
  BY GivesAnd
<1>2. a \in p + 1..n
  BY <1>0, <1>1, HasGets DEF Forwards
<1>3. y \in Span(d, "unary", p, a)
  BY <1>0, <1>1 DEF Sound
<1>4. y \in Unaries(d, ts, p, a)
  BY <1>0, <1>2, <1>3 DEF Grammar
<1>5. y \in Ands(d, ts, p, a)
  BY <1>2, <1>4, SpanAnd
<1>6. a \in p..n /\ p \in 1..a
  BY <1>0, <1>2
<1>7. ChainOn(d, "and", a, q, ms)
  BY <1>1, <1>6 DEF Sound
<1>8. IsSeq(ms) /\ IsSeq(<<>>) /\ <<>> \o ms = ms /\ Chain("and", y, <<>>) = y
  BY <1>7, EmptyList, ChainGrows DEF ChainOn
<1>9. Chain("and", y, <<>>) \in Span(d, "and", p, a)
  BY <1>0, <1>2, <1>5, <1>8 DEF Grammar
<1>10. Chain("and", y, <<>> \o ms) \in Span(d, "and", p, q)
  BY <1>6, <1>7, <1>8, <1>9 DEF ChainOn
<1> QED
  BY <1>1, <1>8, <1>10

LEMMA SoundOr ==
  ASSUME NEW g, NEW d, NEW ts, NEW n, Ended(ts, n), Grammar(d, ts, n), NEW p \in 1..n,
         Forwards(g, n, p), Sound(g, d, n, p), NEW q, NEW x, Gives(OrExpr(g, ts, p), q, x)
  PROVE  x \in Span(d, "or", p, q)
<1>0. n \in Nat
  BY DEF Ended
<1>1. PICK a, y, ms : /\ Gives(AndExpr(g, ts, p), a, y) /\ Has(g, "moreOrs", a, q, ms)
                      /\ x = Chain("or", y, ms)
  BY GivesOr
<1>2. a \in p + 1..n
  <2>1. Reach(AndExpr(g, ts, p), a)
    BY <1>1, GivesReach
  <2> QED
    BY <1>0, <2>1, ForwardsAnd
<1>3. y \in Span(d, "and", p, a)
  BY <1>1, SoundAnd
<1>4. y \in Ands(d, ts, p, a)
  BY <1>0, <1>2, <1>3 DEF Grammar
<1>5. y \in Ors(d, ts, p, a)
  BY <1>2, <1>4, SpanOr
<1>6. a \in p..n /\ p \in 1..a
  BY <1>0, <1>2
<1>7. ChainOn(d, "or", a, q, ms)
  BY <1>1, <1>6 DEF Sound
<1>8. IsSeq(ms) /\ IsSeq(<<>>) /\ <<>> \o ms = ms /\ Chain("or", y, <<>>) = y
  BY <1>7, EmptyList, ChainGrows DEF ChainOn
<1>9. Chain("or", y, <<>>) \in Span(d, "or", p, a)
  BY <1>0, <1>2, <1>5, <1>8 DEF Grammar
<1>10. Chain("or", y, <<>> \o ms) \in Span(d, "or", p, q)
  BY <1>6, <1>7, <1>8, <1>9 DEF ChainOn
<1> QED
  BY <1>1, <1>8, <1>10

LEMMA SoundUnary ==
  ASSUME NEW g, NEW d, NEW ts, NEW n, Ended(ts, n), Grammar(d, ts, n), NEW p \in 1..n,
         Forwards(g, n, p + 1), Sound(g, d, n, p + 1), NEW q, NEW x, Gives(Unary(g, ts, p), q, x)
  PROVE  x \in Unaries(d, ts, p, q)
<1>0. n \in Nat /\ q \in p + 1..n
  BY GivesReach, ForwardsUnary DEF Ended
<1>1. CASE Kind(ts, p) = "NOT"
  <2>1. PICK m : Has(g, "unary", p + 1, q, m) /\ x = NotOf(m)
    BY <1>1, GivesUnary
  <2>2. p + 1 \in p + 1..n /\ p < q
    BY <1>0, <1>1, NotLast
  <2>3. m \in Span(d, "unary", p + 1, q)
    BY <2>1, <2>2 DEF Sound
  <2> QED
    BY <1>0, <1>1, <2>1, <2>2, <2>3, SpanUnary
<1>2. CASE Kind(ts, p) = "("
  <2>1. PICK a : Gives(OrExpr(g, ts, p + 1), a, x) /\ Kind(ts, a) = ")" /\ q = a + 1
    BY <1>2, GivesUnary
  <2>2. p + 1 \in 1..n
    BY <1>2, NotLast
  <2>3. a \in p + 2..n
    BY <1>0, <2>1, <2>2, GivesReach, ForwardsOr
  <2>4. x \in Span(d, "or", p + 1, a)
    BY <2>1, <2>2, SoundOr
  <2>5. p + 1 < q /\ q - 1 = a
    BY <1>0, <2>1, <2>3
  <2> QED
    BY <1>0, <1>2, <2>1, <2>4, <2>5, SpanUnary
<1>3. CASE Kind(ts, p) \notin {"NOT", "("}
  <2>1. Gives(Predicate(g, ts, p), q, x)
    BY <1>3, GivesUnary
  <2>2. \/ x \in Truths(ts, p, q) \/ x \in Calls(d, ts, p, q)
        \/ x \in Members(d, ts, p, q) \/ x \in Compares(d, ts, p, q)
    BY <2>1, SoundPredicate
  <2> QED
    BY <1>0, <2>2, SpanUnary
<1> QED
  BY <1>1, <1>2, <1>3

LEMMA SoundMoreArgs ==
  ASSUME NEW g, NEW d, NEW ts, NEW n, Ended(ts, n), Grammar(d, ts, n), NEW p \in 1..n,
         Forwards(g, n, p + 1), Sound(g, d, n, p + 1), NEW q, NEW ns, Gives(MoreArgs(g, ts, p), q, ns)
  PROVE  ListOn(d, p, q, ns)
<1>0. n \in Nat
  BY DEF Ended
<1>1. CASE Kind(ts, p) # Comma
  <2>1. q = p /\ ns = <<>>
    BY <1>1, GivesMoreArgs
  <2> QED
    BY <2>1, EmptyList DEF ListOn
<1>2. CASE Kind(ts, p) = Comma
  <2>1. PICK a, x, ms : /\ Has(g, "operand", p + 1, a, x) /\ Has(g, "moreArgs", a, q, ms)
                        /\ ns = Cons(x, ms)
    BY <1>2, GivesMoreArgs
  <2>2. p + 1 \in p + 1..n
    BY <1>0, <1>2, NotLast, CommaApart
  <2>3. a \in p + 2..n
    BY <1>0, <2>1, <2>2, HasGets DEF Forwards
  <2>4. x \in Span(d, "operand", p + 1, a)
    BY <2>1, <2>2 DEF Sound
  <2>5. a \in p + 1..n
    BY <1>0, <2>3
  <2>6. ListOn(d, a, q, ms)
    BY <2>1, <2>5 DEF Sound
  <2>7. ASSUME NEW i \in 1..p, NEW l, IsSeq(l), l \in Span(d, "list", i, p)
        PROVE  l \o ns \in Span(d, "list", i, q)
    <3>1. i \in 1..n + 1 /\ a \in 1..n + 1 /\ p \in i..a - 1 /\ i \in 1..a
      BY <1>0, <2>3
    <3>2. Append(l, x) \in Lists(d, ts, i, a)
      <4>1. i \in Int /\ a \in Int
        BY <3>1
      <4> QED
        BY <1>2, <2>4, <2>7, <3>1, <4>1, SpanList, Zenon
    <3>3. Append(l, x) \in Span(d, "list", i, a)
      BY <3>1, <3>2 DEF Grammar
    <3>4. IsSeq(Append(l, x)) /\ Append(l, x) \o ms = l \o ns
      <4>1. IsSeq(ms)
        BY <2>6 DEF ListOn
      <4>2. IsSeq(Append(l, x))
        BY <2>7, LongerList
      <4>3. Append(l, x) \o ms = l \o Cons(x, ms)
        BY <2>7, <4>1, JoinedLists, ZenonT(60)
      <4> QED
        BY <2>1, <4>2, <4>3
    <3>5. Append(l, x) \o ms \in Span(d, "list", i, q)
      BY <2>6, <3>1, <3>3, <3>4 DEF ListOn
    <3> QED
      BY <3>4, <3>5
  <2>8. IsSeq(ns)
    BY <2>1, <2>6, LongerList DEF ListOn
  <2> QED
    BY <2>7, <2>8 DEF ListOn
<1> QED
  BY <1>1, <1>2

LEMMA SoundMoreAnds ==
  ASSUME NEW g, NEW d, NEW ts, NEW n, Ended(ts, n), Grammar(d, ts, n), NEW p \in 1..n,
         Forwards(g, n, p + 1), Sound(g, d, n, p + 1), NEW q, NEW ns, Gives(MoreAnds(g, ts, p), q, ns)
  PROVE  ChainOn(d, "and", p, q, ns)
<1>0. n \in Nat
  BY DEF Ended
<1>1. CASE Kind(ts, p) # "AND"
  <2>1. q = p /\ ns = <<>>
    BY <1>1, GivesMoreAnds
  <2> QED
    BY <2>1, EmptyList DEF ChainOn
<1>2. CASE Kind(ts, p) = "AND"
  <2>1. PICK a, x, ms : /\ Has(g, "unary", p + 1, a, x) /\ Has(g, "moreAnds", a, q, ms)
                        /\ ns = Cons(x, ms)
    BY <1>2, GivesMoreAnds
  <2>2. p + 1 \in p + 1..n
    BY <1>0, <1>2, NotLast
  <2>3. a \in p + 2..n
    BY <1>0, <2>1, <2>2, HasGets DEF Forwards
  <2>4. x \in Span(d, "unary", p + 1, a)
    BY <2>1, <2>2 DEF Sound
  <2>5. a \in p + 1..n
    BY <1>0, <2>3
  <2>6. ChainOn(d, "and", a, q, ms)
    BY <2>1, <2>5 DEF Sound
  <2>7. ASSUME NEW i \in 1..p, NEW y, NEW l, IsSeq(l), Chain("and", y, l) \in Span(d, "and", i, p)
        PROVE  Chain("and", y, l \o ns) \in Span(d, "and", i, q)
    <3>1. i \in 1..n + 1 /\ a \in 1..n + 1 /\ p \in i..a - 1 /\ i \in 1..a
      BY <1>0, <2>3
    <3>2. PairOf("and", Chain("and", y, l), x) \in Ands(d, ts, i, a)
      BY <1>2, <2>4, <2>7, <3>1, SpanAnd
    <3>3. Chain("and", y, Append(l, x)) \in Span(d, "and", i, a)
      BY <2>7, <3>1, <3>2, ChainGrows DEF Grammar
    <3>4. IsSeq(Append(l, x)) /\ Append(l, x) \o ms = l \o ns
      <4>1. IsSeq(ms)
        BY <2>6 DEF ChainOn
      <4>2. IsSeq(Append(l, x))
        BY <2>7, LongerList
      <4>3. Append(l, x) \o ms = l \o Cons(x, ms)
        BY <2>7, <4>1, JoinedLists, ZenonT(60)
      <4> QED
        BY <2>1, <4>2, <4>3
    <3>5. Chain("and", y, Append(l, x) \o ms) \in Span(d, "and", i, q)
      BY <2>6, <3>1, <3>3, <3>4 DEF ChainOn
    <3> QED
      BY <3>4, <3>5
  <2>8. IsSeq(ns)
    BY <2>1, <2>6, LongerList DEF ChainOn
  <2> QED
    BY <2>7, <2>8 DEF ChainOn
<1> QED
  BY <1>1, <1>2

LEMMA SoundMoreOrs ==
  ASSUME NEW g, NEW d, NEW ts, NEW n, Ended(ts, n), Grammar(d, ts, n), NEW p \in 1..n,
         Forwards(g, n, p + 1), Sound(g, d, n, p + 1), NEW q, NEW ns, Gives(MoreOrs(g, ts, p), q, ns)
  PROVE  ChainOn(d, "or", p, q, ns)
<1>0. n \in Nat
  BY DEF Ended
<1>1. CASE Kind(ts, p) # "OR"
  <2>1. q = p /\ ns = <<>>
    BY <1>1, GivesMoreOrs
  <2> QED
    BY <2>1, EmptyList DEF ChainOn
<1>2. CASE Kind(ts, p) = "OR"
  <2>1. PICK a, x, ms : /\ Gives(AndExpr(g, ts, p + 1), a, x) /\ Has(g, "moreOrs", a, q, ms)
                        /\ ns = Cons(x, ms)
    BY <1>2, GivesMoreOrs
  <2>2. p + 1 \in 1..n
    BY <1>0, <1>2, NotLast
  <2>3. a \in p + 2..n
    <3>1. Reach(AndExpr(g, ts, p + 1), a) /\ p + 1 + 1 = p + 2
      BY <1>0, <2>1, GivesReach
    <3> QED
      BY <1>0, <2>2, <3>1, ForwardsAnd
  <2>4. x \in Span(d, "and", p + 1, a)
    BY <2>1, <2>2, SoundAnd
  <2>5. a \in p + 1..n
    BY <1>0, <2>3
  <2>6. ChainOn(d, "or", a, q, ms)
    BY <2>1, <2>5 DEF Sound
  <2>7. ASSUME NEW i \in 1..p, NEW y, NEW l, IsSeq(l), Chain("or", y, l) \in Span(d, "or", i, p)
        PROVE  Chain("or", y, l \o ns) \in Span(d, "or", i, q)
    <3>1. i \in 1..n + 1 /\ a \in 1..n + 1 /\ p \in i..a - 1 /\ i \in 1..a
      BY <1>0, <2>3
    <3>2. PairOf("or", Chain("or", y, l), x) \in Ors(d, ts, i, a)
      BY <1>2, <2>4, <2>7, <3>1, SpanOr
    <3>3. Chain("or", y, Append(l, x)) \in Span(d, "or", i, a)
      BY <2>7, <3>1, <3>2, ChainGrows DEF Grammar
    <3>4. IsSeq(Append(l, x)) /\ Append(l, x) \o ms = l \o ns
      <4>1. IsSeq(ms)
        BY <2>6 DEF ChainOn
      <4>2. IsSeq(Append(l, x))
        BY <2>7, LongerList
      <4>3. Append(l, x) \o ms = l \o Cons(x, ms)
        BY <2>7, <4>1, JoinedLists, ZenonT(60)
      <4> QED
        BY <2>1, <4>2, <4>3
    <3>5. Chain("or", y, Append(l, x) \o ms) \in Span(d, "or", i, q)
      BY <2>6, <3>1, <3>3, <3>4 DEF ChainOn
    <3> QED
      BY <3>4, <3>5
  <2>8. IsSeq(ns)
    BY <2>1, <2>6, LongerList DEF ChainOn
  <2> QED
    BY <2>7, <2>8 DEF ChainOn
<1> QED
  BY <1>1, <1>2

LEMMA ParserSound ==
  ASSUME NEW g, NEW d, NEW ts, NEW n, Ended(ts, n), Grammar(d, ts, n), Parses(g, ts, n),
         Forwards(g, n, 1)
  PROVE  \A k \in 1..n : Sound(g, d, n, k)
<1>0. n \in Nat
  BY DEF Ended
<1> DEFINE S == {k \in 1..n : Sound(g, d, n, k)}
<1>1. ASSUME NEW p \in 1..n, \A j \in p + 1..n : j \in S PROVE p \in S
  <2>1. Sound(g, d, n, p + 1)
    <3>1. CASE p = n
      BY <1>0, <3>1 DEF Sound
    <3>2. CASE p < n
      BY <1>0, <1>1, <3>2
    <3> QED
      BY <1>0, <3>1, <3>2
  <2>2. Forwards(g, n, p) /\ Forwards(g, n, p + 1)
    BY <1>0 DEF Forwards
  <2>3. ASSUME NEW q, NEW x
        PROVE  /\ Has(g, "operand", p, q, x) => x \in Span(d, "operand", p, q)
               /\ Has(g, "unary", p, q, x) => x \in Span(d, "unary", p, q)
    <3>1. ASSUME Has(g, "operand", p, q, x) PROVE x \in Span(d, "operand", p, q)
      <4>1. q \in p + 1..n /\ x \in Operands(d, ts, p, q)
        BY <2>1, <2>2, <3>1, SoundOperand DEF Parses
      <4> QED
        BY <1>0, <4>1 DEF Grammar
    <3>2. ASSUME Has(g, "unary", p, q, x) PROVE x \in Span(d, "unary", p, q)
      <4>1. x \in Unaries(d, ts, p, q)
        BY <2>1, <2>2, <3>2, SoundUnary DEF Parses
      <4>2. q \in p + 1..n
        BY <2>2, <3>2, HasGets DEF Forwards
      <4> QED
        BY <1>0, <4>1, <4>2 DEF Grammar
    <3> QED
      BY <3>1, <3>2
  <2>4. ASSUME NEW q, NEW x
        PROVE  /\ Has(g, "moreArgs", p, q, x) => ListOn(d, p, q, x)
               /\ Has(g, "moreAnds", p, q, x) => ChainOn(d, "and", p, q, x)
               /\ Has(g, "moreOrs", p, q, x) => ChainOn(d, "or", p, q, x)
    <3>1. /\ Has(g, "moreArgs", p, q, x) => Gives(MoreArgs(g, ts, p), q, x)
          /\ Has(g, "moreAnds", p, q, x) => Gives(MoreAnds(g, ts, p), q, x)
          /\ Has(g, "moreOrs", p, q, x) => Gives(MoreOrs(g, ts, p), q, x)
      BY DEF Parses
    <3> QED
      BY <2>1, <2>2, <3>1, SoundMoreArgs, SoundMoreAnds, SoundMoreOrs
  <2>5. Sound(g, d, n, p)
    <3> SUFFICES ASSUME NEW r \in p..n, NEW q, NEW x
        PROVE  /\ Has(g, "operand", r, q, x) => x \in Span(d, "operand", r, q)
               /\ Has(g, "unary", r, q, x) => x \in Span(d, "unary", r, q)
               /\ Has(g, "moreArgs", r, q, x) => ListOn(d, r, q, x)
               /\ Has(g, "moreAnds", r, q, x) => ChainOn(d, "and", r, q, x)
               /\ Has(g, "moreOrs", r, q, x) => ChainOn(d, "or", r, q, x)
      BY DEF Sound
    <3>1. CASE r = p
      BY <2>3, <2>4, <3>1
    <3>2. CASE r # p
      <4>1. r \in p + 1..n
        BY <1>0, <3>2
      <4> QED
        BY <2>1, <4>1 DEF Sound
    <3> QED
      BY <3>1, <3>2
  <2> QED
    BY <2>5
<1>2. \A k \in 1..n : k \in S
  <2> HIDE DEF S
  <2> QED
    BY <1>0, <1>1, Downwards
<1> QED
  BY <1>2

-----------------------------------------------------------------------------
(* The parser takes every tree of a span of the grammar of a length less   *)
(* than m that is followed by a token that cannot go on with it.  Where it *)
(* has taken the first part of a list or a chain, up to a, it goes on to   *)
(* wherever it would go from the end of the span, and adds the parts ms.   *)
GoesTo(g, more, j, a, ms) ==
  /\ IsSeq(ms)
  /\ \A q, ns : IsSeq(ns) /\ Has(g, more, j, q, ns) => Has(g, more, a, q, ms \o ns)

TakesList(g, i, j, l) ==
  \E a, x, ms : l = Cons(x, ms) /\ Has(g, "operand", i, a, x) /\ GoesTo(g, "moreArgs", j, a, ms)

TakesAnd(g, i, j, n) ==
  \E a, x, ms : n = Chain("and", x, ms) /\ Has(g, "unary", i, a, x) /\ GoesTo(g, "moreAnds", j, a, ms)

TakesOr(g, ts, i, j, n) ==
  \E a, x, ms : n = Chain("or", x, ms) /\ Gives(AndExpr(g, ts, i), a, x) /\ GoesTo(g, "moreOrs", j, a, ms)

LEMMA GoesNowhere ==
  ASSUME NEW g, NEW more, NEW j
  PROVE  GoesTo(g, more, j, j, <<>>)
BY EmptyList DEF GoesTo

LEMMA GoesFurther ==
  ASSUME NEW g, NEW more, NEW j, NEW k, NEW a, NEW ms, NEW x, GoesTo(g, more, k, a, ms),
         \A q, ns : Has(g, more, j, q, ns) => Has(g, more, k, q, Cons(x, ns))
  PROVE  GoesTo(g, more, j, a, Append(ms, x))
<1>1. IsSeq(ms)
  BY DEF GoesTo
<1>2. IsSeq(Append(ms, x))
  BY <1>1, LongerList
<1>3. ASSUME NEW q, NEW ns, IsSeq(ns), Has(g, more, j, q, ns)
      PROVE  Has(g, more, a, q, Append(ms, x) \o ns)
  <2>1. Has(g, more, k, q, Cons(x, ns)) /\ IsSeq(Cons(x, ns))
    BY <1>3, LongerList
  <2>2. Has(g, more, a, q, ms \o Cons(x, ns))
    BY <2>1 DEF GoesTo
  <2>3. Append(ms, x) \o ns = ms \o Cons(x, ns)
    BY <1>1, <1>3, JoinedLists, ZenonT(60)
  <2> QED
    BY <2>2, <2>3
<1> QED
  BY <1>2, <1>3 DEF GoesTo

LEMMA GoesThere ==
  ASSUME NEW g, NEW more, NEW j, NEW a, NEW ms, GoesTo(g, more, j, a, ms), Has(g, more, j, j, <<>>)
  PROVE  Has(g, more, a, j, ms)
<1>1. IsSeq(ms) /\ Has(g, more, a, j, ms \o <<>>)
  BY EmptyList DEF GoesTo
<1> QED
  BY <1>1, EmptyList

Complete(g, d, ts, n, m) ==
  \A i, j \in 1..n : i <= j /\ j < i + m => \A x :
    /\ x \in Span(d, "operand", i, j) /\ Kind(ts, j) # "(" => Has(g, "operand", i, j, x)
    /\ x \in Span(d, "list", i, j) /\ Kind(ts, j) # "(" => TakesList(g, i, j, x)
    /\ x \in Span(d, "unary", i, j) /\ Kind(ts, j) \in {"AND", "OR", ")", "EOF"} =>
         Has(g, "unary", i, j, x)
    /\ x \in Span(d, "and", i, j) /\ Kind(ts, j) \in {"AND", "OR", ")", "EOF"} =>
         TakesAnd(g, i, j, x)
    /\ x \in Span(d, "or", i, j) /\ Kind(ts, j) \in {"OR", ")", "EOF"} =>
         TakesOr(g, ts, i, j, x)

LEMMA CompleteOperand ==
  ASSUME NEW g, NEW d, NEW ts, NEW n \in Nat, NEW i \in 1..n, NEW j \in i..n, NEW m \in Nat,
         Complete(g, d, ts, n, m), j <= i + m, NEW x \in Operands(d, ts, i, j), Kind(ts, j) # "("
  PROVE  Gives(Operand(g, ts, i), j, x)
<1>1. CASE /\ j = i + 1
           /\ \/ Kind(ts, i) \in {"STRING", "NUMBER"} /\ x = LiteralAt(ts, i)
              \/ Kind(ts, i) = "IDENT" /\ x = NameAt(ts, i)
  <2>1. ~ LengthCall(ts, i)
    BY <1>1, Peeked
  <2> QED
    BY <1>1, <2>1, GivesOperand
<1>2. CASE /\ LengthCall(ts, i) /\ i + 2 < j /\ Kind(ts, j - 1) = ")"
           /\ \E y \in Span(d, "operand", i + 2, j - 1) : x = LengthOf(y)
  <2>1. /\ i + 2 \in 1..n /\ j - 1 \in 1..n /\ i + 2 <= j - 1 /\ j - 1 < i + 2 + m
        /\ j = (j - 1) + 1
    BY <1>2
  <2>2. PICK y \in Span(d, "operand", i + 2, j - 1) : x = LengthOf(y)
    BY <1>2
  <2>3. Has(g, "operand", i + 2, j - 1, y)
    BY <1>2, <2>1 DEF Complete
  <2> QED
    BY <1>2, <2>1, <2>2, <2>3, GivesOperand
<1> QED
  BY <1>1, <1>2, SpanOperand

LEMMA CompleteArguments ==
  ASSUME NEW g, NEW d, NEW ts, NEW n \in Nat, NEW i \in 1..n, NEW j \in i..n, NEW m \in Nat,
         Parses(g, ts, n), Complete(g, d, ts, n, m), j <= i + m, NEW l \in InBrackets(d, ts, i, j)
  PROVE  Gives(Arguments(g, ts, i), j, l)
<1>1. i + 1 < j /\ Kind(ts, i) = "(" /\ Kind(ts, j - 1) = ")"
  BY SpanInBrackets
<1>2. CASE i + 1 = j - 1 /\ l = <<>>
  BY <1>1, <1>2, GivesArguments
<1>3. CASE l \in Span(d, "list", i + 1, j - 1)
  <2>1. i + 1 \in 1..n /\ j - 1 \in 1..n /\ i + 1 <= j - 1 /\ j - 1 < i + 1 + m /\ j = (j - 1) + 1
    BY <1>1
  <2>2. TakesList(g, i + 1, j - 1, l)
    BY <1>1, <1>3, <2>1 DEF Complete
  <2>3. PICK a, x, ms : /\ l = Cons(x, ms) /\ Has(g, "operand", i + 1, a, x)
                        /\ GoesTo(g, "moreArgs", j - 1, a, ms)
    BY <2>2 DEF TakesList
  <2>4. Kind(ts, j - 1) # Comma
    BY <1>1, CommaApart
  <2>5. Has(g, "moreArgs", j - 1, j - 1, <<>>)
    BY <2>1, <2>4, GivesMoreArgs DEF Parses
  <2>6. Has(g, "moreArgs", a, j - 1, ms)
    BY <2>3, <2>5, GoesThere
  <2>7. Gives(Operand(g, ts, i + 1), a, x)
    BY <2>1, <2>3 DEF Parses
  <2>8. Kind(ts, i + 1) # ")"
    BY <2>1, <2>7, GivesOperand, Peeked
  <2> QED
    BY <1>1, <2>1, <2>3, <2>6, <2>8, GivesArguments
<1> QED
  BY <1>1, <1>2, <1>3, SpanInBrackets

LEMMA CompleteList ==
  ASSUME NEW g, NEW d, NEW ts, NEW n \in Nat, NEW i \in 1..n, NEW j \in i..n, NEW m \in Nat,
         Parses(g, ts, n), Complete(g, d, ts, n, m), j <= i + m, NEW l \in Lists(d, ts, i, j),
         Kind(ts, j) # "("
  PROVE  TakesList(g, i, j, l)
<1>1. ASSUME NEW x \in Operands(d, ts, i, j), l = <<x>> PROVE TakesList(g, i, j, l)
  <2>1. Has(g, "operand", i, j, x)
    BY CompleteOperand DEF Parses
  <2>2. l = Cons(x, <<>>)
    BY <1>1 DEF Cons
  <2> QED
    BY <2>1, <2>2, GoesNowhere DEF TakesList
<1>2. ASSUME NEW k \in i..j - 1, Kind(ts, k) = Comma, NEW r \in Span(d, "list", i, k),
             NEW x \in Span(d, "operand", k + 1, j), l = Append(r, x)
      PROVE  TakesList(g, i, j, l)
  <2>1. k \in 1..n /\ k + 1 \in 1..n /\ i <= k /\ k < i + m /\ k + 1 <= j /\ j < k + 1 + m
    OBVIOUS
  <2>2. TakesList(g, i, k, r)
    BY <1>2, <2>1, CommaApart DEF Complete
  <2>3. PICK a, y, ms : r = Cons(y, ms) /\ Has(g, "operand", i, a, y) /\ GoesTo(g, "moreArgs", k, a, ms)
    BY <2>2 DEF TakesList
  <2>4. Has(g, "operand", k + 1, j, x)
    BY <1>2, <2>1 DEF Complete
  <2>5. ASSUME NEW q, NEW ns, Has(g, "moreArgs", j, q, ns) PROVE Has(g, "moreArgs", k, q, Cons(x, ns))
    BY <1>2, <2>1, <2>4, <2>5, GivesMoreArgs DEF Parses
  <2>6. GoesTo(g, "moreArgs", j, a, Append(ms, x))
    BY <2>3, <2>5, GoesFurther
  <2>7. l = Cons(y, Append(ms, x))
    BY <1>2, <2>3, ConsAppend DEF GoesTo
  <2> QED
    BY <2>3, <2>6, <2>7 DEF TakesList
<1> QED
  BY <1>1, <1>2, SpanList

LEMMA CompletePredicate ==
  ASSUME NEW g, NEW d, NEW ts, NEW n \in Nat, NEW i \in 1..n, NEW j \in i..n, NEW m \in Nat,
         Parses(g, ts, n), Complete(g, d, ts, n, m), j <= i + m, Kind(ts, j) # "(", NEW x,
         \/ x \in Truths(ts, i, j) \/ x \in Calls(d, ts, i, j)
         \/ x \in Members(d, ts, i, j) \/ x \in Compares(d, ts, i, j)
  PROVE  Kind(ts, i) \notin {"NOT", "("} /\ Gives(Predicate(g, ts, i), j, x)
<1>1. CASE x \in Truths(ts, i, j)
  <2>1. j = i + 1 /\ Truth(ts, i) /\ x = TruthAt(ts, i)
    BY <1>1, SpanTruths
  <2>2. ~ BoolCall(ts, i) /\ Kind(ts, i) = "IDENT"
    BY <2>1, Peeked
  <2> QED
    BY <2>1, <2>2, GivesPredicate
<1>2. CASE x \in Calls(d, ts, i, j)
  <2>1. BoolCall(ts, i) /\ i < j /\ \E l \in InBrackets(d, ts, i + 1, j) : x = CallAt(ts, i, l)
    BY <1>2, SpanCall
  <2>2. PICK l \in InBrackets(d, ts, i + 1, j) : x = CallAt(ts, i, l)
    BY <2>1
  <2>3. i + 1 \in 1..n /\ j \in i + 1..n /\ j <= i + 1 + m
    BY <2>1
  <2>4. Gives(Arguments(g, ts, i + 1), j, l)
    BY <2>3, CompleteArguments
  <2> QED
    BY <2>1, <2>2, <2>4, GivesPredicate, Peeked
<1>3. ASSUME NEW k \in i + 1..j - 1, NEW f \in Operands(d, ts, i, k), ~ Truth(ts, i),
             \/ \E l \in InBrackets(d, ts, k + 1, j) : Kind(ts, k) = "IN" /\ x = InOf(f, l)
             \/ \E r \in Operands(d, ts, k + 1, j) : Kind(ts, k) = "CMP" /\ x = CompareAt(ts, k, f, r)
      PROVE  Kind(ts, i) \notin {"NOT", "("} /\ Gives(Predicate(g, ts, i), j, x)
  <2>1. k \in i..n /\ k <= i + m /\ k + 1 \in 1..n /\ j \in k + 1..n /\ j <= k + 1 + m
    OBVIOUS
  <2>2. Gives(Operand(g, ts, i), k, f)
    BY <1>3, <2>1, CompleteOperand
  <2>3. Kind(ts, i) \in {"IDENT", "STRING", "NUMBER"}
    BY <2>2, GivesOperand, Peeked
  <2>4. ~ BoolCall(ts, i)
    <3>1. CASE LengthCall(ts, i)
      BY <3>1, Peeked
    <3>2. CASE ~ LengthCall(ts, i)
      <4>1. k = i + 1
        BY <2>2, <3>2, GivesOperand
      <4> QED
        BY <1>3, <4>1, Peeked
    <3> QED
      BY <3>1, <3>2
  <2>5. \/ \E l : Kind(ts, k) = "IN" /\ Gives(Arguments(g, ts, k + 1), j, l) /\ x = InOf(f, l)
        \/ \E r : /\ Kind(ts, k) = "CMP" /\ Gives(Operand(g, ts, k + 1), j, r)
                  /\ x = CompareAt(ts, k, f, r)
    BY <1>3, <2>1, CompleteArguments, CompleteOperand
  <2>6. Gives(Comparison(g, ts, i), j, x)
    BY <2>2, <2>5, GivesComparison
  <2> QED
    BY <1>3, <2>3, <2>4, <2>6, GivesPredicate
<1>4. CASE x \in Members(d, ts, i, j)
  BY <1>3, <1>4, SpanMember
<1>5. CASE x \in Compares(d, ts, i, j)
  BY <1>3, <1>5, SpanCompare
<1> QED
  BY <1>1, <1>2, <1>4, <1>5

LEMMA CompleteUnary ==
  ASSUME NEW g, NEW d, NEW ts, NEW n \in Nat, NEW i \in 1..n, NEW j \in i..n, NEW m \in Nat,
         Parses(g, ts, n), Complete(g, d, ts, n, m), j <= i + m,
         Kind(ts, j) \in {"AND", "OR", ")", "EOF"}, NEW x \in Unaries(d, ts, i, j)
  PROVE  Has(g, "unary", i, j, x)
<1>1. CASE i < j /\ Kind(ts, i) = "NOT" /\ \E y \in Span(d, "unary", i + 1, j) : x = NotOf(y)
  <2>1. PICK y \in Span(d, "unary", i + 1, j) : x = NotOf(y)
    BY <1>1
  <2>2. i + 1 \in 1..n /\ i + 1 <= j /\ j < i + 1 + m
    BY <1>1
  <2>3. Has(g, "unary", i + 1, j, y)
    BY <2>2 DEF Complete
  <2>4. Gives(Unary(g, ts, i), j, x)
    BY <1>1, <2>1, <2>3, GivesUnary
  <2> QED
    BY <2>4 DEF Parses
<1>2. CASE /\ i + 1 < j /\ Kind(ts, i) = "(" /\ Kind(ts, j - 1) = ")"
           /\ x \in Span(d, "or", i + 1, j - 1)
  <2>1. i + 1 \in 1..n /\ j - 1 \in 1..n /\ i + 1 <= j - 1 /\ j - 1 < i + 1 + m /\ j = (j - 1) + 1
    BY <1>2
  <2>2. TakesOr(g, ts, i + 1, j - 1, x)
    BY <1>2, <2>1 DEF Complete
  <2>3. PICK a, y, ms : /\ x = Chain("or", y, ms) /\ Gives(AndExpr(g, ts, i + 1), a, y)
                        /\ GoesTo(g, "moreOrs", j - 1, a, ms)
    BY <2>2 DEF TakesOr
  <2>4. Has(g, "moreOrs", j - 1, j - 1, <<>>)
    BY <1>2, <2>1, GivesMoreOrs DEF Parses
  <2>5. Has(g, "moreOrs", a, j - 1, ms)
    BY <2>3, <2>4, GoesThere
  <2>6. Gives(OrExpr(g, ts, i + 1), j - 1, x)
    BY <2>1, <2>3, <2>5, GivesOr
  <2>7. Gives(Unary(g, ts, i), j, x)
    BY <1>2, <2>1, <2>6, GivesUnary
  <2> QED
    BY <2>7 DEF Parses
<1>3. CASE \/ x \in Truths(ts, i, j) \/ x \in Calls(d, ts, i, j)
           \/ x \in Members(d, ts, i, j) \/ x \in Compares(d, ts, i, j)
  <2>1. Kind(ts, i) \notin {"NOT", "("} /\ Gives(Predicate(g, ts, i), j, x)
    BY <1>3, CompletePredicate
  <2>2. Gives(Unary(g, ts, i), j, x)
    BY <2>1, GivesUnary
  <2> QED
    BY <2>2 DEF Parses
<1> QED
  BY <1>1, <1>2, <1>3, SpanUnary

LEMMA CompleteAnd ==
  ASSUME NEW g, NEW d, NEW ts, NEW n \in Nat, NEW i \in 1..n, NEW j \in i..n, NEW m \in Nat,
         Parses(g, ts, n), Complete(g, d, ts, n, m), j <= i + m,
         Kind(ts, j) \in {"AND", "OR", ")", "EOF"}, NEW x \in Ands(d, ts, i, j)
  PROVE  TakesAnd(g, i, j, x)
<1>1. CASE x \in Unaries(d, ts, i, j)
  <2>1. Has(g, "unary", i, j, x) /\ x = Chain("and", x, <<>>)
    BY <1>1, CompleteUnary, EmptyList, ChainGrows
  <2> QED
    BY <2>1, GoesNowhere DEF TakesAnd
<1>2. ASSUME NEW k \in i..j - 1, Kind(ts, k) = "AND", NEW l \in Span(d, "and", i, k),
             NEW r \in Span(d, "unary", k + 1, j), x = PairOf("and", l, r)
      PROVE  TakesAnd(g, i, j, x)
  <2>1. k \in 1..n /\ k + 1 \in 1..n /\ i <= k /\ k < i + m /\ k + 1 <= j /\ j < k + 1 + m
    OBVIOUS
  <2>2. TakesAnd(g, i, k, l)
    BY <1>2, <2>1 DEF Complete
  <2>3. PICK a, y, ms : /\ l = Chain("and", y, ms) /\ Has(g, "unary", i, a, y)
                        /\ GoesTo(g, "moreAnds", k, a, ms)
    BY <2>2 DEF TakesAnd
  <2>4. Has(g, "unary", k + 1, j, r)
    BY <2>1 DEF Complete
  <2>5. ASSUME NEW q, NEW ns, Has(g, "moreAnds", j, q, ns) PROVE Has(g, "moreAnds", k, q, Cons(r, ns))
    BY <1>2, <2>1, <2>4, <2>5, GivesMoreAnds DEF Parses
  <2>6. GoesTo(g, "moreAnds", j, a, Append(ms, r))
    BY <2>3, <2>5, GoesFurther
  <2>7. x = Chain("and", y, Append(ms, r))
    BY <1>2, <2>3, ChainGrows DEF GoesTo
  <2> QED
    BY <2>3, <2>6, <2>7 DEF TakesAnd
<1> QED
  BY <1>1, <1>2, SpanAnd

LEMMA CompleteOr ==
  ASSUME NEW g, NEW d, NEW ts, NEW n \in Nat, NEW i \in 1..n, NEW j \in i..n, NEW m \in Nat,
         Parses(g, ts, n), Grammar(d, ts, n), Complete(g, d, ts, n, m), j <= i + m,
         Kind(ts, j) \in {"OR", ")", "EOF"}, NEW x \in Ors(d, ts, i, j)
  PROVE  TakesOr(g, ts, i, j, x)
<1>1. ASSUME NEW k \in 1..n, k <= j, j <= k + m, NEW y \in Ands(d, ts, k, j)
      PROVE  Gives(AndExpr(g, ts, k), j, y)
  <2>1. TakesAnd(g, k, j, y)
    BY <1>1, CompleteAnd
  <2>2. PICK a, z, ms : /\ y = Chain("and", z, ms) /\ Has(g, "unary", k, a, z)
                        /\ GoesTo(g, "moreAnds", j, a, ms)
    BY <2>1 DEF TakesAnd
  <2>3. Has(g, "moreAnds", j, j, <<>>)
    BY GivesMoreAnds DEF Parses
  <2>4. Has(g, "moreAnds", a, j, ms)
    BY <2>2, <2>3, GoesThere
  <2> QED
    BY <2>2, <2>4, GivesAnd
<1>2. CASE x \in Ands(d, ts, i, j)
  <2>1. Gives(AndExpr(g, ts, i), j, x) /\ x = Chain("or", x, <<>>)
    BY <1>1, <1>2, EmptyList, ChainGrows
  <2> QED
    BY <2>1, GoesNowhere DEF TakesOr
<1>3. ASSUME NEW k \in i..j - 1, Kind(ts, k) = "OR", NEW l \in Span(d, "or", i, k),
             NEW r \in Span(d, "and", k + 1, j), x = PairOf("or", l, r)
      PROVE  TakesOr(g, ts, i, j, x)
  <2>1. k \in 1..n /\ k + 1 \in 1..n /\ i <= k /\ k < i + m /\ k + 1 <= j /\ j <= k + 1 + m
    OBVIOUS
  <2>2. TakesOr(g, ts, i, k, l)
    BY <1>3, <2>1 DEF Complete
  <2>3. PICK a, y, ms : /\ l = Chain("or", y, ms) /\ Gives(AndExpr(g, ts, i), a, y)
                        /\ GoesTo(g, "moreOrs", k, a, ms)
    BY <2>2 DEF TakesOr
  <2>4. r \in Ands(d, ts, k + 1, j)
    BY <1>3, <2>1 DEF Grammar
  <2>5. Gives(AndExpr(g, ts, k + 1), j, r)
    BY <1>1, <2>1, <2>4
  <2>6. ASSUME NEW q, NEW ns, Has(g, "moreOrs", j, q, ns) PROVE Has(g, "moreOrs", k, q, Cons(r, ns))
    BY <1>3, <2>1, <2>5, <2>6, GivesMoreOrs DEF Parses
  <2>7. GoesTo(g, "moreOrs", j, a, Append(ms, r))
    BY <2>3, <2>6, GoesFurther
  <2>8. x = Chain("or", y, Append(ms, r))
    BY <1>3, <2>3, ChainGrows DEF GoesTo
  <2> QED
    BY <2>3, <2>7, <2>8 DEF TakesOr
<1> QED
  BY <1>2, <1>3, SpanOr

LEMMA ParserComplete ==
  ASSUME NEW g, NEW d, NEW ts, NEW n \in Nat, Parses(g, ts, n), Grammar(d, ts, n)
  PROVE  \A m \in Nat : Complete(g, d, ts, n, m)
<1> DEFINE S == {m \in Nat : Complete(g, d, ts, n, m)}
<1>1. ASSUME NEW k \in Nat, \A l \in 0..k - 1 : l \in S PROVE k \in S
  <2>1. CASE k = 0
    BY <2>1 DEF Complete
  <2>2. CASE k # 0
    <3>1. k - 1 \in Nat /\ Complete(g, d, ts, n, k - 1)
      BY <1>1, <2>2
    <3> SUFFICES ASSUME NEW i \in 1..n, NEW j \in 1..n, i <= j, j < i + k, NEW x
        PROVE  /\ x \in Span(d, "operand", i, j) /\ Kind(ts, j) # "(" => Has(g, "operand", i, j, x)
               /\ x \in Span(d, "list", i, j) /\ Kind(ts, j) # "(" => TakesList(g, i, j, x)
               /\ x \in Span(d, "unary", i, j) /\ Kind(ts, j) \in {"AND", "OR", ")", "EOF"} =>
                    Has(g, "unary", i, j, x)
               /\ x \in Span(d, "and", i, j) /\ Kind(ts, j) \in {"AND", "OR", ")", "EOF"} =>
                    TakesAnd(g, i, j, x)
               /\ x \in Span(d, "or", i, j) /\ Kind(ts, j) \in {"OR", ")", "EOF"} =>
                    TakesOr(g, ts, i, j, x)
      BY DEF Complete
    <3>2. j \in i..n /\ j <= i + (k - 1) /\ i \in 1..n + 1 /\ j \in 1..n + 1
      OBVIOUS
    <3>3. /\ Span(d, "operand", i, j) = Operands(d, ts, i, j)
          /\ Span(d, "list", i, j) = Lists(d, ts, i, j)
          /\ Span(d, "unary", i, j) = Unaries(d, ts, i, j)
          /\ Span(d, "and", i, j) = Ands(d, ts, i, j)
          /\ Span(d, "or", i, j) = Ors(d, ts, i, j)
      BY <3>2 DEF Grammar
    <3>4. x \in Span(d, "operand", i, j) /\ Kind(ts, j) # "(" => Has(g, "operand", i, j, x)
      BY <3>1, <3>2, <3>3, CompleteOperand DEF Parses
    <3>5. x \in Span(d, "list", i, j) /\ Kind(ts, j) # "(" => TakesList(g, i, j, x)
      BY <3>1, <3>2, <3>3, CompleteList
    <3>6. x \in Span(d, "unary", i, j) /\ Kind(ts, j) \in {"AND", "OR", ")", "EOF"} =>
            Has(g, "unary", i, j, x)
      BY <3>1, <3>2, <3>3, CompleteUnary
    <3>7. x \in Span(d, "and", i, j) /\ Kind(ts, j) \in {"AND", "OR", ")", "EOF"} =>
            TakesAnd(g, i, j, x)
      BY <3>1, <3>2, <3>3, CompleteAnd
    <3>8. x \in Span(d, "or", i, j) /\ Kind(ts, j) \in {"OR", ")", "EOF"} => TakesOr(g, ts, i, j, x)
      BY <3>1, <3>2, <3>3, CompleteOr
    <3> QED
      BY <3>4, <3>5, <3>6, <3>7, <3>8
  <2> QED
    BY <2>1, <2>2
<1>2. \A k \in Nat : k \in S
  <2> HIDE DEF S
  <2> QED
    BY <1>1, Upwards
<1> QED
  BY <1>2

LEMMA ParserIsGrammar ==
  ASSUME NEW ts, NEW n, Ended(ts, n), n >= 3, Len(ts) = n,
         Kind(ts, 1) = "IDENT", Kind(ts, 2) = "WHERE"
  PROVE  Ors(Trees(ts), ts, 3, n) = IF Parse(ts).ok THEN {Parse(ts).node.condition} ELSE {}
<1> DEFINE g == Parser(ts)
           d == Trees(ts)
<1>0. n \in Nat /\ 3 \in 1..n /\ n \in 3..n /\ Kind(ts, n) = "EOF" /\ n <= 3 + n
  BY DEF Ended
<1>1. Parses(g, ts, n) /\ Forwards(g, n, 1) /\ Forwards(g, n, 3)
  BY <1>0, ParserParses DEF Forwards
<1>2. Grammar(d, ts, n)
  BY <1>0, TreesGrammar
<1>3. /\ Parse(ts).ok <=> \E a, x : Gives(OrExpr(g, ts, 3), a, x) /\ Kind(ts, a) = "EOF"
      /\ \A a, x : Gives(OrExpr(g, ts, 3), a, x) /\ Kind(ts, a) = "EOF" =>
           Parse(ts).node.condition = x
  BY GivesParse
<1> HIDE DEF g, d
<1>4. ASSUME NEW a, NEW x, Gives(OrExpr(g, ts, 3), a, x), Kind(ts, a) = "EOF"
      PROVE  x \in Ors(d, ts, 3, n)
  <2>1. Sound(g, d, n, 3)
    BY <1>0, <1>1, <1>2, ParserSound
  <2>2. x \in Span(d, "or", 3, a)
    BY <1>0, <1>1, <1>2, <1>4, <2>1, SoundOr
  <2>3. Reach(OrExpr(g, ts, 3), a)
    BY <1>4, GivesReach
  <2>4. a \in 3 + 1..n
    BY <1>0, <1>1, <2>3, ForwardsOr
  <2>5. a = n
    BY <1>0, <1>4, <2>4 DEF Ended
  <2> QED
    BY <1>0, <1>2, <2>2, <2>5 DEF Grammar
<1>5. ASSUME NEW x \in Ors(d, ts, 3, n) PROVE Gives(OrExpr(g, ts, 3), n, x)
  <2>1. Complete(g, d, ts, n, n)
    BY <1>0, <1>1, <1>2, ParserComplete
  <2>2. TakesOr(g, ts, 3, n, x)
    BY <1>0, <1>1, <1>2, <2>1, CompleteOr
  <2>3. PICK a, y, ms : /\ x = Chain("or", y, ms) /\ Gives(AndExpr(g, ts, 3), a, y)
                        /\ GoesTo(g, "moreOrs", n, a, ms)
    BY <2>2 DEF TakesOr
  <2>4. Has(g, "moreOrs", n, n, <<>>)
    BY <1>0, <1>1, GivesMoreOrs DEF Parses
  <2>5. Has(g, "moreOrs", a, n, ms)
    BY <2>3, <2>4, GoesThere
  <2> QED
    BY <2>3, <2>5, GivesOr
<1>6. ASSUME NEW x
      PROVE  x \in Ors(d, ts, 3, n) <=> x \in IF Parse(ts).ok THEN {Parse(ts).node.condition} ELSE {}
  <2>1. x \in Ors(d, ts, 3, n) => Parse(ts).ok /\ x = Parse(ts).node.condition
    BY <1>0, <1>3, <1>5
  <2>2. Parse(ts).ok => Parse(ts).node.condition \in Ors(d, ts, 3, n)
    BY <1>3, <1>4
  <2> QED
    BY <2>1, <2>2
<1> QED
  BY <1>6, Extensional DEF d

(* A condition is typed of the vocabulary.                                 *)
TypedWords == typed \in Seq(Vocabulary)

LEMMA TypedWordsHold == Spec => []TypedWords
<1>1. Init => TypedWords
  BY DEF Init, TypedWords
<1>2. TypedWords /\ [Next]_vars => TypedWords'
  BY DEF Next, TypeCharacter, Type, Run, Judge, vars, TypedWords
<1> QED
  BY <1>1, <1>2, PTL DEF Spec

LEMMA QueryEnded ==
  ASSUME NEW condition \in Seq(Vocabulary)
  PROVE  LET s == QueryOf(condition)
         IN /\ Len(s) = Len(condition) + 3 /\ Ended(s, Len(s))
            /\ Kind(s, 1) = "IDENT" /\ Kind(s, 2) = "WHERE"
<1> DEFINE s == QueryOf(condition)
           n == Len(condition)
<1>1. /\ Word("IDENT", "process").t = "IDENT" /\ Token("WHERE").t = "WHERE"
      /\ Token("EOF").t = "EOF"
  BY DEF Word, Token
<1>2. /\ Len(s) = n + 3 /\ DOMAIN s = 1..n + 3 /\ n \in Nat
      /\ s[1] = Word("IDENT", "process") /\ s[2] = Token("WHERE")
      /\ \A i \in 3..n + 2 : s[i] = condition[i - 2] /\ condition[i - 2] \in Vocabulary
      /\ s[n + 3] = Token("EOF")
  BY DEF QueryOf
<1> HIDE DEF s
<1>3. ASSUME NEW i \in 1..n + 3 PROVE Kind(s, i) = "EOF" <=> i = n + 3
  <2>1. CASE i \in {1, 2}
    BY <1>1, <1>2, <2>1 DEF Kind
  <2>2. CASE i \in 3..n + 2
    BY <1>2, <2>2, VocabularyAssumption DEF Kind
  <2>3. CASE i = n + 3
    BY <1>1, <1>2, <2>3 DEF Kind
  <2> QED
    BY <1>2, <2>1, <2>2, <2>3
<1>4. Ended(s, n + 3)
  BY <1>2, <1>3 DEF Ended
<1> QED
  BY <1>1, <1>2, <1>4 DEF Kind, s

(* For every vocabulary and conditions of any length, the parser takes     *)
(* exactly the conditions of the grammar of eql.js, and gives each the one *)
(* tree that the grammar has for it.                                       *)
THEOREM EngineParsesTheGrammar == Spec => []ParsesTheGrammar
<1>1. TypedWords => ParsesTheGrammar
  <2> SUFFICES ASSUME TypedWords PROVE ParsesTheGrammar
    OBVIOUS
  <2> DEFINE s == QueryOf(typed)
  <2>1. /\ Len(s) = Len(typed) + 3 /\ Ended(s, Len(s))
        /\ Kind(s, 1) = "IDENT" /\ Kind(s, 2) = "WHERE"
    BY QueryEnded DEF TypedWords
  <2>2. Len(s) >= 3
    BY <2>1
  <2> HIDE DEF s
  <2>3. Ors(Trees(s), s, 3, Len(s)) = IF Parse(s).ok THEN {Parse(s).node.condition} ELSE {}
    BY <2>1, <2>2, ParserIsGrammar
  <2> QED
    BY <2>3 DEF ParsesTheGrammar, Parsed, s
<1> QED
  BY <1>1, TypedWordsHold, PTL

-----------------------------------------------------------------------------
(* The lexer, as the ways to cut a text.  The provers do not read these    *)
(* characters.                                                             *)
Backslash == "\\"
Equals    == "="
Angle     == {"<", ">"}

LEMMA CharactersApart ==
  /\ \A c \in Space : c \notin Separator /\ c \notin Quote /\ c \notin Digit /\ c \notin Sign
  /\ \A c \in Separator : c \notin Quote /\ c \notin Digit /\ c \notin Sign
  /\ \A c \in Quote : c \notin Digit /\ c \notin Sign /\ c # Backslash
  /\ \A c \in Digit : c \notin Sign
  /\ Angle \subseteq Sign
  /\ \A c \in Letter : /\ c \notin Space /\ c \notin Separator /\ c \notin Quote /\ c \notin Digit
                       /\ c \notin Sign
<1>1. \A c \in Space : c \notin Separator /\ c \notin Quote /\ c \notin Digit /\ c \notin Sign
  BY Zenon DEF Space, Separator, Quote, Digit, Sign
<1>2. \A c \in Separator : c \notin Quote /\ c \notin Digit /\ c \notin Sign
  BY Zenon DEF Separator, Quote, Digit, Sign
<1>3. \A c \in Quote : c \notin Digit /\ c \notin Sign /\ c # Backslash
  BY Zenon DEF Quote, Digit, Sign, Backslash
<1>4. \A c \in Digit : c \notin Sign
  BY Zenon DEF Digit, Sign
<1>5. Angle \subseteq Sign
  BY Zenon DEF Angle, Sign
<1>6. \A c \in Letter : c \notin Space \cup Digit \cup Quote \cup Separator \cup Sign
  BY LexerAssumption
<1> QED
  BY <1>1, <1>2, <1>3, <1>4, <1>5, <1>6

LEMMA OpText ==
  ASSUME NEW C, NEW w \in Seq(C)
  PROVE  IsOpText(w) <=> \/ Len(w) = 2 /\ w[1] \in Sign /\ w[2] = Equals
                         \/ Len(w) = 1 /\ w[1] \in Angle
<1>1. IsOpText(w) <=> \/ \E c \in Sign : w = <<c, Equals>>
                      \/ \E c \in Angle : w = <<c>>
  BY Zenon DEF IsOpText, TwoCharOp, Equals, Angle
<1>2. ASSUME NEW c, NEW e PROVE w = <<c, e>> <=> Len(w) = 2 /\ w[1] = c /\ w[2] = e
  OBVIOUS
<1>3. ASSUME NEW c PROVE w = <<c>> <=> Len(w) = 1 /\ w[1] = c
  OBVIOUS
<1> QED
  BY <1>1, <1>2, <1>3

LEMMA TokensOf ==
  ASSUME NEW C, NEW w \in Seq(C), Len(w) > 0
  PROVE  /\ w[1] \in Space => TokenOf(w) = {}
         /\ w[1] \in Separator => TokenOf(w) = IF Len(w) = 1 THEN {Token(w[1])} ELSE {}
         /\ w[1] \in Quote =>
              TokenOf(w) = IF IsString(w) THEN {Word("STRING", Unescaped(Body(w)))} ELSE {}
         /\ w[1] \in Digit =>
              TokenOf(w) = IF IsNumber(w) THEN {Word("NUMBER", ParseFloat(w))} ELSE {}
         /\ w[1] \in Letter => TokenOf(w) = IF IsName(w) THEN {WordToken(w)} ELSE {}
         /\ w[1] \notin Separator \cup Quote \cup Digit \cup Letter =>
              TokenOf(w) = IF IsOpText(w) THEN {Word("CMP", w)} ELSE {}
<1>1. /\ IsString(w) => w[1] \in Quote
      /\ IsNumber(w) => w[1] \in Digit
      /\ IsName(w) => w[1] \in Letter
  BY DEF IsString, IsNumber, IsName
<1>2. IsOpText(w) => w[1] \in Sign
  BY OpText, CharactersApart
<1>3. w # <<>>
  OBVIOUS
<1>4. TokenOf(w) =
        CASE Len(w) = 1 /\ w[1] \in Separator -> {Token(w[1])}
          [] IsString(w)   -> {Word("STRING", Unescaped(Body(w)))}
          [] IsNumber(w)   -> {Word("NUMBER", ParseFloat(w))}
          [] IsName(w)     -> {WordToken(w)}
          [] IsOpText(w)   -> {Word("CMP", w)}
          [] OTHER         -> {}
  BY <1>3 DEF TokenOf
<1> QED
  BY <1>1, <1>2, <1>4, CharactersApart

-----------------------------------------------------------------------------
(* Parts of a text, and the characters that follow one another in it.      *)
LEMMA Parts ==
  ASSUME NEW C, NEW s \in Seq(C), NEW i \in 1..Len(s), NEW j \in i..Len(s)
  PROVE  /\ SubSeq(s, i, j) \in Seq(C) /\ Len(SubSeq(s, i, j)) = j - i + 1
         /\ DOMAIN SubSeq(s, i, j) = 1..j - i + 1
         /\ \A k \in i..j : SubSeq(s, i, j)[k - i + 1] = s[k]
         /\ SubSeq(s, i, j)[1] = s[i]
BY SMTT(30)

(* Where a token may end, and a result that says where the only one does.  *)
Cuts(s, i) == {j \in i..Len(s) : j = Len(s) \/ ~ GoesOn(SubSeq(s, i, j), s[j + 1])}

OneCut(s, i, r) ==
  /\ r.ok => r.pos - 1 \in Cuts(s, i) /\ TokenOf(SubSeq(s, i, r.pos - 1)) = {r.node}
             /\ r.pos \in Int
  /\ \A j \in Cuts(s, i) : TokenOf(SubSeq(s, i, j)) # {} => r.ok /\ j = r.pos - 1

LEMMA CutThere ==
  ASSUME NEW s, NEW i, NEW j \in Cuts(s, i), NEW token, NEW p \in Int, p - 1 = j,
         TokenOf(SubSeq(s, i, j)) = {token},
         \A k \in Cuts(s, i) : k # j => TokenOf(SubSeq(s, i, k)) = {}
  PROVE  OneCut(s, i, Ok(token, p))
BY DEF OneCut, Ok

LEMMA NoCut ==
  ASSUME NEW s, NEW i, \A k \in Cuts(s, i) : TokenOf(SubSeq(s, i, k)) = {}
  PROVE  OneCut(s, i, Throw(i))
BY DEF OneCut, Throw

LEMMA EndOfRun ==
  ASSUME NEW C, NEW s \in Seq(C), NEW S, NEW i \in 1..Len(s), s[i] \in S
  PROVE  /\ EndOf(s, i, S) - 1 \in i..Len(s) /\ EndOf(s, i, S) \in Int
         /\ \A j \in i..Len(s) :
              (\A k \in i..j : s[k] \in S) /\ (j = Len(s) \/ s[j + 1] \notin S)
                <=> j = EndOf(s, i, S) - 1
<1> DEFINE T == {j \in i..Len(s) + 1 : j > Len(s) \/ s[j] \notin S}
           e == EndOf(s, i, S)
<1>1. T \in SUBSET Nat /\ Len(s) + 1 \in T
  OBVIOUS
<1>2. PICK m \in T : \A k \in T : m <= k
  BY <1>1, LeastNatural
<1>3. m \in i..Len(s) + 1 /\ (\A k \in i..m - 1 : s[k] \in S) /\ (m > Len(s) \/ s[m] \notin S)
  BY <1>1, <1>2
<1>4. /\ e \in i..Len(s) + 1 /\ \A k \in i..e - 1 : s[k] \in S
      /\ e > Len(s) \/ s[e] \notin S
  BY <1>3 DEF EndOf
<1> HIDE DEF e
<1>5. e # i
  BY <1>4
<1>6. ASSUME NEW j \in i..Len(s), \A k \in i..j : s[k] \in S, j = Len(s) \/ s[j + 1] \notin S
      PROVE  j = e - 1
  <2>1. ~ (e <= j)
    BY <1>4, <1>6
  <2>2. ~ (e > j + 1)
    BY <1>4, <1>6
  <2> QED
    BY <1>4, <2>1, <2>2
<1>7. ASSUME NEW j \in i..Len(s), j = e - 1
      PROVE  (\A k \in i..j : s[k] \in S) /\ (j = Len(s) \/ s[j + 1] \notin S)
  BY <1>4, <1>7
<1> QED
  BY <1>4, <1>5, <1>6, <1>7 DEF e

(* What goes on, by the first character.                                   *)
LEMMA Going ==
  ASSUME NEW C, NEW w \in Seq(C), Len(w) > 0, NEW c
  PROVE  /\ w[1] \in Letter => (GoesOn(w, c) <=> IsName(w) /\ c \in IdentPart)
         /\ w[1] \in Digit => (GoesOn(w, c) <=> IsNumber(w) /\ c \in Digit \cup {"."})
         /\ w[1] \in Sign => (GoesOn(w, c) <=> IsOpText(w) /\ IsOpText(Append(w, c)))
         /\ w[1] \notin Letter \cup Digit \cup Sign => ~ GoesOn(w, c)
<1>1. IsName(w) => w[1] \in Letter
  BY DEF IsName
<1>2. IsNumber(w) => w[1] \in Digit
  BY DEF IsNumber
<1>3. IsOpText(w) => w[1] \in Sign
  BY OpText, CharactersApart
<1> QED
  BY <1>1, <1>2, <1>3, CharactersApart DEF GoesOn

LEMMA CutSeparator ==
  ASSUME NEW C, NEW s \in Seq(C), NEW i \in 1..Len(s), s[i] \in Separator
  PROVE  OneCut(s, i, Ok(Token(s[i]), i + 1))
<1>1. ASSUME NEW j \in i..Len(s)
      PROVE  TokenOf(SubSeq(s, i, j)) = IF j = i THEN {Token(s[i])} ELSE {}
  <2> DEFINE w == SubSeq(s, i, j)
  <2>1. w \in Seq(C) /\ Len(w) = j - i + 1 /\ w[1] = s[i]
    BY Parts
  <2> HIDE DEF w
  <2>2. Len(w) > 0 /\ w[1] \in Separator
    BY <2>1
  <2>3. TokenOf(w) = IF Len(w) = 1 THEN {Token(w[1])} ELSE {}
    BY <2>1, <2>2, TokensOf
  <2> QED
    BY <2>1, <2>3 DEF w
<1>2. ~ GoesOn(SubSeq(s, i, i), s[i + 1])
  <2> DEFINE w == SubSeq(s, i, i)
  <2>1. w \in Seq(C) /\ Len(w) > 0 /\ w[1] = s[i]
    OBVIOUS
  <2> HIDE DEF w
  <2>2. w[1] \notin Letter \cup Digit \cup Sign
    BY <2>1, CharactersApart
  <2>3. ~ GoesOn(w, s[i + 1])
    BY <2>1, <2>2, Going
  <2> QED
    BY <2>3 DEF w
<1>3. i \in Cuts(s, i) /\ \A k \in Cuts(s, i) : k \in i..Len(s)
  BY <1>2 DEF Cuts
<1> QED
  BY <1>1, <1>3, CutThere

LEMMA CutNumber ==
  ASSUME NEW C, NEW s \in Seq(C), NEW i \in 1..Len(s), s[i] \in Digit
  PROVE  LET e == EndOf(s, i, Digit \cup {"."})
         IN OneCut(s, i, Ok(Word("NUMBER", ParseFloat(SubSeq(s, i, e - 1))), e))
<1> DEFINE S == Digit \cup {"."}
           e == EndOf(s, i, S)
<1>1. /\ e - 1 \in i..Len(s) /\ e \in Int
      /\ \A j \in i..Len(s) :
           (\A k \in i..j : s[k] \in S) /\ (j = Len(s) \/ s[j + 1] \notin S) <=> j = e - 1
  BY EndOfRun
<1> HIDE DEF e
<1>2. ASSUME NEW j \in i..Len(s)
      PROVE  /\ TokenOf(SubSeq(s, i, j)) =
                  IF \A k \in i..j : s[k] \in S
                  THEN {Word("NUMBER", ParseFloat(SubSeq(s, i, j)))} ELSE {}
             /\ (\A k \in i..j : s[k] \in S) =>
                  (j \in Cuts(s, i) <=> j = Len(s) \/ s[j + 1] \notin S)
  <2> DEFINE w == SubSeq(s, i, j)
  <2>1. /\ w \in Seq(C) /\ Len(w) = j - i + 1 /\ w[1] = s[i] /\ DOMAIN w = 1..j - i + 1
        /\ \A k \in i..j : w[k - i + 1] = s[k]
    BY Parts
  <2> HIDE DEF w
  <2>2. IsNumber(w) <=> \A k \in i..j : s[k] \in S
    <3>1. ASSUME \A k \in i..j : s[k] \in S, NEW m \in DOMAIN w PROVE w[m] \in S
      <4>1. m + i - 1 \in i..j /\ (m + i - 1) - i + 1 = m
        BY <2>1
      <4> QED
        BY <2>1, <3>1, <4>1
    <3>2. ASSUME \A m \in DOMAIN w : w[m] \in S, NEW k \in i..j PROVE s[k] \in S
      <4>1. k - i + 1 \in DOMAIN w /\ w[k - i + 1] = s[k]
        BY <2>1
      <4> QED
        BY <3>2, <4>1
    <3> QED
      BY <2>1, <3>1, <3>2 DEF IsNumber
  <2>3. TokenOf(w) = IF IsNumber(w) THEN {Word("NUMBER", ParseFloat(w))} ELSE {}
    <3>1. w \in Seq(C) /\ Len(w) > 0 /\ w[1] \in Digit
      BY <2>1
    <3> QED
      BY <3>1, TokensOf
  <2>4. GoesOn(w, s[j + 1]) <=> IsNumber(w) /\ s[j + 1] \in S
    <3>1. w \in Seq(C) /\ Len(w) > 0 /\ w[1] \in Digit
      BY <2>1
    <3> QED
      BY <3>1, Going
  <2> QED
    BY <2>2, <2>3, <2>4 DEF w, Cuts
<1> HIDE DEF S
<1>3. e - 1 \in Cuts(s, i) /\ \A k \in Cuts(s, i) : k \in i..Len(s)
  BY <1>1, <1>2 DEF Cuts
<1>4. TokenOf(SubSeq(s, i, e - 1)) = {Word("NUMBER", ParseFloat(SubSeq(s, i, e - 1)))}
  BY <1>1, <1>2
<1>5. \A k \in Cuts(s, i) : k # e - 1 => TokenOf(SubSeq(s, i, k)) = {}
  BY <1>1, <1>2, <1>3
<1>6. OneCut(s, i, Ok(Word("NUMBER", ParseFloat(SubSeq(s, i, e - 1))), e))
  BY <1>1, <1>3, <1>4, <1>5, CutThere
<1> QED
  BY <1>6 DEF e, S

LEMMA CutName ==
  ASSUME NEW C, NEW s \in Seq(C), NEW i \in 1..Len(s), s[i] \in Letter
  PROVE  LET e == EndOf(s, i, IdentPart) IN OneCut(s, i, Ok(WordToken(SubSeq(s, i, e - 1)), e))
<1> DEFINE S == IdentPart
           e == EndOf(s, i, S)
<1>0. s[i] \in S
  BY DEF IdentPart
<1>1. /\ e - 1 \in i..Len(s) /\ e \in Int
      /\ \A j \in i..Len(s) :
           (\A k \in i..j : s[k] \in S) /\ (j = Len(s) \/ s[j + 1] \notin S) <=> j = e - 1
  BY <1>0, EndOfRun
<1> HIDE DEF e
<1>2. ASSUME NEW j \in i..Len(s)
      PROVE  /\ TokenOf(SubSeq(s, i, j)) =
                  IF \A k \in i..j : s[k] \in S THEN {WordToken(SubSeq(s, i, j))} ELSE {}
             /\ (\A k \in i..j : s[k] \in S) =>
                  (j \in Cuts(s, i) <=> j = Len(s) \/ s[j + 1] \notin S)
  <2> DEFINE w == SubSeq(s, i, j)
  <2>1. /\ w \in Seq(C) /\ Len(w) = j - i + 1 /\ w[1] = s[i] /\ DOMAIN w = 1..j - i + 1
        /\ \A k \in i..j : w[k - i + 1] = s[k]
    BY Parts
  <2> HIDE DEF w
  <2>2. IsName(w) <=> \A k \in i..j : s[k] \in S
    <3>1. ASSUME \A k \in i..j : s[k] \in S, NEW m \in DOMAIN w PROVE w[m] \in S
      <4>1. m + i - 1 \in i..j /\ (m + i - 1) - i + 1 = m
        BY <2>1
      <4> QED
        BY <2>1, <3>1, <4>1
    <3>2. ASSUME \A m \in DOMAIN w : w[m] \in S, NEW k \in i..j PROVE s[k] \in S
      <4>1. k - i + 1 \in DOMAIN w /\ w[k - i + 1] = s[k]
        BY <2>1
      <4> QED
        BY <3>2, <4>1
    <3> QED
      BY <2>1, <3>1, <3>2 DEF IsName
  <2>3. TokenOf(w) = IF IsName(w) THEN {WordToken(w)} ELSE {}
    <3>1. w \in Seq(C) /\ Len(w) > 0 /\ w[1] \in Letter
      BY <2>1
    <3> QED
      BY <3>1, TokensOf
  <2>4. GoesOn(w, s[j + 1]) <=> IsName(w) /\ s[j + 1] \in S
    <3>1. w \in Seq(C) /\ Len(w) > 0 /\ w[1] \in Letter
      BY <2>1
    <3> QED
      BY <3>1, Going
  <2> QED
    BY <2>2, <2>3, <2>4 DEF w, Cuts
<1> HIDE DEF S
<1>3. e - 1 \in Cuts(s, i) /\ \A k \in Cuts(s, i) : k \in i..Len(s)
  BY <1>1, <1>2 DEF Cuts
<1>4. TokenOf(SubSeq(s, i, e - 1)) = {WordToken(SubSeq(s, i, e - 1))}
  BY <1>1, <1>2
<1>5. \A k \in Cuts(s, i) : k # e - 1 => TokenOf(SubSeq(s, i, k)) = {}
  BY <1>1, <1>2, <1>3
<1>6. OneCut(s, i, Ok(WordToken(SubSeq(s, i, e - 1)), e))
  BY <1>1, <1>3, <1>4, <1>5, CutThere
<1> QED
  BY <1>6 DEF e, S

(* Operators of one character and of two.                                  *)
LEMMA ShortParts ==
  ASSUME NEW C, NEW s \in Seq(C), NEW i \in 1..Len(s)
  PROVE  /\ SubSeq(s, i, i) = <<s[i]>>
         /\ i < Len(s) => SubSeq(s, i, i + 1) = <<s[i], s[i + 1]>>
<1>1. ASSUME NEW w \in Seq(C), Len(w) = 1 PROVE w = <<w[1]>>
  BY <1>1
<1>2. ASSUME NEW w \in Seq(C), Len(w) = 2 PROVE w = <<w[1], w[2]>>
  BY <1>2
<1>3. SubSeq(s, i, i) \in Seq(C) /\ Len(SubSeq(s, i, i)) = 1 /\ SubSeq(s, i, i)[1] = s[i]
  OBVIOUS
<1>4. ASSUME i < Len(s)
      PROVE  /\ SubSeq(s, i, i + 1) \in Seq(C) /\ Len(SubSeq(s, i, i + 1)) = 2
             /\ SubSeq(s, i, i + 1)[1] = s[i] /\ SubSeq(s, i, i + 1)[2] = s[i + 1]
  BY <1>4
<1> HIDE DEF SubSeq
<1> QED
  BY <1>1, <1>2, <1>3, <1>4

LEMMA OpAt ==
  ASSUME NEW C, NEW s \in Seq(C), NEW i \in 1..Len(s), NEW j \in i..Len(s)
  PROVE  IsOpText(SubSeq(s, i, j)) <=> \/ j = i + 1 /\ s[i] \in Sign /\ s[i + 1] = Equals
                                       \/ j = i /\ s[i] \in Angle
<1> DEFINE w == SubSeq(s, i, j)
<1>1. /\ w \in Seq(C) /\ Len(w) = j - i + 1 /\ w[1] = s[i]
      /\ \A k \in i..j : w[k - i + 1] = s[k]
  BY Parts
<1> HIDE DEF w
<1>2. j = i + 1 => w[2] = s[i + 1]
  <2> SUFFICES ASSUME j = i + 1 PROVE w[2] = s[i + 1]
    OBVIOUS
  <2>1. i + 1 \in i..j /\ (i + 1) - i + 1 = 2
    OBVIOUS
  <2> QED
    BY <1>1, <2>1
<1>3. IsOpText(w) <=> \/ Len(w) = 2 /\ w[1] \in Sign /\ w[2] = Equals
                      \/ Len(w) = 1 /\ w[1] \in Angle
  BY <1>1, OpText
<1>4. (Len(w) = 2 <=> j = i + 1) /\ (Len(w) = 1 <=> j = i)
  BY <1>1
<1> QED
  BY <1>1, <1>2, <1>3, <1>4 DEF w

LEMMA OpTokens ==
  ASSUME NEW C, NEW s \in Seq(C), NEW i \in 1..Len(s), NEW j \in i..Len(s),
         s[i] \notin Separator \cup Quote \cup Digit \cup Letter
  PROVE  /\ TokenOf(SubSeq(s, i, j)) =
              IF IsOpText(SubSeq(s, i, j)) THEN {Word("CMP", SubSeq(s, i, j))} ELSE {}
         /\ s[i] \in Sign =>
              (j \in Cuts(s, i) <=>
                 j = Len(s) \/ ~ (IsOpText(SubSeq(s, i, j)) /\ IsOpText(SubSeq(s, i, j + 1))))
<1> DEFINE w == SubSeq(s, i, j)
<1>1. w \in Seq(C) /\ Len(w) > 0 /\ w[1] = s[i]
  BY Parts
<1>2. j # Len(s) => Append(w, s[j + 1]) = SubSeq(s, i, j + 1)
  OBVIOUS
<1> HIDE DEF w
<1>3. w[1] \notin Separator \cup Quote \cup Digit \cup Letter
  BY <1>1
<1>4. TokenOf(w) = IF IsOpText(w) THEN {Word("CMP", w)} ELSE {}
  BY <1>1, <1>3, TokensOf
<1>5. s[i] \in Sign => (GoesOn(w, s[j + 1]) <=> IsOpText(w) /\ IsOpText(Append(w, s[j + 1])))
  BY <1>1, Going
<1> QED
  BY <1>2, <1>4, <1>5 DEF w, Cuts

LEMMA CutPair ==
  ASSUME NEW C, NEW s \in Seq(C), NEW i \in 1..Len(s), i < Len(s), s[i] \in Sign,
         s[i + 1] = Equals
  PROVE  OneCut(s, i, Ok(Word("CMP", SubSeq(s, i, i + 1)), i + 2))
<1>0. s[i] \notin Separator \cup Quote \cup Digit \cup Letter
  BY CharactersApart
<1>1. i + 1 \in i..Len(s) /\ (i + 2) - 1 = i + 1 /\ i + 2 \in Int
  OBVIOUS
<1>2. IsOpText(SubSeq(s, i, i + 1))
  BY <1>1, OpAt
<1>3. ASSUME i + 2 \in i..Len(s) PROVE ~ IsOpText(SubSeq(s, i, i + 2))
  BY <1>3, OpAt
<1>4. i + 1 \in Cuts(s, i)
  <2>1. i + 1 = Len(s) \/ ~ IsOpText(SubSeq(s, i, i + 1 + 1))
    <3>1. i + 1 + 1 = i + 2
      OBVIOUS
    <3> QED
      BY <1>3, <3>1
  <2> QED
    BY <1>0, <1>1, <2>1, OpTokens
<1>5. TokenOf(SubSeq(s, i, i + 1)) = {Word("CMP", SubSeq(s, i, i + 1))}
  BY <1>0, <1>1, <1>2, OpTokens
<1>6. ASSUME NEW k \in Cuts(s, i), k # i + 1 PROVE TokenOf(SubSeq(s, i, k)) = {}
  <2>1. k \in i..Len(s)
    BY DEF Cuts
  <2>2. ~ IsOpText(SubSeq(s, i, k))
    <3>1. CASE k = i
      <4>1. i \in i..Len(s) /\ i \in Cuts(s, i) /\ i # Len(s)
        BY <3>1
      <4>2. ~ (IsOpText(SubSeq(s, i, i)) /\ IsOpText(SubSeq(s, i, i + 1)))
        BY <1>0, <4>1, OpTokens
      <4> QED
        BY <1>2, <3>1, <4>2
    <3>2. CASE k # i
      BY <1>6, <2>1, <3>2, OpAt
    <3> QED
      BY <3>1, <3>2
  <2> QED
    BY <1>0, <2>1, <2>2, OpTokens
<1> QED
  BY <1>1, <1>4, <1>5, <1>6, CutThere

LEMMA CutAngle ==
  ASSUME NEW C, NEW s \in Seq(C), NEW i \in 1..Len(s), s[i] \in Angle,
         ~ (i < Len(s) /\ s[i + 1] = Equals)
  PROVE  OneCut(s, i, Ok(Word("CMP", <<s[i]>>), i + 1))
<1>0. s[i] \notin Separator \cup Quote \cup Digit \cup Letter /\ s[i] \in Sign
  BY CharactersApart
<1>1. i \in i..Len(s) /\ (i + 1) - 1 = i /\ i + 1 \in Int /\ SubSeq(s, i, i) = <<s[i]>>
  BY ShortParts
<1>2. IsOpText(SubSeq(s, i, i))
  BY <1>1, OpAt
<1>3. ASSUME NEW k \in i..Len(s), k # i PROVE ~ IsOpText(SubSeq(s, i, k))
  BY <1>3, OpAt
<1>4. i \in Cuts(s, i)
  <2>1. i = Len(s) \/ ~ IsOpText(SubSeq(s, i, i + 1))
    BY <1>3
  <2> QED
    BY <1>0, <1>1, <2>1, OpTokens
<1>5. TokenOf(SubSeq(s, i, i)) = {Word("CMP", <<s[i]>>)}
  BY <1>0, <1>1, <1>2, OpTokens
<1>6. ASSUME NEW k \in Cuts(s, i), k # i PROVE TokenOf(SubSeq(s, i, k)) = {}
  <2>1. k \in i..Len(s)
    BY DEF Cuts
  <2> QED
    BY <1>0, <1>3, <1>6, <2>1, OpTokens
<1> QED
  BY <1>1, <1>4, <1>5, <1>6, CutThere

LEMMA CutNothing ==
  ASSUME NEW C, NEW s \in Seq(C), NEW i \in 1..Len(s),
         s[i] \notin Separator \cup Quote \cup Digit \cup Letter, s[i] \notin Angle,
         ~ (i < Len(s) /\ s[i] \in Sign /\ s[i + 1] = Equals)
  PROVE  OneCut(s, i, Throw(i))
<1>1. ASSUME NEW k \in Cuts(s, i) PROVE TokenOf(SubSeq(s, i, k)) = {}
  <2>1. k \in i..Len(s)
    BY DEF Cuts
  <2>2. ~ IsOpText(SubSeq(s, i, k))
    BY <2>1, OpAt
  <2> QED
    BY <2>1, <2>2, OpTokens
<1> QED
  BY <1>1, NoCut

LEMMA PairIn ==
  ASSUME NEW C, NEW s \in Seq(C), NEW i \in 1..Len(s)
  PROVE  (IF i < Len(s) THEN SubSeq(s, i, i + 1) ELSE <<s[i]>>) \in TwoCharOp
           <=> i < Len(s) /\ s[i] \in Sign /\ s[i + 1] = Equals
<1>1. ASSUME NEW w PROVE w \in TwoCharOp <=> \E c \in Sign : w = <<c, Equals>>
  BY Zenon DEF TwoCharOp, Equals
<1>2. i < Len(s) => SubSeq(s, i, i + 1) = <<s[i], s[i + 1]>>
  BY ShortParts
<1>3. \A c : <<s[i]>> # <<c, Equals>>
  OBVIOUS
<1> QED
  BY <1>1, <1>2, <1>3

LEMMA NextTokenShape ==
  ASSUME NEW s, NEW i
  PROVE  LET pair == IF i < Len(s) THEN SubSeq(s, i, i + 1) ELSE <<s[i]>>
             word == EndOf(s, i, IdentPart)
             num  == EndOf(s, i, Digit \cup {"."})
         IN NextToken(s, i) =
              CASE s[i] \in Separator -> Ok(Token(s[i]), i + 1)
                [] s[i] \in Quote     -> StringEnd(s, i + 1, s[i])
                [] s[i] \in Digit     -> Ok(Word("NUMBER", ParseFloat(SubSeq(s, i, num - 1))), num)
                [] pair \in TwoCharOp -> Ok(Word("CMP", pair), i + 2)
                [] pair \notin TwoCharOp /\ s[i] \in Angle -> Ok(Word("CMP", <<s[i]>>), i + 1)
                [] s[i] \in Letter    -> Ok(WordToken(SubSeq(s, i, word - 1)), word)
                [] OTHER              -> Throw(i)
BY Zenon DEF NextToken, Angle

LEMMA NextCut ==
  ASSUME NEW C, NEW s \in Seq(C), NEW i \in 1..Len(s),
         s[i] \in Quote => OneCut(s, i, StringEnd(s, i + 1, s[i]))
  PROVE  OneCut(s, i, NextToken(s, i))
<1> DEFINE pair == IF i < Len(s) THEN SubSeq(s, i, i + 1) ELSE <<s[i]>>
           word == EndOf(s, i, IdentPart)
           num  == EndOf(s, i, Digit \cup {"."})
           P    == i < Len(s) /\ s[i] \in Sign /\ s[i + 1] = Equals
<1>1. pair \in TwoCharOp <=> P
  BY PairIn
<1>2. P => pair = SubSeq(s, i, i + 1)
  OBVIOUS
<1>3. /\ s[i] \in Separator => NextToken(s, i) = Ok(Token(s[i]), i + 1)
      /\ s[i] \in Quote => NextToken(s, i) = StringEnd(s, i + 1, s[i])
      /\ s[i] \in Digit =>
           NextToken(s, i) = Ok(Word("NUMBER", ParseFloat(SubSeq(s, i, num - 1))), num)
      /\ P => NextToken(s, i) = Ok(Word("CMP", SubSeq(s, i, i + 1)), i + 2)
      /\ ~ P /\ s[i] \in Angle => NextToken(s, i) = Ok(Word("CMP", <<s[i]>>), i + 1)
      /\ s[i] \in Letter => NextToken(s, i) = Ok(WordToken(SubSeq(s, i, word - 1)), word)
      /\ ~ P /\ s[i] \notin Angle \cup Separator \cup Quote \cup Digit \cup Letter =>
           NextToken(s, i) = Throw(i)
  <2>1. NextToken(s, i) =
          CASE s[i] \in Separator -> Ok(Token(s[i]), i + 1)
            [] s[i] \in Quote     -> StringEnd(s, i + 1, s[i])
            [] s[i] \in Digit     -> Ok(Word("NUMBER", ParseFloat(SubSeq(s, i, num - 1))), num)
            [] pair \in TwoCharOp -> Ok(Word("CMP", pair), i + 2)
            [] pair \notin TwoCharOp /\ s[i] \in Angle -> Ok(Word("CMP", <<s[i]>>), i + 1)
            [] s[i] \in Letter    -> Ok(WordToken(SubSeq(s, i, word - 1)), word)
            [] OTHER              -> Throw(i)
    BY NextTokenShape
  <2> HIDE DEF pair, word, num
  <2> QED
    BY <1>1, <1>2, <2>1, CharactersApart
<1> HIDE DEF pair
<1>4. CASE s[i] \in Separator
  BY <1>3, <1>4, CutSeparator
<1>5. CASE s[i] \in Quote
  BY <1>3, <1>5
<1>6. CASE s[i] \in Digit
  BY <1>3, <1>6, CutNumber
<1>7. CASE P
  BY <1>3, <1>7, CutPair
<1>8. CASE ~ P /\ s[i] \in Angle
  <2>1. ~ (i < Len(s) /\ s[i + 1] = Equals)
    BY <1>8, CharactersApart
  <2> QED
    BY <1>3, <1>8, <2>1, CutAngle
<1>9. CASE s[i] \in Letter
  BY <1>3, <1>9, CutName
<1>10. CASE ~ P /\ s[i] \notin Angle \cup Separator \cup Quote \cup Digit \cup Letter
  BY <1>3, <1>10, CutNothing
<1> QED
  BY <1>4, <1>5, <1>6, <1>7, <1>8, <1>9, <1>10

-----------------------------------------------------------------------------
(* A character at p is escaped in what starts at a.                        *)
Esc(s, a, p) ==
  \E k \in a..p - 1 : /\ (p - k) % 2 = 1 /\ \A j \in k..p - 1 : s[j] = Backslash
                      /\ k = a \/ s[k - 1] # Backslash

LEMMA EscNext ==
  ASSUME NEW s, NEW a \in Nat, NEW p \in Nat, a <= p
  PROVE  /\ ~ Esc(s, a, a)
         /\ Esc(s, a, p + 1) <=> s[p] = Backslash /\ ~ Esc(s, a, p)
<1>1. ~ Esc(s, a, a)
  BY DEF Esc
<1>2. ASSUME Esc(s, a, p + 1) PROVE s[p] = Backslash /\ ~ Esc(s, a, p)
  <2>1. PICK k \in a..p : /\ (p + 1 - k) % 2 = 1 /\ \A j \in k..p : s[j] = Backslash
                          /\ k = a \/ s[k - 1] # Backslash
    BY <1>2 DEF Esc
  <2>2. ASSUME Esc(s, a, p) PROVE FALSE
    <3>1. PICK m \in a..p - 1 : /\ (p - m) % 2 = 1 /\ \A j \in m..p - 1 : s[j] = Backslash
                                /\ m = a \/ s[m - 1] # Backslash
      BY <2>2 DEF Esc
    <3>2. ~ (k < m)
      <4>1. ASSUME k < m PROVE m - 1 \in k..p /\ m # a
        BY <4>1
      <4> QED
        BY <2>1, <3>1, <4>1
    <3>3. ~ (m < k)
      <4>1. ASSUME m < k PROVE k - 1 \in m..p - 1 /\ k # a
        BY <4>1
      <4> QED
        BY <2>1, <3>1, <4>1
    <3>4. k = m
      BY <3>2, <3>3
    <3> QED
      BY <2>1, <3>1, <3>4
  <2> QED
    BY <2>1, <2>2
<1>3. ASSUME s[p] = Backslash, ~ Esc(s, a, p) PROVE Esc(s, a, p + 1)
  <2> DEFINE T == {k \in a..p : \A j \in k..p : s[j] = Backslash}
  <2>1. T \in SUBSET Nat /\ p \in T
    BY <1>3
  <2>2. PICK k \in T : \A m \in T : k <= m
    BY <2>1, LeastNatural
  <2>3. k \in a..p /\ \A j \in k..p : s[j] = Backslash
    BY <2>2
  <2>4. k = a \/ s[k - 1] # Backslash
    <3>1. ASSUME k # a, s[k - 1] = Backslash PROVE k - 1 \in T
      BY <2>3, <3>1
    <3> QED
      BY <2>2, <2>3, <3>1
  <2>5. (p + 1 - k) % 2 = 1
    <3>1. (p + 1 - k) % 2 = 1 \/ (k <= p - 1 /\ (p - k) % 2 = 1)
      BY <2>3
    <3>2. k <= p - 1 /\ (p - k) % 2 = 1 => Esc(s, a, p)
      BY <2>3, <2>4 DEF Esc
    <3> QED
      BY <1>3, <3>1, <3>2
  <2>6. k \in a..(p + 1) - 1 /\ (p + 1) - 1 = p
    BY <2>3
  <2> HIDE DEF T
  <2> QED
    BY <2>3, <2>4, <2>5, <2>6 DEF Esc
<1> QED
  BY <1>1, <1>2, <1>3

LEMMA EscPart ==
  ASSUME NEW w, NEW s, NEW a \in Nat \ {0}, NEW N \in Nat,
         \A k \in 1..N : w[k] = s[k + a - 1], NEW m \in 1..N + 1
  PROVE  Escaped(w, m) <=> Esc(s, a, m + a - 1)
<1>1. Escaped(w, m) <=> \E k \in 1..m - 1 :
        /\ (m - k) % 2 = 1 /\ \A j \in k..m - 1 : w[j] = Backslash
        /\ k = 1 \/ w[k - 1] # Backslash
  BY Zenon DEF Escaped, Backslash
<1>2. ASSUME NEW k \in 1..m - 1
      PROVE  /\ (\A j \in k..m - 1 : w[j] = Backslash) <=>
                  \A j \in k + a - 1..(m + a - 1) - 1 : s[j] = Backslash
             /\ k # 1 => w[k - 1] = s[(k + a - 1) - 1]
             /\ k = 1 <=> k + a - 1 = a
             /\ (m + a - 1) - (k + a - 1) = m - k
             /\ k + a - 1 \in a..(m + a - 1) - 1
  <2>1. ASSUME \A j \in k..m - 1 : w[j] = Backslash, NEW j \in k + a - 1..(m + a - 1) - 1
        PROVE  s[j] = Backslash
    <3>1. j - a + 1 \in k..m - 1 /\ j - a + 1 \in 1..N /\ (j - a + 1) + a - 1 = j
      OBVIOUS
    <3> QED
      BY <2>1, <3>1
  <2>2. ASSUME \A j \in k + a - 1..(m + a - 1) - 1 : s[j] = Backslash, NEW j \in k..m - 1
        PROVE  w[j] = Backslash
    <3>1. j + a - 1 \in k + a - 1..(m + a - 1) - 1 /\ j \in 1..N
      OBVIOUS
    <3> QED
      BY <2>2, <3>1
  <2>3. k # 1 => w[k - 1] = s[(k + a - 1) - 1]
    <3>1. k # 1 => k - 1 \in 1..N /\ (k - 1) + a - 1 = (k + a - 1) - 1
      OBVIOUS
    <3> QED
      BY <3>1
  <2> QED
    BY <2>1, <2>2, <2>3
<1>3. ASSUME Escaped(w, m) PROVE Esc(s, a, m + a - 1)
  <2>1. PICK k \in 1..m - 1 : /\ (m - k) % 2 = 1 /\ \A j \in k..m - 1 : w[j] = Backslash
                              /\ k = 1 \/ w[k - 1] # Backslash
    BY <1>1, <1>3
  <2> DEFINE l == k + a - 1
  <2>2. /\ l \in a..(m + a - 1) - 1 /\ ((m + a - 1) - l) % 2 = 1
        /\ \A j \in l..(m + a - 1) - 1 : s[j] = Backslash
        /\ l = a \/ s[l - 1] # Backslash
    BY <1>2, <2>1
  <2> HIDE DEF l
  <2> QED
    BY <2>2 DEF Esc
<1>4. ASSUME Esc(s, a, m + a - 1) PROVE Escaped(w, m)
  <2>1. PICK l \in a..(m + a - 1) - 1 :
          /\ ((m + a - 1) - l) % 2 = 1 /\ \A j \in l..(m + a - 1) - 1 : s[j] = Backslash
          /\ l = a \/ s[l - 1] # Backslash
    BY <1>4 DEF Esc
  <2> DEFINE k == l - a + 1
  <2>2. k \in 1..m - 1 /\ k + a - 1 = l
    OBVIOUS
  <2> HIDE DEF k
  <2>3. /\ (m - k) % 2 = 1 /\ \A j \in k..m - 1 : w[j] = Backslash
        /\ k = 1 \/ w[k - 1] # Backslash
    BY <1>2, <2>1, <2>2
  <2> QED
    BY <1>1, <2>2, <2>3
<1> QED
  BY <1>3, <1>4

(* The string that goes on at j ends with the quote c at e.                *)
ClosesAt(s, a, c, j, e) ==
  /\ e \in j..Len(s) /\ s[e] = c /\ ~ Esc(s, a, e)
  /\ \A p \in j..e - 1 : s[p] = c => Esc(s, a, p)

LEMMA StringCloses ==
  ASSUME NEW C, NEW s \in Seq(C), NEW i \in 1..Len(s), s[i] \in Quote, NEW e \in i..Len(s)
  PROVE  IsString(SubSeq(s, i, e)) <=> ClosesAt(s, i + 1, s[i], i + 1, e)
<1> DEFINE w == SubSeq(s, i, e)
           u == SubSeq(w, 2, Len(w))
           b == Body(w)
           a == i + 1
           c == s[i]
<1>1. /\ w \in Seq(C) /\ Len(w) = e - i + 1 /\ w[1] = c /\ w[Len(w)] = s[e]
      /\ \A k \in 1..e - i + 1 : w[k] = s[k + i - 1]
  BY SMTT(30)
<1>2. CASE e = i
  <2>1. ~ IsString(w)
    BY <1>1, <1>2 DEF IsString
  <2>2. ~ ClosesAt(s, a, c, a, e)
    BY <1>2 DEF ClosesAt
  <2> QED
    BY <2>1, <2>2
<1>3. CASE e > i
  <2> HIDE DEF w
  <2>1. \A k \in 1..e - i : u[k] = s[k + a - 1]
    BY <1>1, <1>3
  <2>2. DOMAIN b = 1..e - a /\ \A k \in 1..e - a : b[k] = s[k + a - 1]
    BY <1>1, <1>3 DEF Body
  <2> HIDE DEF u, b
  <2>3. Escaped(u, Len(w) - 1) <=> Esc(s, a, e)
    <3>1. Len(w) - 1 \in 1..(e - i) + 1 /\ (Len(w) - 1) + a - 1 = e
      BY <1>1, <1>3
    <3>2. a \in Nat \ {0} /\ e - i \in Nat
      BY <1>3
    <3> QED
      BY <2>1, <3>1, <3>2, EscPart
  <2>4. ASSUME NEW m \in 1..e - a PROVE Escaped(b, m) <=> Esc(s, a, m + a - 1)
    <3>1. m \in 1..(e - a) + 1 /\ a \in Nat \ {0} /\ e - a \in Nat
      BY <1>3
    <3> QED
      BY <2>2, <3>1, EscPart
  <2>5. (\A m \in DOMAIN b : b[m] = c => Escaped(b, m)) <=>
          \A p \in a..e - 1 : s[p] = c => Esc(s, a, p)
    <3>1. ASSUME \A m \in DOMAIN b : b[m] = c => Escaped(b, m), NEW p \in a..e - 1, s[p] = c
          PROVE  Esc(s, a, p)
      <4>1. p - a + 1 \in 1..e - a /\ (p - a + 1) + a - 1 = p
        OBVIOUS
      <4> QED
        BY <2>2, <2>4, <3>1, <4>1
    <3>2. ASSUME \A p \in a..e - 1 : s[p] = c => Esc(s, a, p), NEW m \in DOMAIN b, b[m] = c
          PROVE  Escaped(b, m)
      <4>1. m \in 1..e - a /\ m + a - 1 \in a..e - 1
        BY <2>2
      <4> QED
        BY <2>2, <2>4, <3>2, <4>1
    <3> QED
      BY <3>1, <3>2
  <2>6. IsString(w) <=> /\ s[e] = c /\ ~ Escaped(u, Len(w) - 1)
                        /\ \A m \in DOMAIN b : b[m] = c => Escaped(b, m)
    <3>1. IsString(w) <=>
            /\ Len(w) > 1 /\ w[1] \in Quote /\ w[Len(w)] = w[1] /\ ~ Escaped(u, Len(w) - 1)
            /\ \A m \in DOMAIN b : b[m] = w[1] => Escaped(b, m)
      BY DEF IsString, u, b
    <3>2. Len(w) > 1
      BY <1>1, <1>3
    <3> QED
      BY <1>1, <3>1, <3>2
  <2>7. e \in a..Len(s)
    BY <1>3
  <2>8. IsString(w) <=> ClosesAt(s, a, c, a, e)
    BY <2>3, <2>5, <2>6, <2>7 DEF ClosesAt
  <2> QED
    BY <2>8 DEF w
<1> QED
  BY <1>2, <1>3

(* A result behind one more character or token, and the table of the rest  *)
(* of a string literal.                                                    *)
Prefixed(r, x) == Then(r, LAMBDA rest, k : Ok(<<x>> \o rest, k))

EndStep(end, s, c, j) ==
  IF j > Len(s) THEN Throw(j)
  ELSE IF s[j] = c THEN Ok(<<>>, j + 1)
  ELSE IF s[j] = Backslash /\ j < Len(s)
       THEN Prefixed(end[j + 2], s[j + 1])
       ELSE Prefixed(end[j + 1], s[j])

EndTable(s, a, c) ==
  CHOOSE end : end = [j \in a..Len(s) + 1 |-> EndStep(end, s, c, j)]

LEMMA StringEndByTable ==
  ASSUME NEW s, NEW a, NEW c
  PROVE  StringEnd(s, a, c) = Then(EndTable(s, a, c)[a], LAMBDA out, k : Ok(Word("STRING", out), k))
BY Zenon DEF StringEnd, EndTable, EndStep, Prefixed, Backslash

LEMMA EndTableExists ==
  ASSUME NEW C, NEW s \in Seq(C), NEW c
  PROVE  \A a \in 1..Len(s) + 1 :
           EndTable(s, a, c) = [j \in a..Len(s) + 1 |-> EndStep(EndTable(s, a, c), s, c, j)]
<1> DEFINE n == Len(s) + 1
           S == {a \in 1..n : \E g : g = [j \in a..n |-> EndStep(g, s, c, j)]}
<1>0. n \in Nat /\ Len(s) = n - 1
  OBVIOUS
<1>1. ASSUME NEW a \in 1..n, \A j \in a + 1..n : j \in S PROVE a \in S
  <2> HIDE DEF n
  <2>1. \E g : g = [j \in a + 1..n |-> EndStep(g, s, c, j)]
    <3>1. CASE a = n
      <4>1. [k \in {} |-> k] = [j \in a + 1..n |-> EndStep([k \in {} |-> k], s, c, j)]
        BY <1>0, <3>1
      <4> QED
        BY <4>1
    <3>2. CASE a < n
      <4>1. a + 1 \in S
        BY <1>0, <1>1, <3>2
      <4> QED
        BY <4>1
    <3> QED
      BY <1>0, <3>1, <3>2
  <2>2. PICK g : g = [j \in a + 1..n |-> EndStep(g, s, c, j)]
    BY <2>1
  <2> DEFINE h == [j \in a..n |-> IF j = a THEN EndStep(g, s, c, a) ELSE g[j]]
  <2>3. ASSUME NEW j \in a + 1..n PROVE h[j] = g[j] /\ g[j] = EndStep(g, s, c, j)
    <3>1. g[j] = EndStep(g, s, c, j)
      BY <2>2, Zenon
    <3>2. j \in a..n /\ j # a
      BY <1>0
    <3> QED
      BY <3>1, <3>2
  <2>4. h[a] = EndStep(g, s, c, a)
    BY <1>0
  <2> HIDE DEF h
  <2>5. ASSUME NEW j \in a..n PROVE EndStep(g, s, c, j) = EndStep(h, s, c, j)
    <3>1. CASE j = n
      <4>1. j > Len(s)
        BY <1>0, <3>1
      <4> QED
        BY <4>1 DEF EndStep
    <3>2. CASE j < n
      <4>1. j + 1 \in a + 1..n /\ (j < Len(s) => j + 2 \in a + 1..n)
        BY <1>0, <3>2
      <4>2. h[j + 1] = g[j + 1] /\ (j < Len(s) => h[j + 2] = g[j + 2])
        BY <2>3, <4>1
      <4> QED
        BY <4>2 DEF EndStep
    <3> QED
      BY <1>0, <3>1, <3>2
  <2>6. \A j \in a..n : h[j] = EndStep(h, s, c, j)
    <3> TAKE j \in a..n
    <3>1. h[j] = EndStep(g, s, c, j)
      BY <1>0, <2>3, <2>4
    <3> QED
      BY <2>5, <3>1
  <2>7. h = [j \in a..n |-> h[j]]
    BY DEF h
  <2>8. h = [j \in a..n |-> EndStep(h, s, c, j)]
    BY <2>6, <2>7
  <2> QED
    BY <2>8
<1>2. \A a \in 1..n : a \in S
  <2> HIDE DEF S
  <2> QED
    BY <1>0, <1>1, Downwards
<1> TAKE a \in 1..Len(s) + 1
<1>3. \E g : g = [j \in a..Len(s) + 1 |-> EndStep(g, s, c, j)]
  BY <1>2
<1> QED
  BY <1>3 DEF EndTable

-----------------------------------------------------------------------------
(* The characters at the positions of K, in order.                         *)
Listed(s, K) ==
  [n \in 1..Cardinality(K) |-> s[CHOOSE k \in K : Cardinality(K \cap 1..k) = n]]

LEMMA ListedType ==
  ASSUME NEW C, NEW s \in Seq(C), NEW K \in SUBSET (1..Len(s))
  PROVE  /\ Listed(s, K) \in Seq(C) /\ Len(Listed(s, K)) = Cardinality(K)
         /\ \A k \in K : Listed(s, K)[Rank(K, k)] = s[k]
<1>0. Len(s) \in Nat
  OBVIOUS
<1>1. Cardinality(K) \in Nat
  BY <1>0, FiniteBelow
<1>2. ASSUME NEW k \in K PROVE Rank(K, k) \in 1..Cardinality(K) /\ Listed(s, K)[Rank(K, k)] = s[k]
  <2>1. Rank(K, k) \in 1..Cardinality(K)
    BY <1>0, Ranked
  <2>2. (CHOOSE m \in K : Cardinality(K \cap 1..m) = Rank(K, k)) = k
    BY <1>0, RankedOnce
  <2> QED
    BY <2>1, <2>2 DEF Listed
<1>3. ASSUME NEW n \in 1..Cardinality(K) PROVE Listed(s, K)[n] \in C
  <2>1. PICK k \in K : Rank(K, k) = n
    BY <1>0, Ranked
  <2> QED
    BY <1>2, <2>1
<1>4. DOMAIN Listed(s, K) = 1..Cardinality(K) /\ Listed(s, K) = [n \in 1..Cardinality(K) |-> Listed(s, K)[n]]
  BY DEF Listed
<1>5. Listed(s, K) \in [1..Cardinality(K) -> C]
  BY <1>3, <1>4
<1>6. Listed(s, K) \in Seq(C) /\ Len(Listed(s, K)) = Cardinality(K)
  BY <1>1, <1>5
<1> QED
  BY <1>2, <1>6

LEMMA ListedOnly ==
  ASSUME NEW C, NEW s \in Seq(C), NEW K \in SUBSET (1..Len(s)), NEW L \in Seq(C),
         Len(L) = Cardinality(K), \A k \in K : L[Rank(K, k)] = s[k]
  PROVE  L = Listed(s, K)
<1>1. Listed(s, K) \in Seq(C) /\ Len(Listed(s, K)) = Cardinality(K) /\ Len(s) \in Nat
  BY ListedType
<1>2. ASSUME NEW n \in 1..Len(L) PROVE L[n] = Listed(s, K)[n]
  <2>1. PICK k \in K : Rank(K, k) = n
    BY <1>1, Ranked
  <2> QED
    BY <2>1, ListedType
<1> QED
  BY <1>1, <1>2

LEMMA ListedFirst ==
  ASSUME NEW C, NEW s \in Seq(C), NEW m \in 1..Len(s), NEW H \in SUBSET (m + 1..Len(s))
  PROVE  Listed(s, {m} \cup H) = <<s[m]>> \o Listed(s, H)
<1> DEFINE K == {m} \cup H
           L == <<s[m]>> \o Listed(s, H)
<1>1. K \in SUBSET (1..Len(s)) /\ H \in SUBSET (1..Len(s)) /\ m \notin H /\ Len(s) \in Nat
  OBVIOUS
<1>0. IsFiniteSet(H) /\ Cardinality(H) \in Nat
  BY <1>1, FiniteBelow
<1>2. Listed(s, H) \in Seq(C) /\ Len(Listed(s, H)) = Cardinality(H) /\ Cardinality(H) \in Nat
  BY <1>0, <1>1, ListedType
<1>3. Cardinality(K) = Cardinality(H) + 1
  <2>1. \A x : x \notin H => Cardinality(H \cup {x}) = Cardinality(H) + 1
    BY <1>0, FS_AddElement
  <2>2. K = H \cup {m}
    OBVIOUS
  <2> QED
    BY <1>1, <2>1, <2>2
<1>4. L \in Seq(C) /\ Len(L) = Cardinality(K)
  BY <1>2, <1>3
<1>5. ASSUME NEW k \in K PROVE L[Rank(K, k)] = s[k]
  <2>1. CASE k = m
    <3>1. K \cap 1..m = {m}
      OBVIOUS
    <3>2. Rank(K, m) = 1
      BY <3>1, FS_Singleton DEF Rank
    <3> QED
      BY <1>2, <2>1, <3>2
  <2>2. CASE k \in H
    <3>1. K \cap 1..k = (H \cap 1..k) \cup {m} /\ m \notin H \cap 1..k
      BY <2>2
    <3>2. IsFiniteSet(H \cap 1..k)
      BY <1>0, FS_Subset
    <3>3. Rank(K, k) = Rank(H, k) + 1
      BY <3>1, <3>2, FS_AddElement DEF Rank
    <3>4. Rank(H, k) \in 1..Cardinality(H) /\ Listed(s, H)[Rank(H, k)] = s[k]
      <4>1. Rank(H, k) \in 1..Cardinality(H)
        BY <1>1, <2>2, Ranked
      <4> QED
        BY <1>1, <2>2, <4>1, ListedType
    <3>5. L[Rank(H, k) + 1] = Listed(s, H)[Rank(H, k)]
      <4> DEFINE F == Listed(s, H)
      <4> HIDE DEF F
      <4>1. F \in Seq(C) /\ Len(F) = Cardinality(H)
        BY <1>2 DEF F
      <4>2. \A r \in 1..Len(F) : (<<s[m]>> \o F)[r + 1] = F[r]
        BY <4>1
      <4> QED
        BY <3>4, <4>1, <4>2 DEF F
    <3> QED
      BY <3>3, <3>4, <3>5
  <2> QED
    BY <2>1, <2>2
<1> HIDE DEF L, K
<1>6. L = Listed(s, K)
  BY <1>1, <1>4, <1>5, ListedOnly
<1> QED
  BY <1>6 DEF L, K

LEMMA ListedMoved ==
  ASSUME NEW C, NEW s \in Seq(C), NEW t \in Seq(C),
         NEW K \in SUBSET (1..Len(s)), NEW H \in SUBSET (1..Len(t)),
         NEW move, Moves(move, K, H), \A k \in K : t[move[k]] = s[k]
  PROVE  Listed(s, K) = Listed(t, H)
<1> DEFINE N == Len(s) + Len(t)
<1>1. N \in Nat /\ K \in SUBSET (1..N) /\ H \in SUBSET (1..N)
  OBVIOUS
<1>2. Cardinality(H) = Cardinality(K) /\ \A k \in K : Rank(H, move[k]) = Rank(K, k)
  BY <1>1, RanksMoved, ZenonT(60)
<1>3. \A k \in K : Listed(t, H)[Rank(K, k)] = s[k]
  <2> TAKE k \in K
  <2>1. move[k] \in H
    BY DEF Moves
  <2>2. Listed(t, H)[Rank(H, move[k])] = t[move[k]]
    BY <2>1, ListedType
  <2> QED
    BY <1>2, <2>2
<1>4. Listed(t, H) \in Seq(C) /\ Len(Listed(t, H)) = Cardinality(K)
  BY <1>2, ListedType
<1> QED
  BY <1>3, <1>4, ListedOnly

(* The positions between j and e whose characters a literal keeps, and     *)
(* what a result says of the string that goes on at j.                     *)
Kept(s, a, j, e) == {p \in j..e - 1 : s[p] # Backslash \/ Esc(s, a, p)}

StringFrom(r, s, a, c, j) ==
  /\ r.ok => /\ r.pos \in Int /\ ClosesAt(s, a, c, j, r.pos - 1)
             /\ r.node = Listed(s, Kept(s, a, j, r.pos - 1))
  /\ \A e : ClosesAt(s, a, c, j, e) => r.ok /\ r.pos = e + 1

(* The string that goes on at j and the one that goes on at k end at the   *)
(* same quote, and of what lies between them the last character is kept.   *)
Continues(s, a, c, j, k) ==
  /\ ~ Esc(s, a, k)
  /\ \A e : ClosesAt(s, a, c, j, e) <=> ClosesAt(s, a, c, k, e)
  /\ \A e \in k..Len(s) : Kept(s, a, j, e) = {k - 1} \cup Kept(s, a, k, e)

LEMMA StringLonger ==
  ASSUME NEW C, NEW s \in Seq(C), NEW a, NEW c, NEW j \in 1..Len(s), NEW k \in j + 1..Len(s) + 1,
         NEW r, StringFrom(r, s, a, c, k), Continues(s, a, c, j, k)
  PROVE  StringFrom(Prefixed(r, s[k - 1]), s, a, c, j)
<1> DEFINE t == Prefixed(r, s[k - 1])
<1>0. /\ \A e : ClosesAt(s, a, c, j, e) <=> ClosesAt(s, a, c, k, e)
      /\ \A e \in k..Len(s) : Kept(s, a, j, e) = {k - 1} \cup Kept(s, a, k, e)
  BY DEF Continues
<1>1. CASE r.ok
  <2> DEFINE e == r.pos - 1
  <2>1. t.ok /\ t.pos = r.pos /\ t.node = <<s[k - 1]>> \o r.node
    BY <1>1 DEF Prefixed, Then, Ok
  <2>2. ClosesAt(s, a, c, k, e) /\ r.pos \in Int /\ r.node = Listed(s, Kept(s, a, k, e))
    BY <1>1 DEF StringFrom
  <2>3. e \in k..Len(s)
    BY <2>2 DEF ClosesAt
  <2>4. Listed(s, {k - 1} \cup Kept(s, a, k, e)) = <<s[k - 1]>> \o Listed(s, Kept(s, a, k, e))
    <3> DEFINE m == k - 1
               H == Kept(s, a, k, e)
    <3>1. m \in 1..Len(s) /\ H \in SUBSET (m + 1..Len(s))
      BY <2>3 DEF Kept
    <3> HIDE DEF m, H
    <3>2. Listed(s, {m} \cup H) = <<s[m]>> \o Listed(s, H)
      BY <3>1, ListedFirst
    <3> QED
      BY <3>2 DEF m, H
  <2>5. t.node = Listed(s, Kept(s, a, j, e))
    BY <1>0, <2>1, <2>2, <2>3, <2>4
  <2>6. ClosesAt(s, a, c, j, t.pos - 1)
    BY <1>0, <2>1, <2>2
  <2>7. \A f : ClosesAt(s, a, c, j, f) => t.pos = f + 1
    BY <1>0, <2>1 DEF StringFrom
  <2> HIDE DEF t
  <2>8. StringFrom(t, s, a, c, j)
    BY <2>1, <2>2, <2>5, <2>6, <2>7 DEF StringFrom
  <2> QED
    BY <2>8 DEF t
<1>2. CASE ~ r.ok
  <2>1. t = r
    BY <1>2 DEF Prefixed, Then
  <2>2. \A e : ~ ClosesAt(s, a, c, j, e)
    BY <1>0, <1>2 DEF StringFrom
  <2> HIDE DEF t
  <2>3. StringFrom(t, s, a, c, j)
    BY <1>2, <2>1, <2>2 DEF StringFrom
  <2> QED
    BY <2>3 DEF t
<1> QED
  BY <1>1, <1>2

(* What starts inside an escape, or before any other character but c, ends *)
(* where the rest ends.                                                    *)
LEMMA EndsLater ==
  ASSUME NEW C, NEW s \in Seq(C), NEW c, c # Backslash, NEW a \in 1..Len(s) + 1,
         NEW j \in a..Len(s), ~ Esc(s, a, j), s[j] # c
  PROVE  /\ s[j] # Backslash => Continues(s, a, c, j, j + 1)
         /\ s[j] = Backslash /\ j < Len(s) => Continues(s, a, c, j, j + 2)
<1>1. ASSUME NEW p \in a..Len(s) PROVE Esc(s, a, p + 1) <=> s[p] = Backslash /\ ~ Esc(s, a, p)
  <2>1. a \in Nat /\ p \in Nat /\ a <= p
    OBVIOUS
  <2> QED
    BY <2>1, EscNext
<1>2. ASSUME s[j] # Backslash PROVE Continues(s, a, c, j, j + 1)
  <2>1. \A e : ClosesAt(s, a, c, j, e) <=> ClosesAt(s, a, c, j + 1, e)
    <3> TAKE e
    <3>1. ClosesAt(s, a, c, j, e) => ClosesAt(s, a, c, j + 1, e)
      BY DEF ClosesAt
    <3>2. ClosesAt(s, a, c, j + 1, e) => ClosesAt(s, a, c, j, e)
      <4> SUFFICES ASSUME ClosesAt(s, a, c, j + 1, e) PROVE ClosesAt(s, a, c, j, e)
        OBVIOUS
      <4>1. e \in j..Len(s) /\ \A p \in j..e - 1 : p = j \/ p \in j + 1..e - 1
        BY DEF ClosesAt
      <4> QED
        BY <4>1 DEF ClosesAt
    <3> QED
      BY <3>1, <3>2
  <2>2. ASSUME NEW e \in j + 1..Len(s) PROVE Kept(s, a, j, e) = {j} \cup Kept(s, a, j + 1, e)
    <3>1. j..e - 1 = {j} \cup (j + 1..e - 1)
      OBVIOUS
    <3> QED
      BY <1>2, <3>1 DEF Kept
  <2>3. (j + 1) - 1 = j /\ ~ Esc(s, a, j + 1)
    BY <1>1, <1>2
  <2> QED
    BY <2>1, <2>2, <2>3 DEF Continues
<1>3. ASSUME s[j] = Backslash, j < Len(s) PROVE Continues(s, a, c, j, j + 2)
  <2>0. Esc(s, a, j + 1)
    BY <1>1, <1>3
  <2>3. ~ Esc(s, a, j + 2)
    <3>1. j + 1 \in a..Len(s) /\ (j + 1) + 1 = j + 2
      BY <1>3
    <3> QED
      BY <1>1, <2>0, <3>1
  <2>1. \A e : ClosesAt(s, a, c, j, e) <=> ClosesAt(s, a, c, j + 2, e)
    <3> TAKE e
    <3>1. ClosesAt(s, a, c, j, e) => ClosesAt(s, a, c, j + 2, e)
      <4> SUFFICES ASSUME ClosesAt(s, a, c, j, e) PROVE ClosesAt(s, a, c, j + 2, e)
        OBVIOUS
      <4>1. e # j /\ e # j + 1 /\ e \in j..Len(s)
        BY <2>0 DEF ClosesAt
      <4>2. e \in j + 2..Len(s) /\ \A p \in j + 2..e - 1 : p \in j..e - 1
        BY <4>1
      <4> QED
        BY <4>2 DEF ClosesAt
    <3>2. ClosesAt(s, a, c, j + 2, e) => ClosesAt(s, a, c, j, e)
      <4> SUFFICES ASSUME ClosesAt(s, a, c, j + 2, e) PROVE ClosesAt(s, a, c, j, e)
        OBVIOUS
      <4>1. e \in j..Len(s) /\ \A p \in j..e - 1 : p = j \/ p = j + 1 \/ p \in j + 2..e - 1
        BY DEF ClosesAt
      <4> QED
        BY <2>0, <4>1 DEF ClosesAt
    <3> QED
      BY <3>1, <3>2
  <2>2. ASSUME NEW e \in j + 2..Len(s) PROVE Kept(s, a, j, e) = {j + 1} \cup Kept(s, a, j + 2, e)
    <3>1. j..e - 1 = {j, j + 1} \cup (j + 2..e - 1)
      OBVIOUS
    <3> QED
      BY <1>3, <2>0, <3>1 DEF Kept
  <2>4. (j + 2) - 1 = j + 1
    OBVIOUS
  <2> QED
    BY <2>1, <2>2, <2>3, <2>4 DEF Continues
<1> QED
  BY <1>2, <1>3

LEMMA EndsWhere ==
  ASSUME NEW C, NEW s \in Seq(C), NEW c, c # Backslash, NEW a \in 1..Len(s) + 1
  PROVE  StringFrom(EndTable(s, a, c)[a], s, a, c, a)
<1> DEFINE E == EndTable(s, a, c)
           n == Len(s) + 1
           S == {j \in 1..n : a <= j /\ ~ Esc(s, a, j) => StringFrom(E[j], s, a, c, j)}
<1>0. n \in Nat /\ Len(s) = n - 1 /\ Len(s) \in Nat
  OBVIOUS
<1>1. ASSUME NEW j \in a..n
      PROVE  /\ j > Len(s) => E[j] = Throw(j)
             /\ j <= Len(s) /\ s[j] = c => E[j] = Ok(<<>>, j + 1)
             /\ j < Len(s) /\ s[j] # c /\ s[j] = Backslash =>
                  E[j] = Prefixed(E[j + 2], s[j + 1])
             /\ j <= Len(s) /\ s[j] # c /\ ~ (s[j] = Backslash /\ j < Len(s)) =>
                  E[j] = Prefixed(E[j + 1], s[j])
  <2>1. E = [k \in a..Len(s) + 1 |-> EndStep(E, s, c, k)]
    BY EndTableExists
  <2> HIDE DEF E
  <2>2. E[j] = EndStep(E, s, c, j)
    BY <2>1, Zenon DEF n
  <2>3. j > Len(s) <=> ~ (j <= Len(s))
    BY <1>0
  <2>4. j < Len(s) => j <= Len(s)
    BY <1>0
  <2> QED
    BY <2>2, <2>3, <2>4 DEF EndStep
<1> HIDE DEF E
<1>2. ASSUME NEW j \in 1..n, \A k \in j + 1..n : k \in S PROVE j \in S
  <2> SUFFICES ASSUME a <= j, ~ Esc(s, a, j) PROVE StringFrom(E[j], s, a, c, j)
    OBVIOUS
  <2> HIDE DEF S
  <2>0. j \in a..n
    BY <1>0
  <2>1. CASE j > Len(s)
    <3>1. \A e : ~ ClosesAt(s, a, c, j, e)
      BY <1>0, <2>1 DEF ClosesAt
    <3>2. E[j] = Throw(j)
      BY <1>1, <2>0, <2>1
    <3>3. ~ E[j].ok
      BY <3>2 DEF Throw
    <3> QED
      BY <3>1, <3>3 DEF StringFrom
  <2>2. CASE j <= Len(s) /\ s[j] = c
    <3>1. E[j] = Ok(<<>>, j + 1)
      BY <1>1, <2>0, <2>2
    <3>2. ClosesAt(s, a, c, j, j) /\ \A e : ClosesAt(s, a, c, j, e) => e = j
      BY <1>0, <2>2 DEF ClosesAt
    <3>3. Listed(s, Kept(s, a, j, j)) = <<>>
      <4>1. Kept(s, a, j, j) = {}
        BY DEF Kept
      <4>2. Listed(s, {}) \in Seq(C) /\ Len(Listed(s, {})) = 0
        BY ListedType, FS_EmptySet
      <4> QED
        BY <4>1, <4>2
    <3>4. (j + 1) - 1 = j /\ j + 1 \in Int
      OBVIOUS
    <3> QED
      BY <3>1, <3>2, <3>3, <3>4 DEF StringFrom, Ok
  <2>3. CASE j = Len(s) /\ s[j] # c
    <3>1. E[j] = Prefixed(E[j + 1], s[j])
      BY <1>0, <1>1, <2>0, <2>3
    <3>2. E[j + 1] = Throw(j + 1)
      <4>1. j + 1 \in a..n /\ j + 1 > Len(s)
        BY <1>0, <2>0, <2>3
      <4> QED
        BY <1>1, <4>1
    <3>3. ~ E[j].ok
      BY <3>1, <3>2 DEF Prefixed, Then, Throw
    <3>4. \A e : ~ ClosesAt(s, a, c, j, e)
      BY <1>0, <2>3 DEF ClosesAt
    <3> QED
      BY <3>3, <3>4 DEF StringFrom
  <2>4. CASE j < Len(s) /\ s[j] # c /\ s[j] = Backslash
    <3>0. j \in a..Len(s) /\ j \in 1..Len(s)
      BY <1>0, <2>0, <2>4
    <3>1. Continues(s, a, c, j, j + 2)
      BY <2>4, <3>0, EndsLater
    <3> DEFINE k == j + 2
    <3>2. k \in j + 1..n /\ k \in 1..n /\ a <= k /\ k - 1 = j + 1
      BY <1>0, <2>0, <2>4
    <3>3. StringFrom(E[k], s, a, c, k)
      BY <1>2, <3>1, <3>2 DEF S, Continues
    <3>4. E[j] = Prefixed(E[k], s[j + 1])
      BY <1>1, <2>0, <2>4
    <3> HIDE DEF k
    <3>5. StringFrom(Prefixed(E[k], s[k - 1]), s, a, c, j)
      BY <3>0, <3>1, <3>2, <3>3, StringLonger DEF n, k
    <3> QED
      BY <3>2, <3>4, <3>5
  <2>5. CASE j < Len(s) /\ s[j] # c /\ s[j] # Backslash
    <3>0. j \in a..Len(s) /\ j \in 1..Len(s)
      BY <1>0, <2>0, <2>5
    <3>1. Continues(s, a, c, j, j + 1)
      BY <2>5, <3>0, EndsLater
    <3> DEFINE k == j + 1
    <3>2. k \in j + 1..n /\ k \in 1..n /\ a <= k /\ k - 1 = j
      BY <1>0, <2>0, <2>5
    <3>3. StringFrom(E[k], s, a, c, k)
      BY <1>2, <3>1, <3>2 DEF S, Continues
    <3>4. E[j] = Prefixed(E[k], s[j])
      BY <1>0, <1>1, <2>0, <2>5
    <3> HIDE DEF k
    <3>5. StringFrom(Prefixed(E[k], s[k - 1]), s, a, c, j)
      BY <3>0, <3>1, <3>2, <3>3, StringLonger DEF n, k
    <3> QED
      BY <3>2, <3>4, <3>5
  <2>6. j > Len(s) \/ (j <= Len(s) /\ (j = Len(s) \/ j < Len(s)))
    <3> HIDE DEF n
    <3>1. j \in Int /\ Len(s) \in Int
      BY <1>0, <2>0
    <3> QED
      BY <3>1
  <2> QED
    BY <2>1, <2>2, <2>3, <2>4, <2>5, <2>6
<1>3. \A j \in 1..n : j \in S
  <2> HIDE DEF S, n
  <2> QED
    BY <1>0, <1>2, Downwards
<1>4. ~ Esc(s, a, a) /\ a \in 1..n /\ a <= a
  BY DEF Esc
<1> QED
  BY <1>3, <1>4 DEF E

LEMMA BodyKept ==
  ASSUME NEW C, NEW s \in Seq(C), NEW i \in 1..Len(s), NEW e \in i + 1..Len(s)
  PROVE  Unescaped(Body(SubSeq(s, i, e))) = Listed(s, Kept(s, i + 1, i + 1, e))
<1> DEFINE w == SubSeq(s, i, e)
           b == Body(w)
           a == i + 1
           K == {m \in DOMAIN b : b[m] # Backslash \/ Escaped(b, m)}
           H == Kept(s, a, a, e)
           move == [m \in K |-> m + a - 1]
<1>1. w \in Seq(C) /\ Len(w) = e - i + 1 /\ \A k \in 1..e - i + 1 : w[k] = s[k + i - 1]
  OBVIOUS
<1> HIDE DEF w
<1>2. b \in Seq(C) /\ Len(b) = e - a /\ DOMAIN b = 1..e - a /\ \A k \in 1..e - a : b[k] = s[k + a - 1]
  BY <1>1 DEF Body
<1> HIDE DEF b
<1>3. ASSUME NEW m \in 1..e - a PROVE Escaped(b, m) <=> Esc(s, a, m + a - 1)
  <2>1. m \in 1..(e - a) + 1 /\ a \in Nat \ {0} /\ e - a \in Nat
    OBVIOUS
  <2> QED
    BY <1>2, <2>1, EscPart
<1>4. Unescaped(b) = Listed(b, K)
  BY Zenon DEF Unescaped, Listed, Backslash
<1>5. K \in SUBSET (1..Len(b)) /\ H \in SUBSET (1..Len(s))
  BY <1>2 DEF Kept
<1>6. ASSUME NEW m \in 1..e - a PROVE m \in K <=> m + a - 1 \in H
  <2>1. m + a - 1 \in a..e - 1 /\ m \in DOMAIN b
    BY <1>2
  <2> QED
    BY <1>2, <1>3, <2>1 DEF Kept
<1>7. \A p \in H : p - a + 1 \in K /\ (p - a + 1) + a - 1 = p
  <2> TAKE p \in H
  <2>1. p \in a..e - 1
    BY DEF Kept
  <2>2. p - a + 1 \in 1..e - a /\ (p - a + 1) + a - 1 = p
    BY <2>1
  <2> QED
    BY <1>6, <2>2
<1>8. \A m \in K : m \in 1..e - a /\ m + a - 1 \in H
  BY <1>2, <1>6
<1> HIDE DEF K, H
<1>9. Moves(move, K, H)
  BY <1>7, <1>8 DEF Moves
<1>10. \A m \in K : s[move[m]] = b[m]
  BY <1>2, <1>8
<1> HIDE DEF move
<1>11. Listed(b, K) = Listed(s, H)
  BY <1>2, <1>5, <1>9, <1>10, ListedMoved
<1> QED
  BY <1>4, <1>11 DEF H, b, w

LEMMA CutString ==
  ASSUME NEW C, NEW s \in Seq(C), NEW i \in 1..Len(s), s[i] \in Quote
  PROVE  OneCut(s, i, StringEnd(s, i + 1, s[i]))
<1> DEFINE a == i + 1
           c == s[i]
           r == EndTable(s, a, c)[a]
           t == StringEnd(s, a, c)
<1>1. StringFrom(r, s, a, c, a)
  <2>1. a \in 1..Len(s) + 1 /\ c # Backslash
    BY CharactersApart
  <2> QED
    BY <2>1, EndsWhere
<1>2. (t.ok <=> r.ok) /\ (r.ok => t.pos = r.pos /\ t.node = Word("STRING", r.node))
  <2>1. t = Then(r, LAMBDA out, k : Ok(Word("STRING", out), k))
    BY StringEndByTable
  <2> HIDE DEF t, r
  <2> QED
    BY <2>1 DEF Then, Ok
<1> HIDE DEF r, t
<1>3. ASSUME NEW j \in i..Len(s)
      PROVE  /\ j \in Cuts(s, i)
             /\ TokenOf(SubSeq(s, i, j)) # {} => ClosesAt(s, a, c, a, j)
             /\ ClosesAt(s, a, c, a, j) =>
                  TokenOf(SubSeq(s, i, j)) = {Word("STRING", Listed(s, Kept(s, a, a, j)))}
  <2> DEFINE w == SubSeq(s, i, j)
  <2>1. w \in Seq(C) /\ Len(w) > 0 /\ w[1] = c
    BY Parts
  <2>2. IsString(w) <=> ClosesAt(s, a, c, a, j)
    BY StringCloses
  <2>3. ClosesAt(s, a, c, a, j) => Unescaped(Body(w)) = Listed(s, Kept(s, a, a, j))
    <3> SUFFICES ASSUME ClosesAt(s, a, c, a, j)
                 PROVE  Unescaped(Body(w)) = Listed(s, Kept(s, a, a, j))
      OBVIOUS
    <3>1. j \in i + 1..Len(s)
      BY DEF ClosesAt
    <3> QED
      BY <3>1, BodyKept
  <2> HIDE DEF w
  <2>4. TokenOf(w) = IF IsString(w) THEN {Word("STRING", Unescaped(Body(w)))} ELSE {}
    BY <2>1, TokensOf
  <2>5. w[1] \notin Letter \cup Digit \cup Sign
    BY <2>1, CharactersApart
  <2>6. ~ GoesOn(w, s[j + 1])
    BY <2>1, <2>5, Going
  <2> QED
    BY <2>2, <2>3, <2>4, <2>6 DEF w, Cuts
<1>4. ASSUME t.ok
      PROVE  /\ t.pos \in Int /\ t.pos - 1 \in Cuts(s, i)
             /\ TokenOf(SubSeq(s, i, t.pos - 1)) = {t.node}
  <2>1. /\ t.pos \in Int /\ ClosesAt(s, a, c, a, t.pos - 1)
        /\ t.node = Word("STRING", Listed(s, Kept(s, a, a, t.pos - 1)))
    BY <1>1, <1>2, <1>4 DEF StringFrom
  <2>2. t.pos - 1 \in i..Len(s)
    BY <2>1 DEF ClosesAt
  <2> QED
    BY <1>3, <2>1, <2>2
<1>5. ASSUME NEW j \in Cuts(s, i), TokenOf(SubSeq(s, i, j)) # {} PROVE t.ok /\ j = t.pos - 1
  <2>1. j \in i..Len(s)
    BY DEF Cuts
  <2>2. ClosesAt(s, a, c, a, j)
    BY <1>3, <1>5, <2>1
  <2> QED
    BY <1>1, <1>2, <2>1, <2>2 DEF StringFrom
<1>6. OneCut(s, i, t)
  BY <1>4, <1>5 DEF OneCut
<1> QED
  BY <1>6 DEF t

LEMMA TokenCut ==
  ASSUME NEW C, NEW s \in Seq(C), NEW i \in 1..Len(s)
  PROVE  OneCut(s, i, NextToken(s, i))
BY CutString, NextCut

-----------------------------------------------------------------------------
(* The tables of tokenize() and of the readings of a text.                 *)
Follow(r, tokens) == Then(r, LAMBDA token, j : Prefixed(tokens[j], token))

TokenStep(tokens, s, i) ==
  IF i > Len(s) THEN Ok(<<Token("EOF")>>, i)
  ELSE IF s[i] \in Space THEN tokens[i + 1] ELSE Follow(NextToken(s, i), tokens)

TokenTable(s) == CHOOSE t : t = [i \in 1..Len(s) + 1 |-> TokenStep(t, s, i)]

ReadStep(readings, s, i) ==
  IF i > Len(s) THEN {<<Token("EOF")>>}
  ELSE (IF s[i] \in Space THEN readings[i + 1] ELSE {})
       \cup UNION {Sequels(TokenOf(SubSeq(s, i, j)), readings[j + 1]) : j \in Cuts(s, i)}

ReadTable(s) == CHOOSE t : t = [i \in 1..Len(s) + 1 |-> ReadStep(t, s, i)]

LEMMA TokenizeByTable == \A s : Tokenize(s) = TokenTable(s)[1]
BY Zenon DEF Tokenize, TokenTable, TokenStep, Follow, Prefixed

LEMMA ReadingsByTable == \A s : Readings(s) = ReadTable(s)[1]
BY Zenon DEF Readings, ReadTable, ReadStep, Cuts

(* Each entry depends on later ones only.                                  *)
LEMMA TokenStepLater ==
  ASSUME NEW C, NEW s \in Seq(C), NEW i \in 1..Len(s) + 1, NEW g, NEW h,
         \A j \in i + 1..Len(s) + 1 : g[j] = h[j]
  PROVE  TokenStep(g, s, i) = TokenStep(h, s, i)
<1> DEFINE r == NextToken(s, i)
<1>1. CASE i > Len(s)
  BY <1>1 DEF TokenStep
<1>2. CASE i <= Len(s)
  <2>1. i \in 1..Len(s) /\ i + 1 \in i + 1..Len(s) + 1
    BY <1>2
  <2>2. OneCut(s, i, r)
    BY <2>1, TokenCut
  <2> HIDE DEF r
  <2>3. r.ok => r.pos \in i + 1..Len(s) + 1
    <3>1. r.ok => r.pos \in Int /\ r.pos - 1 \in i..Len(s)
      BY <2>2 DEF OneCut, Cuts
    <3> QED
      BY <3>1
  <2>4. r.ok => g[r.pos] = h[r.pos]
    BY <2>3
  <2>5. Follow(r, g) = Follow(r, h)
    BY <2>4 DEF Follow, Then
  <2>6. g[i + 1] = h[i + 1]
    BY <2>1
  <2> QED
    BY <1>2, <2>5, <2>6 DEF TokenStep, r
<1> QED
  BY <1>1, <1>2

LEMMA ReadStepLater ==
  ASSUME NEW C, NEW s \in Seq(C), NEW i \in 1..Len(s) + 1, NEW g, NEW h,
         \A j \in i + 1..Len(s) + 1 : g[j] = h[j]
  PROVE  ReadStep(g, s, i) = ReadStep(h, s, i)
<1>1. CASE i > Len(s)
  BY <1>1 DEF ReadStep
<1>2. CASE i <= Len(s)
  <2>1. g[i + 1] = h[i + 1]
    BY <1>2
  <2>2. \A j \in Cuts(s, i) : g[j + 1] = h[j + 1]
    <3> TAKE j \in Cuts(s, i)
    <3>1. j + 1 \in i + 1..Len(s) + 1
      BY DEF Cuts
    <3> QED
      BY <3>1
  <2>3. UNION {Sequels(TokenOf(SubSeq(s, i, j)), g[j + 1]) : j \in Cuts(s, i)}
          = UNION {Sequels(TokenOf(SubSeq(s, i, j)), h[j + 1]) : j \in Cuts(s, i)}
    BY <2>2
  <2> QED
    BY <2>1, <2>3 DEF ReadStep
<1> QED
  BY <1>1, <1>2

LEMMA TokenTableExists ==
  ASSUME NEW C, NEW s \in Seq(C)
  PROVE  TokenTable(s) = [i \in 1..Len(s) + 1 |-> TokenStep(TokenTable(s), s, i)]
<1> DEFINE n == Len(s) + 1
           S == {a \in 1..n : \E g : g = [i \in a..n |-> TokenStep(g, s, i)]}
<1>0. n \in Nat /\ n = Len(s) + 1 /\ 1 \in 1..n
  OBVIOUS
<1>1. ASSUME NEW a \in 1..n, \A i \in a + 1..n : i \in S PROVE a \in S
  <2> HIDE DEF n
  <2>1. \E g : g = [i \in a + 1..n |-> TokenStep(g, s, i)]
    <3>1. CASE a = n
      <4>1. [k \in {} |-> k] = [i \in a + 1..n |-> TokenStep([k \in {} |-> k], s, i)]
        BY <1>0, <3>1
      <4> QED
        BY <4>1
    <3>2. CASE a < n
      <4>1. a + 1 \in S
        BY <1>0, <1>1, <3>2
      <4> QED
        BY <4>1
    <3> QED
      BY <1>0, <3>1, <3>2
  <2>2. PICK g : g = [i \in a + 1..n |-> TokenStep(g, s, i)]
    BY <2>1
  <2> DEFINE h == [i \in a..n |-> IF i = a THEN TokenStep(g, s, a) ELSE g[i]]
  <2>3. ASSUME NEW i \in a + 1..n PROVE h[i] = g[i] /\ g[i] = TokenStep(g, s, i)
    <3>1. g[i] = TokenStep(g, s, i)
      BY <2>2, Zenon
    <3>2. i \in a..n /\ i # a
      BY <1>0
    <3> QED
      BY <3>1, <3>2
  <2>4. h[a] = TokenStep(g, s, a)
    BY <1>0
  <2> HIDE DEF h
  <2>5. ASSUME NEW i \in a..n PROVE h[i] = TokenStep(h, s, i)
    <3>1. i \in 1..Len(s) + 1 /\ \A j \in i + 1..Len(s) + 1 : j \in a + 1..n
      BY <1>0
    <3>2. \A j \in i + 1..Len(s) + 1 : g[j] = h[j]
      BY <2>3, <3>1
    <3>3. TokenStep(g, s, i) = TokenStep(h, s, i)
      BY <3>1, <3>2, TokenStepLater
    <3>4. h[i] = TokenStep(g, s, i)
      BY <1>0, <2>3, <2>4
    <3> QED
      BY <3>3, <3>4
  <2>6. h = [i \in a..n |-> h[i]]
    BY DEF h
  <2>7. h = [i \in a..n |-> TokenStep(h, s, i)]
    BY <2>5, <2>6
  <2> QED
    BY <2>7
<1>2. \A a \in 1..n : a \in S
  <2> HIDE DEF S, n
  <2> QED
    BY <1>0, <1>1, Downwards
<1>3. \E g : g = [i \in 1..Len(s) + 1 |-> TokenStep(g, s, i)]
  BY <1>0, <1>2
<1> QED
  BY <1>3 DEF TokenTable

LEMMA ReadTableExists ==
  ASSUME NEW C, NEW s \in Seq(C)
  PROVE  ReadTable(s) = [i \in 1..Len(s) + 1 |-> ReadStep(ReadTable(s), s, i)]
<1> DEFINE n == Len(s) + 1
           S == {a \in 1..n : \E g : g = [i \in a..n |-> ReadStep(g, s, i)]}
<1>0. n \in Nat /\ n = Len(s) + 1 /\ 1 \in 1..n
  OBVIOUS
<1>1. ASSUME NEW a \in 1..n, \A i \in a + 1..n : i \in S PROVE a \in S
  <2> HIDE DEF n
  <2>1. \E g : g = [i \in a + 1..n |-> ReadStep(g, s, i)]
    <3>1. CASE a = n
      <4>1. [k \in {} |-> k] = [i \in a + 1..n |-> ReadStep([k \in {} |-> k], s, i)]
        BY <1>0, <3>1
      <4> QED
        BY <4>1
    <3>2. CASE a < n
      <4>1. a + 1 \in S
        BY <1>0, <1>1, <3>2
      <4> QED
        BY <4>1
    <3> QED
      BY <1>0, <3>1, <3>2
  <2>2. PICK g : g = [i \in a + 1..n |-> ReadStep(g, s, i)]
    BY <2>1
  <2> DEFINE h == [i \in a..n |-> IF i = a THEN ReadStep(g, s, a) ELSE g[i]]
  <2>3. ASSUME NEW i \in a + 1..n PROVE h[i] = g[i] /\ g[i] = ReadStep(g, s, i)
    <3>1. g[i] = ReadStep(g, s, i)
      BY <2>2, Zenon
    <3>2. i \in a..n /\ i # a
      BY <1>0
    <3> QED
      BY <3>1, <3>2
  <2>4. h[a] = ReadStep(g, s, a)
    BY <1>0
  <2> HIDE DEF h
  <2>5. ASSUME NEW i \in a..n PROVE h[i] = ReadStep(h, s, i)
    <3>1. i \in 1..Len(s) + 1 /\ \A j \in i + 1..Len(s) + 1 : j \in a + 1..n
      BY <1>0
    <3>2. \A j \in i + 1..Len(s) + 1 : g[j] = h[j]
      BY <2>3, <3>1
    <3>3. ReadStep(g, s, i) = ReadStep(h, s, i)
      BY <3>1, <3>2, ReadStepLater
    <3>4. h[i] = ReadStep(g, s, i)
      BY <1>0, <2>3, <2>4
    <3> QED
      BY <3>3, <3>4
  <2>6. h = [i \in a..n |-> h[i]]
    BY DEF h
  <2>7. h = [i \in a..n |-> ReadStep(h, s, i)]
    BY <2>5, <2>6
  <2> QED
    BY <2>7
<1>2. \A a \in 1..n : a \in S
  <2> HIDE DEF S, n
  <2> QED
    BY <1>0, <1>1, Downwards
<1>3. \E g : g = [i \in 1..Len(s) + 1 |-> ReadStep(g, s, i)]
  BY <1>0, <1>2
<1> QED
  BY <1>3 DEF ReadTable

(* What a text reads as, and the node of the result for it.                *)
NodeOf(r) == IF r.ok THEN {r.node} ELSE {}

LEMMA SequelsOf ==
  ASSUME NEW token, NEW r
  PROVE  /\ \A rests : Sequels({}, rests) = {}
         /\ Sequels({token}, NodeOf(r)) = NodeOf(Prefixed(r, token))
<1>1. \A rests : Sequels({}, rests) = {}
  BY DEF Sequels
<1>2. CASE r.ok
  <2>1. Prefixed(r, token).ok /\ Prefixed(r, token).node = <<token>> \o r.node
    BY <1>2 DEF Prefixed, Then, Ok
  <2>2. Sequels({token}, {r.node}) = {<<token>> \o r.node}
    BY DEF Sequels
  <2> QED
    BY <1>1, <1>2, <2>1, <2>2 DEF NodeOf
<1>3. CASE ~ r.ok
  <2>1. Prefixed(r, token) = r
    BY <1>3 DEF Prefixed, Then
  <2>2. Sequels({token}, {}) = {}
    BY DEF Sequels
  <2> QED
    BY <1>1, <1>3, <2>1, <2>2 DEF NodeOf
<1> QED
  BY <1>2, <1>3

LEMMA TextCut ==
  ASSUME NEW C, NEW s \in Seq(C)
  PROVE  Readings(s) = NodeOf(Tokenize(s))
<1> DEFINE n == Len(s) + 1
           T == TokenTable(s)
           R == ReadTable(s)
           S == {i \in 1..n : R[i] = NodeOf(T[i])}
<1>0. n \in Nat /\ n = Len(s) + 1 /\ 1 \in 1..n
  OBVIOUS
<1>1. T = [i \in 1..n |-> TokenStep(T, s, i)] /\ R = [i \in 1..n |-> ReadStep(R, s, i)]
  BY TokenTableExists, ReadTableExists
<1> HIDE DEF T, R
<1>2. \A i \in 1..n : T[i] = TokenStep(T, s, i) /\ R[i] = ReadStep(R, s, i)
  BY <1>1, Zenon
<1>3. ASSUME NEW i \in 1..n, \A j \in i + 1..n : j \in S PROVE i \in S
  <2> DEFINE rest == UNION {Sequels(TokenOf(SubSeq(s, i, j)), R[j + 1]) : j \in Cuts(s, i)}
  <2>1. CASE i > Len(s)
    <3>1. T[i] = Ok(<<Token("EOF")>>, i) /\ R[i] = {<<Token("EOF")>>}
      BY <1>2, <2>1 DEF TokenStep, ReadStep
    <3>2. \A node : NodeOf(Ok(node, i)) = {node}
      BY DEF NodeOf, Ok
    <3> QED
      BY <3>1, <3>2
  <2>2. CASE i <= Len(s) /\ s[i] \in Space
    <3>1. T[i] = T[i + 1] /\ R[i] = R[i + 1] \cup rest
      <4>1. ~ (i > Len(s))
        BY <1>0, <2>2
      <4> QED
        BY <1>2, <2>2, <4>1, Zenon DEF TokenStep, ReadStep
    <3>2. ASSUME NEW j \in Cuts(s, i) PROVE TokenOf(SubSeq(s, i, j)) = {}
      <4>1. i \in 1..Len(s) /\ j \in i..Len(s)
        BY <2>2 DEF Cuts
      <4> DEFINE w == SubSeq(s, i, j)
      <4>2. w \in Seq(C) /\ Len(w) > 0 /\ w[1] = s[i]
        BY <4>1, Parts
      <4> HIDE DEF w
      <4>3. TokenOf(w) = {}
        BY <2>2, <4>2, TokensOf
      <4> QED
        BY <4>3 DEF w
    <3>3. rest = {}
      BY <3>2, SequelsOf
    <3>4. R[i + 1] = NodeOf(T[i + 1])
      BY <1>0, <1>3, <2>2
    <3> QED
      BY <3>1, <3>3, <3>4
  <2>3. CASE i <= Len(s) /\ s[i] \notin Space
    <3> DEFINE r == NextToken(s, i)
    <3>0. i \in 1..Len(s)
      BY <1>0, <2>3
    <3>1. OneCut(s, i, r)
      BY <3>0, TokenCut
    <3>2. T[i] = Follow(r, T) /\ R[i] = rest
      <4>1. ~ (i > Len(s))
        BY <1>0, <2>3
      <4>2. ReadStep(R, s, i) = {} \cup rest
        BY <2>3, <4>1, Zenon DEF ReadStep
      <4> QED
        BY <1>2, <2>3, <4>1, <4>2, Zenon DEF TokenStep
    <3> HIDE DEF r
    <3>3. CASE r.ok
      <4> DEFINE p == r.pos - 1
      <4>1. p \in Cuts(s, i) /\ TokenOf(SubSeq(s, i, p)) = {r.node} /\ r.pos \in Int
        BY <3>1, <3>3 DEF OneCut
      <4>2. p \in i..Len(s) /\ p + 1 = r.pos /\ r.pos \in i + 1..n
        BY <1>0, <4>1 DEF Cuts
      <4>3. R[r.pos] = NodeOf(T[r.pos])
        BY <1>3, <4>2
      <4>4. \A j \in Cuts(s, i) : j # p => Sequels(TokenOf(SubSeq(s, i, j)), R[j + 1]) = {}
        BY <3>1, SequelsOf DEF OneCut
      <4>5. Sequels(TokenOf(SubSeq(s, i, p)), R[p + 1]) = NodeOf(Prefixed(T[r.pos], r.node))
        BY <4>1, <4>2, <4>3, SequelsOf
      <4> HIDE DEF p
      <4>6. rest = NodeOf(Prefixed(T[r.pos], r.node))
        BY <4>1, <4>4, <4>5
      <4>7. Follow(r, T) = Prefixed(T[r.pos], r.node)
        BY <3>3 DEF Follow, Then
      <4> QED
        BY <3>2, <4>6, <4>7
    <3>4. CASE ~ r.ok
      <4>1. \A j \in Cuts(s, i) : Sequels(TokenOf(SubSeq(s, i, j)), R[j + 1]) = {}
        BY <3>1, <3>4, SequelsOf DEF OneCut
      <4>2. rest = {}
        BY <4>1
      <4>3. Follow(r, T) = r
        BY <3>4 DEF Follow, Then
      <4> QED
        BY <3>2, <3>4, <4>2, <4>3 DEF NodeOf
    <3> QED
      BY <3>3, <3>4
  <2> QED
    BY <1>0, <2>1, <2>2, <2>3
<1>4. \A i \in 1..n : i \in S
  <2> HIDE DEF S, n
  <2> QED
    BY <1>0, <1>3, Downwards
<1> QED
  BY <1>0, <1>4, TokenizeByTable, ReadingsByTable DEF T, R

TypedText == text \in Seq(Characters)

(* For every set of characters and texts of any length, tokenize() cuts a  *)
(* text exactly as it can be read.                                         *)
THEOREM EngineCutsIntoTokens == Spec => []CutsIntoTokens
<1>1. Init => TypedText
  BY DEF Init, TypedText
<1>2. TypedText /\ [Next]_vars => TypedText'
  BY DEF Next, TypeCharacter, Type, Run, Judge, vars, TypedText
<1>3. TypedText => CutsIntoTokens
  BY TextCut DEF TypedText, CutsIntoTokens, NodeOf
<1> QED
  BY <1>1, <1>2, <1>3, PTL DEF Spec
=============================================================================
