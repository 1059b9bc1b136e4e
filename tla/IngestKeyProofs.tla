-------------------------- MODULE IngestKeyProofs ---------------------------
(* Proofs about IngestKey, for any number of consoles, in any order of     *)
(* their starts and stops.                                                 *)
EXTENDS IngestKey, FiniteSetTheorems, TLAPS

LEMMA InitInv == Init => IInv
<1> SUFFICES ASSUME Init PROVE IInv
  OBVIOUS
<1>1. TypeOK
  <2>1. MaxKeys \in Nat
    BY IngestKeyAssumption
  <2>2. generated \in 0..MaxKeys /\ content \in 0..generated
    BY <2>1 DEF Init
  <2>3. served \subseteq 0..generated /\ present \in BOOLEAN
    BY DEF Init
  <2>4. pc \in [Console -> {"down", "exists", "read", "generate", "open", "write", "serving"}]
    BY DEF Init
  <2>5. key \in [Console -> 0..generated]
    BY <2>2 DEF Init
  <2> QED
    BY <2>2, <2>3, <2>4, <2>5 DEF TypeOK
<1>2. FileInv
  <2>1. served \ {0} = {} /\ Making = {}
    BY DEF Init, Making
  <2>2. Cardinality({}) = 0 /\ Cardinality(Console) \in Nat
    BY FS_EmptySet, FS_CardinalityType, IngestKeyAssumption
  <2> QED
    BY <2>1, <2>2 DEF Init, FileInv
<1> QED
  BY <1>1, <1>2 DEF IInv

(* What a step needs to know of the sets that are counted.                 *)
LEMMA Counted ==
  ASSUME TypeOK
  PROVE  /\ IsFiniteSet(served \ {0}) /\ Cardinality(served \ {0}) \in Nat
         /\ IsFiniteSet(Making) /\ Cardinality(Making) \in Nat
         /\ Cardinality(Console) \in Nat
<1>1. IsFiniteSet(0..generated)
  BY FS_Interval, IngestKeyAssumption DEF TypeOK
<1>2. IsFiniteSet(served \ {0})
  BY <1>1, FS_Subset DEF TypeOK
<1>3. IsFiniteSet(Making)
  BY FS_Subset, IngestKeyAssumption DEF Making
<1> QED
  BY <1>2, <1>3, FS_CardinalityType, IngestKeyAssumption

(* Before a key is served, those that make one fit, being consoles.        *)
LEMMA MakersFit ==
  ASSUME NEW kept, NEW makers, kept = {}, makers \subseteq Console
  PROVE  Cardinality(kept \ {0}) + Cardinality(makers) <= Cardinality(Console)
<1>1. kept \ {0} = {}
  OBVIOUS
<1>2. Cardinality(makers) <= Cardinality(Console) /\ IsFiniteSet(makers)
  BY FS_Subset, IngestKeyAssumption
<1>3. Cardinality({}) = 0 /\ Cardinality(makers) \in Nat /\ Cardinality(Console) \in Nat
  BY <1>2, FS_EmptySet, FS_CardinalityType, IngestKeyAssumption
<1> QED
  BY <1>1, <1>2, <1>3

LEMMA StepInv == IInv /\ [Next]_vars => IInv'
<1> SUFFICES ASSUME IInv, [Next]_vars PROVE IInv'
  OBVIOUS
<1> USE IngestKeyAssumption
<1>0. TypeOK /\ FileInv
  BY DEF IInv
<1>1. CASE UNCHANGED vars
  BY <1>0, <1>1 DEF vars, IInv, TypeOK, FileInv, Making
<1>2. ASSUME NEW c \in Console, Start(c) PROVE IInv'
  <2>1. TypeOK'
    BY <1>0, <1>2 DEF Start, Goto, TypeOK
  <2>2. Making' = Making
    BY <1>0, <1>2 DEF Start, Goto, TypeOK, Making
  <2> QED
    BY <1>0, <1>2, <2>1, <2>2 DEF Start, Goto, TypeOK, FileInv, IInv
<1>3. ASSUME NEW c \in Console, Exists(c) PROVE IInv'
  <2>1. TypeOK'
    BY <1>0, <1>3 DEF Exists, Goto, TypeOK
  <2>2. CASE present
    <3>1. Making' = Making
      BY <1>0, <1>3, <2>2 DEF Exists, Goto, TypeOK, Making
    <3> QED
      BY <1>0, <1>3, <2>1, <2>2, <3>1 DEF Exists, Goto, TypeOK, FileInv, IInv
  <2>3. CASE ~ present
    <3>1. served' = {}
      BY <1>0, <1>3, <2>3 DEF Exists, FileInv
    <3>2. Cardinality(served' \ {0}) + Cardinality(Making') <= Cardinality(Console)
      <4>1. Making' \subseteq Console
        BY DEF Making
      <4> QED
        BY <3>1, <4>1, MakersFit
    <3> QED
      BY <1>0, <1>3, <2>1, <2>3, <3>2 DEF Exists, Goto, TypeOK, FileInv, IInv
  <2> QED
    BY <2>2, <2>3
<1>4. ASSUME NEW c \in Console, ReadKey(c) PROVE IInv'
  <2>1. TypeOK'
    BY <1>0, <1>4 DEF ReadKey, Serve, Goto, TypeOK
  <2>2. Making' = Making
    BY <1>0, <1>4 DEF ReadKey, Serve, Goto, TypeOK, Making
  <2>3. served' \ {0} = served \ {0}
    BY <1>0, <1>4 DEF ReadKey, Serve, FileInv
  <2> QED
    BY <1>0, <1>4, <2>1, <2>2, <2>3 DEF ReadKey, Serve, Goto, TypeOK, FileInv, IInv
<1>5. ASSUME NEW c \in Console, Generate(c) \/ OpenKeyFile(c) PROVE IInv'
  <2>1. TypeOK'
    <3>1. CASE Generate(c)
      <4>1. generated' = generated + 1 /\ generated \in Nat /\ generated' \in 0..MaxKeys
        BY <1>0, <3>1 DEF Generate, TypeOK
      <4>2. 0..generated \subseteq 0..generated' /\ generated' \in 0..generated'
        BY <4>1
      <4>3. key' \in [Console -> 0..generated'] /\ content' \in 0..generated'
        BY <1>0, <3>1, <4>1, <4>2 DEF Generate, TypeOK
      <4>4. served' \subseteq 0..generated' /\ present' \in BOOLEAN
        BY <1>0, <3>1, <4>2 DEF Generate, TypeOK
      <4>5. pc' \in [Console -> {"down", "exists", "read", "generate", "open", "write", "serving"}]
        BY <1>0, <3>1 DEF Generate, Goto, TypeOK
      <4> QED
        BY <4>1, <4>3, <4>4, <4>5 DEF TypeOK
    <3>2. CASE OpenKeyFile(c)
      BY <1>0, <3>2 DEF OpenKeyFile, Goto, TypeOK
    <3> QED
      BY <1>5, <3>1, <3>2
  <2>2. Making' = Making
    BY <1>0, <1>5 DEF Generate, OpenKeyFile, Goto, TypeOK, Making
  <2> QED
    BY <1>0, <1>5, <2>1, <2>2 DEF Generate, OpenKeyFile, Goto, TypeOK, FileInv, IInv
<1>6. ASSUME NEW c \in Console, WriteKey(c) PROVE IInv'
  <2>1. TypeOK'
    BY <1>0, <1>6 DEF WriteKey, Serve, Goto, TypeOK
  <2>2. Making' = Making \ {c} /\ c \in Making
    BY <1>0, <1>6 DEF WriteKey, Serve, Goto, TypeOK, Making
  <2>3. Cardinality(Making') = Cardinality(Making) - 1
    BY <1>0, <2>2, Counted, FS_RemoveElement
  <2>4. served' \ {0} \subseteq (served \ {0}) \cup {key[c]}
    BY <1>6 DEF WriteKey, Serve
  <2>5. Cardinality(served' \ {0}) <= Cardinality(served \ {0}) + 1
    <3> DEFINE more == (served \ {0}) \cup {key[c]}
    <3>0. IsFiniteSet(served \ {0}) /\ Cardinality(served \ {0}) \in Nat
      BY <1>0, Counted
    <3>1. IsFiniteSet(more) /\ Cardinality(more) <= Cardinality(served \ {0}) + 1
      <4>1. CASE key[c] \in served \ {0}
        <5>1. more = served \ {0}
          BY <4>1
        <5> HIDE DEF more
        <5> QED
          BY <3>0, <5>1
      <4>2. CASE key[c] \notin served \ {0}
        <5>1. IsFiniteSet(more) /\ Cardinality(more) = Cardinality(served \ {0}) + 1
          BY <3>0, <4>2, FS_AddElement
        <5> HIDE DEF more
        <5> QED
          BY <3>0, <5>1
      <4> QED
        BY <4>1, <4>2
    <3>2. Cardinality(served' \ {0}) <= Cardinality(more)
      BY <2>4, <3>1, FS_Subset
    <3>3. Cardinality(more) \in Nat /\ Cardinality(served' \ {0}) \in Nat
      BY <2>4, <3>1, FS_Subset, FS_CardinalityType
    <3> HIDE DEF more
    <3> QED
      BY <1>0, <3>1, <3>2, <3>3, Counted
  <2>6. Cardinality(served' \ {0}) + Cardinality(Making') <= Cardinality(Console)
    <3>1. Cardinality(served \ {0}) + Cardinality(Making) <= Cardinality(Console)
      BY <1>0 DEF FileInv
    <3>2. Cardinality(served' \ {0}) \in Nat
      <4>1. IsFiniteSet(served' \ {0})
        BY <1>0, <2>4, Counted, FS_AddElement, FS_Subset
      <4> QED
        BY <4>1, FS_CardinalityType
    <3> QED
      BY <1>0, <2>3, <2>5, <3>1, <3>2, Counted
  <2>7. present /\ content' = key[c] /\ key[c] \in served'
    BY <1>0, <1>6 DEF WriteKey, Serve, FileInv
  <2> QED
    BY <1>0, <1>6, <2>1, <2>6, <2>7 DEF WriteKey, Serve, Goto, TypeOK, FileInv, IInv
<1>7. ASSUME NEW c \in Console, Stop(c) PROVE IInv'
  <2>1. TypeOK'
    BY <1>0, <1>7 DEF Stop, Goto, TypeOK
  <2>2. Making' \subseteq Making
    BY <1>0, <1>7 DEF Stop, Goto, TypeOK, Making
  <2>3. Cardinality(Making') <= Cardinality(Making) /\ Cardinality(Making') \in Nat
    BY <1>0, <2>2, Counted, FS_Subset, FS_CardinalityType
  <2>4. Cardinality(served' \ {0}) + Cardinality(Making') <= Cardinality(Console)
    BY <1>0, <1>7, <2>3, Counted DEF Stop, FileInv
  <2> QED
    BY <1>0, <1>7, <2>1, <2>4 DEF Stop, Goto, TypeOK, FileInv, IInv
<1> QED
  BY <1>1, <1>2, <1>3, <1>4, <1>5, <1>6, <1>7 DEF Next

(* Every reachable state satisfies the invariant.                          *)
THEOREM InvCorrect == Spec => []IInv
  BY InitInv, StepInv, PTL DEF Spec

(* However the starts of consoles interleave and wherever they are         *)
(* stopped, each makes at most one key that is served with.                *)
THEOREM OneKeyEachCorrect == Spec => []OneKeyEach
<1>1. IInv => OneKeyEach
  <2> SUFFICES ASSUME IInv PROVE OneKeyEach
    OBVIOUS
  <2>1. Cardinality(served \ {0}) + Cardinality(Making) <= Cardinality(Console)
    BY DEF IInv, FileInv
  <2> QED
    BY <2>1, Counted DEF IInv, OneKeyEach
<1> QED
  BY <1>1, InvCorrect, PTL

(* A file that nobody is on the way to write keeps its key for good, and   *)
(* every console that starts serves with it.                               *)
THEOREM KeyStaysCorrect == Spec => KeyStays
<1> DEFINE Kept == Settled => /\ Settled' /\ content' = content
                              /\ served' \subseteq served \cup {content}
<1>1. ASSUME IInv, Next, Settled PROVE Kept
  <2>1. PICK c \in Console :
          \/ Start(c) \/ Exists(c) \/ ReadKey(c) \/ Generate(c)
          \/ OpenKeyFile(c) \/ WriteKey(c) \/ Stop(c)
    BY <1>1 DEF Next
  <2>2. c \notin Making /\ present
    BY <1>1 DEF Settled
  <2>3. Start(c) \/ Exists(c) \/ ReadKey(c) \/ Stop(c)
    BY <2>1, <2>2 DEF Making, Generate, OpenKeyFile, WriteKey
  <2>4. UNCHANGED <<present, content>> /\ served' \subseteq served \cup {content}
    BY <2>3 DEF Start, Exists, ReadKey, Serve, Stop
  <2>5. pc'[c] \notin {"generate", "open", "write"} /\ \A d \in Console : d # c => pc'[d] = pc[d]
    BY <1>1, <2>2, <2>3 DEF Start, Exists, ReadKey, Serve, Stop, Goto, IInv, TypeOK
  <2>6. Making' = {}
    BY <1>1, <2>5 DEF Making, Settled
  <2> QED
    BY <2>2, <2>4, <2>6 DEF Settled
<1>2. IInv /\ [Next]_vars => [Kept]_vars
  BY <1>1
<1>3. Spec => [][Kept]_vars
  BY <1>2, InvCorrect, PTL DEF Spec
<1> QED
  BY <1>3 DEF KeyStays
=============================================================================
