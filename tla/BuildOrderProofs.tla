------------------------- MODULE BuildOrderProofs --------------------------
(***************************************************************************)
(* Proofs about BuildOrder, for every finite set of files and every graph  *)
(* without self-edges.  The main result: get_build_order never lists a     *)
(* file twice and lists each file only after every file that includes it, *)
(* and its in-degree counts never go below zero.  It rests on the          *)
(* inductive invariant IInv of BuildOrder: each count equals the number of *)
(* includers whose edge the for loop has not yet passed.                   *)
(***************************************************************************)
EXTENDS BuildOrder, FiniteSetTheorems, TLAPS

(* The facts about Append that the Dequeue and Relax steps use.            *)
LEMMA AppendFacts ==
    ASSUME NEW s \in Seq(Node), NEW x \in Node
    PROVE  /\ Append(s, x) \in Seq(Node)
           /\ Len(Append(s, x)) = Len(s) + 1
           /\ \A i \in 1..Len(s) : Append(s, x)[i] = s[i]
           /\ Append(s, x)[Len(s) + 1] = x
           /\ Range(Append(s, x)) = Range(s) \cup {x}
<1>1. /\ Append(s, x) \in Seq(Node)
      /\ Len(Append(s, x)) = Len(s) + 1
      /\ \A i \in 1..Len(s) : Append(s, x)[i] = s[i]
      /\ Append(s, x)[Len(s) + 1] = x
  OBVIOUS
<1>2. DOMAIN Append(s, x) = 1..(Len(s) + 1)
  BY <1>1
<1>. QED  BY <1>1, <1>2 DEF Range

(* The facts about Head and Tail that the Dequeue step uses.               *)
LEMMA TailFacts ==
    ASSUME NEW s \in Seq(Node), s # <<>>
    PROVE  /\ Head(s) \in Node
           /\ Tail(s) \in Seq(Node)
           /\ Len(Tail(s)) = Len(s) - 1
           /\ \A i \in 1..Len(Tail(s)) : Tail(s)[i] = s[i + 1]
           /\ Range(s) = Range(Tail(s)) \cup {Head(s)}
<1>1. /\ Head(s) \in Node
      /\ Head(s) = s[1]
      /\ Tail(s) \in Seq(Node)
      /\ Len(Tail(s)) = Len(s) - 1
      /\ \A i \in 1..Len(Tail(s)) : Tail(s)[i] = s[i + 1]
  OBVIOUS
<1>2. Range(Tail(s)) \subseteq Range(s)
  <2>. SUFFICES ASSUME NEW i \in 1..Len(Tail(s)) PROVE Tail(s)[i] \in Range(s)
    BY <1>1 DEF Range
  <2>. QED  BY <1>1 DEF Range
<1>3. Range(s) \subseteq Range(Tail(s)) \cup {Head(s)}
  <2>. SUFFICES ASSUME NEW j \in 1..Len(s), j # 1
                PROVE  s[j] \in Range(Tail(s))
    BY <1>1 DEF Range
  <2>1. j - 1 \in 1..Len(Tail(s)) /\ Tail(s)[j - 1] = s[j]
    BY <1>1
  <2>2. DOMAIN Tail(s) = 1..Len(Tail(s))
    BY <1>1
  <2>. QED  BY <2>1, <2>2, Zenon DEF Range
<1>4. Head(s) \in Range(s)
  BY <1>1 DEF Range
<1>. QED  BY <1>1, <1>2, <1>3, <1>4

(* An ordering of a finite set lists no element twice: a map from          *)
(* 1..Cardinality(S) onto S is one-to-one.                                 *)
LEMMA OrderingsDistinct ==
    ASSUME NEW S, IsFiniteSet(S), NEW q \in Orderings(S)
    PROVE  /\ Distinct(q)
           /\ Range(q) = S
           /\ q \in Seq(S)
<1>. DEFINE k == Cardinality(S)
<1>1. k \in Nat
  BY FS_CardinalityType
<1>2. q \in [1..k -> S] /\ Range(q) = S
  BY DEF Orderings
<1>3. IsFiniteSet(1..k) /\ Cardinality(1..k) = k
  BY <1>1, FS_Interval
<1>4. q \in Surjection(1..k, S)
  BY <1>2 DEF Surjection, Range
<1>5. q \in Injection(1..k, S)
  BY <1>3, <1>4, FS_SurjSameCardinalityImpliesInj
<1>6. Distinct(q)
  BY <1>2, <1>5 DEF Injection, IsInjective, Distinct
<1>7. q \in Seq(S)
  BY <1>1, <1>2
<1>. QED  BY <1>2, <1>6, <1>7

(* Every set of files is finite.                                           *)
LEMMA NodeSubsetFinite ==
    ASSUME NEW T \in SUBSET Node
    PROVE  IsFiniteSet(T) /\ Cardinality(T) \in Nat
BY NodeFinite, FS_Subset, FS_CardinalityType

(* The number of includers of n that are still waiting is zero exactly     *)
(* when no includer of n is waiting.                                       *)
LEMMA WaitingCount ==
    ASSUME NEW n \in Node
    PROVE  /\ IsFiniteSet(Waiting(n))
           /\ Cardinality(Waiting(n)) \in Nat
           /\ Cardinality(Waiting(n)) = 0 <=> Waiting(n) = {}
<1>1. Waiting(n) \in SUBSET Node
  BY DEF Waiting
<1>2. IsFiniteSet(Waiting(n)) /\ Cardinality(Waiting(n)) \in Nat
  BY <1>1, NodeSubsetFinite
<1>. QED  BY <1>2, FS_EmptySet

-----------------------------------------------------------------------------
(* Before the counting step nothing has been output and nothing is queued. *)
LEMMA InitIInv == Init => IInv
<1>. SUFFICES ASSUME Init PROVE IInv
  OBVIOUS
<1>1. TypeOK
  BY DEF Init, TypeOK
<1>2. Range(result) = {} /\ Range(queue) = {} /\ DOMAIN result = {}
  BY DEF Init, Range
<1>3. Distinct(queue) /\ IncludersFirst
  BY <1>2 DEF Init, Distinct, IncludersFirst
<1>. QED  BY <1>1, <1>2, <1>3 DEF Init, IInv

(* Lines 129-139: the counts are the numbers of includers, none of which   *)
(* has been passed yet, and the deque is seeded once with each file that   *)
(* no file includes.                                                       *)
LEMMA CountIInv == IInv /\ Count => IInv'
<1>. SUFFICES ASSUME IInv, Count PROVE IInv'
  OBVIOUS
<1>. DEFINE S == {n \in counted' : inDegree'[n] = 0}
            Includers(n) == {m \in Node : n \in dependencies[m]}
<1>1. result = <<>> /\ queue = <<>> /\ pending = {} /\ dependencies \in Graph
  BY DEF Count, IInv, TypeOK
<1>2. counted' \subseteq Node
  BY <1>1 DEF Count, Keys, Targets, Graph
<1>3. IsFiniteSet(S)
  BY <1>2, NodeSubsetFinite
<1>4. Distinct(queue') /\ Range(queue') = S /\ queue' \in Seq(S)
  BY <1>3, OrderingsDistinct DEF Count
<1>5. queue' \in Seq(Node)
  <2>. Seq(S) \subseteq Seq(Node)
    BY <1>2
  <2>. QED  BY <1>4
<1>6. Range(result') = {} /\ DOMAIN result' = {}
  BY <1>1 DEF Count, Range
<1>7. \A n \in Node : Waiting(n)' = Includers(n)
  BY <1>6, Zenon DEF Count, Waiting, Relaxed
<1>8. \A n \in Node : IsFiniteSet(Includers(n)) /\ Cardinality(Includers(n)) \in Nat
  BY NodeSubsetFinite
<1>9. \A n \in Node : inDegree'[n] = Cardinality(Includers(n))
  BY DEF Count, InDegreeOf
<1>10. TypeOK'
  <2>1. inDegree' \in [Node -> Nat]
    BY <1>8 DEF Count, InDegreeOf
  <2>2. result' \in Seq(Node) /\ pending' \subseteq Node
    BY <1>1 DEF Count
  <2>3. dependencies' \in Graph /\ phase' \in {"count", "sort", "done"}
    BY <1>1 DEF Count
  <2>. QED  BY <1>2, <1>5, <2>1, <2>2, <2>3 DEF TypeOK
<1>11. \A n \in Range(queue') : Waiting(n)' = {}
  <2>. SUFFICES ASSUME NEW n \in S PROVE Includers(n) = {}
    BY <1>2, <1>4, <1>7
  <2>1. Cardinality(Includers(n)) = 0
    BY <1>2, <1>9
  <2>. QED  BY <1>2, <1>8, <2>1, FS_EmptySet
<1>12. IncludersFirst'
  BY <1>6 DEF IncludersFirst
<1>. QED  BY <1>4, <1>6, <1>7, <1>9, <1>10, <1>11, <1>12 DEF Count, IInv

(* Lines 142-146: the popped file has no includer left to pass, so all its *)
(* includers are already output; popping it passes no edge, so every      *)
(* count still matches.                                                    *)
LEMMA DequeueIInv == IInv /\ Dequeue => IInv'
<1>. SUFFICES ASSUME IInv, Dequeue PROVE IInv'
  OBVIOUS
<1>. DEFINE h == Head(queue)
<1>0. /\ dependencies' = dependencies /\ inDegree' = inDegree
      /\ counted' = counted /\ phase' = phase
      /\ queue' = Tail(queue) /\ result' = Append(result, h)
      /\ pending' = dependencies[h]
  BY DEF Dequeue
<1>1. /\ dependencies \in Graph /\ inDegree \in [Node -> Nat]
      /\ counted \subseteq Node
      /\ queue \in Seq(Node) /\ result \in Seq(Node)
      /\ DOMAIN result = 1..Len(result) /\ DOMAIN queue = 1..Len(queue)
      /\ queue # <<>> /\ pending = {} /\ phase = "sort"
  BY DEF Dequeue, IInv, TypeOK
<1>2. /\ h \in Node /\ h = queue[1]
      /\ Tail(queue) \in Seq(Node)
      /\ Len(Tail(queue)) = Len(queue) - 1
      /\ \A i \in 1..Len(Tail(queue)) : Tail(queue)[i] = queue[i + 1]
      /\ Range(queue) = Range(Tail(queue)) \cup {h}
  BY <1>1, TailFacts
<1>3. /\ result' \in Seq(Node)
      /\ Len(result') = Len(result) + 1
      /\ DOMAIN result' = 1..(Len(result) + 1)
      /\ \A i \in 1..Len(result) : result'[i] = result[i]
      /\ result'[Len(result) + 1] = h
      /\ Range(result') = Range(result) \cup {h}
  BY <1>0, <1>1, <1>2, AppendFacts
<1>4. h \notin Range(result)
  BY <1>2 DEF IInv
<1>5. h \notin Range(Tail(queue))
  <2>. SUFFICES ASSUME NEW i \in 1..Len(Tail(queue)), Tail(queue)[i] = h
                PROVE  FALSE
    BY <1>2 DEF Range
  <2>1. i + 1 \in DOMAIN queue /\ 1 \in DOMAIN queue /\ i + 1 # 1
    BY <1>1, <1>2
  <2>. QED  BY <1>2, <2>1 DEF IInv, Distinct
<1>6. \A m \in Node : h \in dependencies[m] => m \in Range(result)
  BY <1>1, <1>2 DEF IInv, Waiting, Relaxed
<1>7. Last' = h /\ pending' = dependencies[Last']
  BY <1>0, <1>3 DEF Last
<1>8. ASSUME NEW n \in Node, NEW m \in Node, n \in dependencies[m]
      PROVE  Relaxed(m, n)' <=> Relaxed(m, n)
  <2>1. CASE m = h
    BY <1>0, <1>3, <1>4, <1>7, <2>1, <1>8 DEF Relaxed
  <2>2. CASE m # h
    BY <1>1, <1>3, <1>7, <2>2 DEF Relaxed
  <2>. QED  BY <2>1, <2>2
<1>9. \A n \in Node : Waiting(n)' = Waiting(n)
  BY <1>0, <1>8 DEF Waiting
<1>10. TypeOK'
  <2>1. pending' \subseteq Node
    BY <1>0, <1>1, <1>2 DEF Graph
  <2>. QED  BY <1>0, <1>1, <1>2, <1>3, <2>1 DEF TypeOK
<1>11. \A n \in Range(result') \cup Range(queue') : Waiting(n)' = {}
  <2>. SUFFICES ASSUME NEW n \in Range(result') \cup Range(queue')
                PROVE  Waiting(n)' = {}
    OBVIOUS
  <2>1. n \in Range(result) \cup Range(queue)
    BY <1>0, <1>2, <1>3
  <2>2. n \in Node
    BY <2>1, <1>1 DEF Range
  <2>. QED  BY <1>9, <2>1, <2>2 DEF IInv
<1>12. Distinct(queue')
  <2>. SUFFICES ASSUME NEW i \in DOMAIN Tail(queue), NEW j \in DOMAIN Tail(queue), i # j
                PROVE  Tail(queue)[i] # Tail(queue)[j]
    BY <1>0 DEF Distinct
  <2>1. i \in 1..Len(Tail(queue)) /\ j \in 1..Len(Tail(queue))
    BY <1>2
  <2>0. /\ Len(queue) \in Nat /\ DOMAIN queue = 1..Len(queue)
        /\ Len(Tail(queue)) = Len(queue) - 1
    BY <1>1, <1>2
  <2>2. i + 1 \in DOMAIN queue /\ j + 1 \in DOMAIN queue /\ i + 1 # j + 1
    BY <2>0, <2>1
  <2>. QED  BY <1>2, <2>1, <2>2 DEF IInv, Distinct
<1>13. Range(result') \cap Range(queue') = {}
  BY <1>0, <1>2, <1>3, <1>5 DEF IInv
<1>14. \A k \in 1..Len(result) : result'[k] # h
  <2>. SUFFICES ASSUME NEW k \in 1..Len(result) PROVE result[k] # h
    BY <1>3
  <2>. QED  BY <1>1, <1>4 DEF Range
<1>15. Distinct(result')
  <2>. SUFFICES ASSUME NEW i \in 1..Len(result'), NEW j \in 1..Len(result'), i # j
                PROVE  result'[i] # result'[j]
    BY <1>3 DEF Distinct
  <2>1. CASE i <= Len(result) /\ j <= Len(result)
    <3>1. i \in DOMAIN result /\ j \in DOMAIN result
      BY <1>1, <1>3, <2>1
    <3>2. result[i] # result[j]
      BY <3>1 DEF IInv, IncludersFirst
    <3>. QED  BY <1>3, <2>1, <3>2
  <2>2. CASE i = Len(result) + 1
    BY <1>3, <1>14, <2>2
  <2>3. CASE j = Len(result) + 1
    BY <1>3, <1>14, <2>3
  <2>. QED  BY <1>1, <1>3, <2>1, <2>2, <2>3
<1>16. ASSUME NEW j \in DOMAIN result', NEW m \in Node, result'[j] \in dependencies[m]
       PROVE  \E i \in 1..(j - 1) : result'[i] = m
  <2>1. CASE j <= Len(result)
    <3>1. j \in DOMAIN result /\ result[j] \in dependencies[m]
      BY <1>1, <1>3, <1>16, <2>1
    <3>2. PICK i \in 1..(j - 1) : result[i] = m
      BY <3>1 DEF IInv, IncludersFirst
    <3>3. i \in 1..Len(result)
      BY <1>3, <2>1
    <3>. QED  BY <1>3, <3>2, <3>3
  <2>2. CASE j = Len(result) + 1
    <3>1. m \in Range(result)
      BY <1>3, <1>6, <1>16, <2>2
    <3>2. \E i \in 1..Len(result) : result[i] = m
      BY <1>1, <3>1 DEF Range
    <3>. QED  BY <1>1, <1>3, <2>2, <3>2
  <2>. QED  BY <1>1, <1>3, <2>1, <2>2
<1>17. IncludersFirst'
  <2>1. \A i, j \in DOMAIN result' : i # j => result'[i] # result'[j]
    BY <1>15 DEF Distinct
  <2>. QED  BY <1>0, <1>16, <2>1 DEF IncludersFirst
<1>18. \A n \in Node : inDegree'[n] = Cardinality(Waiting(n)')
  BY <1>0, <1>1, <1>9 DEF IInv
<1>19. result' # <<>>
  BY <1>3
<1>. QED  BY <1>0, <1>1, <1>7, <1>10, <1>11, <1>12, <1>13, <1>17, <1>18, <1>19 DEF IInv

(* Lines 147-149: the neighbour nb is pending, so the last file output is  *)
(* one of its includers not yet passed; its count is therefore at least    *)
(* one, passing that edge takes exactly one off it, and a file whose count *)
(* reaches zero is neither output nor queued yet.                          *)
LEMMA RelaxIInv == IInv /\ Relax => IInv'
<1>. SUFFICES ASSUME IInv, Relax PROVE IInv'
  OBVIOUS
<1>1. PICK nb \in pending :
          /\ pending' = pending \ {nb}
          /\ inDegree' = [inDegree EXCEPT ![nb] = @ - 1]
          /\ queue' = IF inDegree'[nb] = 0 THEN Append(queue, nb) ELSE queue
  BY DEF Relax
<1>0. /\ dependencies' = dependencies /\ counted' = counted
      /\ result' = result /\ phase' = phase /\ phase = "sort"
  BY DEF Relax
<1>2. /\ dependencies \in Graph /\ inDegree \in [Node -> Nat]
      /\ counted \subseteq Node /\ pending \subseteq Node
      /\ queue \in Seq(Node) /\ result \in Seq(Node)
      /\ result # <<>> /\ pending \subseteq dependencies[Last]
  BY <1>1 DEF IInv, TypeOK
<1>3. nb \in Node /\ Last \in Node /\ Last \in Range(result)
  BY <1>1, <1>2 DEF Last, Range
<1>4. Last \in Waiting(nb)
  BY <1>1, <1>2, <1>3 DEF Waiting, Relaxed
<1>5. nb \notin Range(result) \cup Range(queue)
  BY <1>4 DEF IInv
<1>6. Waiting(nb)' = Waiting(nb) \ {Last}
  BY <1>0, <1>1, <1>3 DEF Waiting, Relaxed, Last
<1>7. \A n \in Node \ {nb} : Waiting(n)' = Waiting(n)
  BY <1>0, <1>1 DEF Waiting, Relaxed, Last
<1>8. /\ IsFiniteSet(Waiting(nb))
      /\ Cardinality(Waiting(nb)) \in Nat
      /\ Cardinality(Waiting(nb)) # 0
  BY <1>3, <1>4, WaitingCount
<1>9. Cardinality(Waiting(nb)') = Cardinality(Waiting(nb)) - 1
  BY <1>4, <1>6, <1>8, FS_RemoveElement
<1>10. inDegree[nb] = Cardinality(Waiting(nb))
  BY <1>0, <1>3 DEF IInv
<1>11. inDegree'[nb] = Cardinality(Waiting(nb)') /\ inDegree'[nb] \in Nat
  BY <1>1, <1>2, <1>3, <1>8, <1>9, <1>10
<1>12. inDegree' \in [Node -> Nat]
  BY <1>1, <1>2, <1>11
<1>13. \A n \in Node : inDegree'[n] = Cardinality(Waiting(n)')
  BY <1>0, <1>1, <1>2, <1>7, <1>11 DEF IInv
<1>. DEFINE QueueOK ==
            /\ queue' \in Seq(Node)
            /\ \A n \in Range(result') \cup Range(queue') : Waiting(n)' = {}
            /\ Distinct(queue')
            /\ Range(result') \cap Range(queue') = {}
<1>14. ASSUME inDegree'[nb] = 0 PROVE QueueOK
  <2>1. queue' = Append(queue, nb)
    BY <1>1, <1>14
  <2>2. /\ queue' \in Seq(Node)
        /\ Len(queue') = Len(queue) + 1
        /\ DOMAIN queue' = 1..(Len(queue) + 1)
        /\ \A i \in 1..Len(queue) : queue'[i] = queue[i]
        /\ queue'[Len(queue) + 1] = nb
        /\ Range(queue') = Range(queue) \cup {nb}
    BY <1>2, <1>3, <2>1, AppendFacts
  <2>3. Waiting(nb)' = {}
    <3>1. Waiting(nb)' \in SUBSET Node
      BY <1>6 DEF Waiting
    <3>. QED  BY <1>11, <1>14, <3>1, NodeSubsetFinite, FS_EmptySet
  <2>4. \A n \in Range(result') \cup Range(queue') : Waiting(n)' = {}
    <3>. SUFFICES ASSUME NEW n \in Range(result') \cup Range(queue'), n # nb
                  PROVE  Waiting(n)' = {}
      BY <2>3
    <3>1. n \in Range(result) \cup Range(queue)
      BY <1>0, <2>2
    <3>2. n \in Node
      BY <1>2, <3>1 DEF Range
    <3>. QED  BY <1>7, <3>1, <3>2 DEF IInv
  <2>5. \A k \in 1..Len(queue) : queue[k] # nb
    BY <1>2, <1>5 DEF Range
  <2>6. Distinct(queue')
    <3>. SUFFICES ASSUME NEW i \in 1..(Len(queue) + 1), NEW j \in 1..(Len(queue) + 1), i # j
                  PROVE  queue'[i] # queue'[j]
      BY <2>2 DEF Distinct
    <3>1. CASE i <= Len(queue) /\ j <= Len(queue)
      <4>1. i \in DOMAIN queue /\ j \in DOMAIN queue
        BY <1>2, <3>1
      <4>2. queue[i] # queue[j]
        BY <4>1 DEF IInv, Distinct
      <4>. QED  BY <2>2, <3>1, <4>2
    <3>2. CASE i = Len(queue) + 1
      BY <2>2, <2>5, <3>2
    <3>3. CASE j = Len(queue) + 1
      BY <2>2, <2>5, <3>3
    <3>. QED  BY <1>2, <3>1, <3>2, <3>3
  <2>7. Range(result') \cap Range(queue') = {}
    BY <1>0, <1>5, <2>2 DEF IInv
  <2>. QED  BY <2>2, <2>4, <2>6, <2>7
<1>15. ASSUME inDegree'[nb] # 0 PROVE QueueOK
  <2>1. queue' = queue
    BY <1>1, <1>15
  <2>2. \A n \in Range(result') \cup Range(queue') : Waiting(n)' = {}
    <3>. SUFFICES ASSUME NEW n \in Range(result) \cup Range(queue)
                  PROVE  Waiting(n)' = {}
      BY <1>0, <2>1
    <3>1. n \in Node /\ n # nb
      BY <1>2, <1>5 DEF Range
    <3>. QED  BY <1>7, <3>1 DEF IInv
  <2>. QED  BY <1>0, <1>2, <2>1, <2>2 DEF IInv
<1>16. QueueOK
  BY <1>14, <1>15
<1>17. TypeOK'
  <2>1. pending' \subseteq Node
    BY <1>1, <1>2
  <2>. QED  BY <1>0, <1>2, <1>12, <1>16, <2>1 DEF TypeOK
<1>18. IncludersFirst'
  BY <1>0 DEF IInv, IncludersFirst
<1>19. Last' = Last
  BY <1>0 DEF Last
<1>20. pending' \subseteq pending
  BY <1>1
<1>. QED  BY <1>0, <1>2, <1>13, <1>16, <1>17, <1>18, <1>19, <1>20 DEF IInv

(* Line 151 and after: returning changes only the phase, and no            *)
(* definition of IInv but the first two reads the phase.                   *)
LEMMA FinishIInv == IInv /\ (Finish \/ Returned \/ UNCHANGED vars) => IInv'
<1>. SUFFICES ASSUME IInv, Finish \/ Returned \/ UNCHANGED vars PROVE IInv'
  OBVIOUS
<1>1. /\ dependencies' = dependencies /\ inDegree' = inDegree
      /\ counted' = counted /\ queue' = queue
      /\ result' = result /\ pending' = pending
      /\ (phase' = phase \/ (phase = "sort" /\ phase' = "done"))
  BY DEF Finish, Returned, vars
<1>2. \A n \in Node : Waiting(n)' = Waiting(n)
  BY <1>1 DEF Waiting, Relaxed, Last
<1>3. TypeOK'
  BY <1>1 DEF IInv, TypeOK
<1>4. IncludersFirst' /\ Distinct(queue)' /\ Last' = Last
  BY <1>1 DEF IInv, IncludersFirst, Distinct, Last
<1>5. Range(result)' = Range(result) /\ Range(queue)' = Range(queue)
  BY <1>1
<1>6. phase' # "count" => phase # "count"
  BY <1>1
<1>7. phase' = "count" => phase = "count"
  BY <1>1
<1>8. phase' # "count" => \A n \in Node : inDegree'[n] = Cardinality(Waiting(n)')
  BY <1>1, <1>2, <1>6 DEF IInv
<1>9. \A n \in Range(result') \cup Range(queue') : Waiting(n)' = {}
  <2>. SUFFICES ASSUME NEW n \in Range(result) \cup Range(queue)
                PROVE  Waiting(n)' = {}
    BY <1>1
  <2>1. n \in Node
    BY DEF IInv, TypeOK, Range
  <2>. QED  BY <1>2, <2>1 DEF IInv
<1>10. /\ result' = <<>> => pending' = {}
       /\ result' # <<>> => pending' \subseteq dependencies'[Last']
       /\ Distinct(queue')
       /\ Range(result') \cap Range(queue') = {}
  BY <1>1, <1>4 DEF IInv
<1>11. phase' = "count" => result' = <<>> /\ queue' = <<>> /\ pending' = {}
  BY <1>1, <1>7 DEF IInv
<1>. QED  BY <1>3, <1>4, <1>8, <1>9, <1>10, <1>11 DEF IInv

LEMMA NextIInv == IInv /\ [Next]_vars => IInv'
BY CountIInv, DequeueIInv, RelaxIInv, FinishIInv DEF Next

(* get_build_order keeps its bookkeeping well typed: in particular no      *)
(* in_degree entry is ever decremented below zero by line 147, whatever    *)
(* the graph and whatever order the sets are iterated in.                  *)
THEOREM TypeCorrect == Spec => []TypeOK
<1>1. Init => IInv
  BY InitIInv
<1>2. IInv /\ [Next]_vars => IInv'
  BY NextIInv
<1>3. IInv => TypeOK
  BY DEF IInv
<1>. QED  BY <1>1, <1>2, <1>3, PTL DEF Spec

(* For every finite set of files and every include graph without           *)
(* self-edges, the order get_build_order builds never lists a file twice   *)
(* and lists each file only after every file that includes it.             *)
THEOREM IncludersFirstHolds == Spec => []IncludersFirst
<1>1. IInv => IncludersFirst
  BY DEF IInv
<1>. QED  BY <1>1, InitIInv, NextIInv, PTL DEF Spec

====
