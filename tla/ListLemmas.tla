----------------------------- MODULE ListLemmas -----------------------------
(***************************************************************************)
(* Taking an entry out of a list: rm_server() of the Linux client unlinks  *)
(* one node, Vector.removeElement() of the Java client takes out the first *)
(* that is the object.  Both are RemoveFirst here.                         *)
(***************************************************************************)
EXTENDS Integers, Sequences, SequencesExt, SequenceTheorems, TLAPS

\* No entry is on the list twice.
Once(list) == \A i, j \in DOMAIN list : list[i] = list[j] => i = j

\* RemoveAt shortens the list by the entry at place i, and moves up those behind it.
LEMMA RemoveAtLemma ==
  ASSUME NEW S, NEW list \in Seq(S), NEW i \in DOMAIN list
  PROVE  LET new == RemoveAt(list, i)
         IN  /\ new \in Seq(S)
             /\ Len(new) = Len(list) - 1
             /\ \A j \in DOMAIN new : new[j] = IF j < i THEN list[j] ELSE list[j + 1]
<1> DEFINE front == SubSeq(list, 1, i - 1)
           back  == SubSeq(list, i + 1, Len(list))
<1>1. /\ i \in Int /\ Len(list) \in Nat /\ 1 <= i /\ i <= Len(list)
      /\ \A j \in 1 .. Len(list) : list[j] \in S
  OBVIOUS
<1>2. /\ front \in Seq(S) /\ Len(front) = i - 1
      /\ \A j \in 1 .. i - 1 : front[j] = list[j]
  BY <1>1, SubSeqProperties
<1>3. /\ back \in Seq(S) /\ Len(back) = Len(list) - i
      /\ \A j \in 1 .. Len(list) - i : back[j] = list[i + j]
  BY <1>1, SubSeqProperties
<1>4. RemoveAt(list, i) = front \o back
  BY DEF RemoveAt
<1> HIDE DEF front, back
<1> QED
  BY <1>1, <1>2, <1>3, <1>4

\* RemoveFirst takes an entry that is on the list once out at its only place.
LEMMA RemoveFirstOnce ==
  ASSUME NEW S, NEW list \in Seq(S), Once(list), NEW i \in DOMAIN list
  PROVE  RemoveFirst(list, list[i]) = RemoveAt(list, i)
<1> DEFINE places == {j \in 1 .. Len(list) : list[j] = list[i]}
<1>1. i \in Int /\ i \in 1 .. Len(list) /\ DOMAIN list = 1 .. Len(list)
  OBVIOUS
<1>2. places = {i}
  BY <1>1 DEF Once
<1>3. Min(places) = i
  BY <1>1, <1>2 DEF Min
<1>4. SelectInSeq(list, LAMBDA v : v = list[i]) = i
  BY <1>2, <1>3 DEF SelectInSeq
<1>5. QED
  BY <1>1, <1>4 DEF RemoveFirst

\* Taking e out of a list that has nothing twice leaves the other entries, in
\* their order, each of them once, and not e.
LEMMA RemoveFirstLemma ==
  ASSUME NEW S, NEW list \in Seq(S), Once(list), NEW e
  PROVE  LET new == RemoveFirst(list, e)
         IN  /\ new \in Seq(S)
             /\ Once(new)
             /\ \A x : Contains(new, x) <=> Contains(list, x) /\ x # e
             /\ Len(new) = IF Contains(list, e) THEN Len(list) - 1 ELSE Len(list)
<1> DEFINE new == RemoveFirst(list, e)
<1>1. CASE \E i \in 1 .. Len(list) : list[i] = e
  <2>1. PICK i \in DOMAIN list : list[i] = e
    BY <1>1
  <2>2. /\ i \in Int /\ Len(list) \in Nat /\ 1 <= i /\ i <= Len(list)
        /\ DOMAIN list = 1 .. Len(list)
    OBVIOUS
  <2>3. new = RemoveAt(list, i)
    BY <2>1, RemoveFirstOnce
  <2>4. /\ new \in Seq(S)
        /\ Len(new) = Len(list) - 1
        /\ \A j \in DOMAIN new : new[j] = IF j < i THEN list[j] ELSE list[j + 1]
    BY <2>3, RemoveAtLemma
  <2> HIDE DEF new
  <2>5. DOMAIN new = 1 .. Len(list) - 1
    BY <2>4
  <2>6. \A j \in DOMAIN new : \E k \in DOMAIN list :
          /\ k = IF j < i THEN j ELSE j + 1
          /\ new[j] = list[k]
    BY <2>2, <2>4, <2>5
  <2>7. Once(new)
    BY <2>2, <2>5, <2>6 DEF Once
  <2>8. \A j \in DOMAIN new : new[j] # e
    BY <2>1, <2>2, <2>5, <2>6 DEF Once
  <2>9. \A k \in DOMAIN list : k # i => \E j \in DOMAIN new : new[j] = list[k]
    <3> SUFFICES ASSUME NEW k \in DOMAIN list, k # i
                 PROVE  \E j \in DOMAIN new : new[j] = list[k]
      OBVIOUS
    <3>1. CASE k < i
      <4>1. k \in DOMAIN new /\ new[k] = list[k]
        BY <3>1, <2>2, <2>4, <2>5
      <4>2. QED
        BY <4>1
    <3>2. CASE k > i
      <4>1. k - 1 \in DOMAIN new /\ new[k - 1] = list[k]
        BY <3>2, <2>2, <2>4, <2>5
      <4>2. QED
        BY <4>1
    <3>3. QED
      BY <3>1, <3>2, <2>2
  <2>10. \A x : Contains(new, x) <=> \E j \in DOMAIN new : new[j] = x
    BY <2>4, <2>5 DEF Contains
  <2>11. \A x : Contains(list, x) <=> \E k \in DOMAIN list : list[k] = x
    BY <2>2 DEF Contains
  <2>12. ASSUME NEW x, Contains(new, x)
         PROVE  Contains(list, x) /\ x # e
    BY <2>12, <2>6, <2>8, <2>10, <2>11
  <2>13. ASSUME NEW x, Contains(list, x), x # e
         PROVE  Contains(new, x)
    BY <2>13, <2>1, <2>9, <2>10, <2>11
  <2>14. Contains(list, e)
    BY <2>1, <2>11
  <2>15. QED
    BY <2>4, <2>7, <2>12, <2>13, <2>14 DEF new
<1>2. CASE ~ \E i \in 1 .. Len(list) : list[i] = e
  <2>1. new = list
    BY <1>2 DEF RemoveFirst
  <2>2. ~Contains(list, e)
    BY <1>2 DEF Contains
  <2>3. QED
    BY <2>1, <2>2
<1>3. QED
  BY <1>1, <1>2

\* Appending an entry that is not on the list keeps each of them there once.
LEMMA AppendOnce ==
  ASSUME NEW S, NEW list \in Seq(S), Once(list), NEW e \in S, ~Contains(list, e)
  PROVE  LET new == Append(list, e)
         IN  /\ new \in Seq(S)
             /\ Once(new)
             /\ \A x : Contains(new, x) <=> Contains(list, x) \/ x = e
<1> DEFINE new == Append(list, e)
<1>1. /\ new \in Seq(S) /\ Len(list) \in Nat /\ DOMAIN list = 1 .. Len(list)
      /\ DOMAIN new = 1 .. Len(list) + 1 /\ Len(new) = Len(list) + 1
      /\ \A j \in 1 .. Len(list) : new[j] = list[j]
      /\ new[Len(list) + 1] = e
  OBVIOUS
<1>2. \A j \in 1 .. Len(list) : list[j] # e
  BY DEF Contains
<1> HIDE DEF new
<1>3. Once(new)
  BY <1>1, <1>2 DEF Once
<1>4. \A x : Contains(new, x) <=> Contains(list, x) \/ x = e
  BY <1>1 DEF Contains
<1>5. QED
  BY <1>1, <1>3, <1>4 DEF new

=============================================================================
