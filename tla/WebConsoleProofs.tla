------------------------- MODULE WebConsoleProofs -------------------------
(***************************************************************************)
(* What the browser tab shows, whatever the workspaces, the records, the   *)
(* log, the partitions, the roles and the bounds are: every property of    *)
(* the runs of WebConsole but the one about what eventually happens; and   *)
(* every variable has its type.                                            *)
(*                                                                         *)
(* Each part has an invariant of its own (ModelsInv, DreamInv, TraceInv,   *)
(* MemInv); that of the workspace (PlaceInv) relates all of them.  A step  *)
(* of the whole is first reduced to what it does to one part (ModelsMove   *)
(* and the like).  What a recursion over a sequence computes is shown by   *)
(* its least counterexample.                                               *)
(*                                                                         *)
(* The documents tab, WebDocuments, shares no variable with the rest; its  *)
(* properties are proved in the last part.                                 *)
(***************************************************************************)
EXTENDS WebConsole, WebDocuments, Integers, SequenceTheorems, WellFoundedInduction, TLAPS

(* ------------------------------- sequences ----------------------------- *)
(* Array.prototype.push                                                    *)
LEMMA Appended ==
    ASSUME NEW S, NEW s \in Seq(S), NEW e \in S
    PROVE  /\ Append(s, e) \in Seq(S) /\ Len(Append(s, e)) = Len(s) + 1
           /\ Append(s, e)[Len(s) + 1] = e
           /\ \A j \in 1..Len(s) : Append(s, e)[j] = s[j]
OBVIOUS

(* An answered request leaves its array, and the others move up.           *)
LEMMA Dropped ==
    ASSUME NEW S, NEW s \in Seq(S), NEW i \in 1..Len(s)
    PROVE  /\ Drop(s, i) \in Seq(S) /\ Len(Drop(s, i)) = Len(s) - 1
           /\ \A j \in 1..(Len(s) - 1) :
                 Drop(s, i)[j] = IF j < i THEN s[j] ELSE s[j + 1]
<1> DEFINE n == Len(s)
           a == SubSeq(s, 1, i - 1)
           b == SubSeq(s, i + 1, n)
<1>0. n \in Nat /\ i \in 1..n /\ i \in Nat
  OBVIOUS
<1> HIDE DEF n
<1>1. a \in Seq(S) /\ Len(a) = i - 1 /\ \A j \in 1..(i - 1) : a[j] = s[j]
  <2>1. Len(a) = i - 1 /\ \A j \in 1..(i - 1) : a[j] = s[j]
    BY <1>0, SubSeqProperties DEF n
  <2> QED BY <2>1, <1>0 DEF n
<1>2. /\ b \in Seq(S) /\ Len(b) = n - i
      /\ \A j \in 1..(n - i) : b[j] = s[i + j]
  <2>1. Len(b) = n - i
    BY <1>0, SubSeqProperties DEF n
  <2>2. \A j \in 1..(n - i) : b[j] = s[(i + 1) + j - 1]
    BY <1>0, SubSeqProperties DEF n
  <2>3. \A j \in 1..(n - i) : (i + 1) + j - 1 = i + j
    BY <1>0
  <2> QED BY <2>1, <2>2, <2>3, <1>0 DEF n
<1> HIDE DEF a, b
<1>3. /\ a \o b \in Seq(S) /\ Len(a \o b) = n - 1
      /\ \A j \in 1..(n - 1) : (a \o b)[j] = IF j <= i - 1 THEN a[j] ELSE b[j - (i - 1)]
  <2>1. /\ a \o b \in Seq(S) /\ Len(a \o b) = Len(a) + Len(b)
        /\ \A j \in 1..(Len(a) + Len(b)) : (a \o b)[j] = IF j <= Len(a) THEN a[j] ELSE b[j - Len(a)]
    BY <1>1, <1>2, ConcatProperties
  <2>2. Len(a) + Len(b) = n - 1
    BY <1>0, <1>1, <1>2
  <2> QED BY <2>1, <2>2, <1>1
<1>4. ASSUME NEW j \in 1..(n - 1)
      PROVE  (a \o b)[j] = IF j < i THEN s[j] ELSE s[j + 1]
  <2>1. CASE j < i
    <3>1. j \in 1..(i - 1) /\ j <= i - 1 BY <2>1, <1>0
    <3> QED BY <2>1, <3>1, <1>1, <1>3
  <2>2. CASE ~(j < i)
    <3>1. j - (i - 1) \in 1..(n - i) /\ i + (j - (i - 1)) = j + 1 /\ ~(j <= i - 1)
      BY <2>2, <1>0
    <3>2. (a \o b)[j] = b[j - (i - 1)]
      BY <3>1, <1>3
    <3>3. b[j - (i - 1)] = s[i + (j - (i - 1))]
      BY <3>1, <1>2
    <3> QED BY <2>2, <3>1, <3>2, <3>3
  <2> QED BY <2>1, <2>2
<1> QED BY <1>3, <1>4 DEF Drop, a, b, n

(* A prefix, and what comes after it                                       *)
LEMMA Joined ==
    ASSUME NEW S, NEW s \in Seq(S), NEW m \in 0..Len(s), NEW n \in 0..m
    PROVE  /\ SubSeq(s, 1, n) \in Seq(S) /\ SubSeq(s, n + 1, m) \in Seq(S)
           /\ SubSeq(s, 1, n) \o SubSeq(s, n + 1, m) = SubSeq(s, 1, m)
           /\ Len(SubSeq(s, n + 1, m)) = m - n
           /\ \A k \in 1..(m - n) : SubSeq(s, n + 1, m)[k] = s[n + k]
<1> DEFINE a == SubSeq(s, 1, n)
           b == SubSeq(s, n + 1, m)
           c == SubSeq(s, 1, m)
<1>1. a \in Seq(S) /\ Len(a) = n /\ \A k \in 1..n : a[k] = s[k]
  OBVIOUS
<1>2. c \in Seq(S) /\ Len(c) = m /\ \A k \in 1..m : c[k] = s[k]
  OBVIOUS
<1>3. b \in Seq(S) /\ Len(b) = m - n /\ \A k \in 1..(m - n) : b[k] = s[n + k]
  <2>1. Len(b) = m - n
    BY SubSeqProperties
  <2>2. \A k \in 1..(m - n) : b[k] = s[(n + 1) + k - 1]
    BY SubSeqProperties
  <2>3. \A k \in 1..(m - n) : (n + 1) + k - 1 = n + k
    OBVIOUS
  <2> QED BY <2>1, <2>2, <2>3
<1> HIDE DEF a, b, c
<1>4. /\ a \o b \in Seq(S) /\ Len(a \o b) = m
      /\ \A k \in 1..m : (a \o b)[k] = IF k <= n THEN a[k] ELSE b[k - n]
  <2>1. /\ a \o b \in Seq(S) /\ Len(a \o b) = Len(a) + Len(b)
        /\ \A k \in 1..(Len(a) + Len(b)) : (a \o b)[k] = IF k <= Len(a) THEN a[k] ELSE b[k - Len(a)]
    BY <1>1, <1>3, ConcatProperties
  <2>2. Len(a) + Len(b) = m
    BY <1>1, <1>3
  <2> QED BY <2>1, <2>2, <1>1
<1>5. \A k \in 1..m : (a \o b)[k] = c[k]
  <2> SUFFICES ASSUME NEW k \in 1..m PROVE (a \o b)[k] = c[k]
    OBVIOUS
  <2>1. CASE k <= n
    BY <2>1, <1>1, <1>2, <1>4
  <2>2. CASE ~(k <= n)
    <3>1. k - n \in 1..(m - n) /\ n + (k - n) = k
      BY <2>2
    <3> QED BY <2>2, <3>1, <1>2, <1>3, <1>4
  <2> QED BY <2>1, <2>2
<1>6. a \o b = c
  BY <1>2, <1>4, <1>5, SeqEqual
<1> QED BY <1>1, <1>3, <1>6 DEF a, b, c

(* A set of numbers that is not empty has a least one: with it a recursion *)
(* is reasoned about without an induction rule.                            *)
LEMMA Least ==
    ASSUME NEW T \in SUBSET Nat, T # {}
    PROVE  \E n \in T : \A m \in T : ~(m < n)
<1> DEFINE R == OpToRel(<, Nat)
<1>1. \E x \in T : \A y \in T : ~(<<y, x>> \in R)
  <2>1. IsWellFoundedOn(R, Nat)  BY NatLessThanWellFounded
  <2> QED BY <2>1, WFMin
<1>2. \A x, y \in Nat : x < y => <<x, y>> \in R  BY DEF OpToRel
<1> QED BY <1>1, <1>2

(* r is the recursion of Kept over the first n elements of s.              *)
Keeping(r, n, s, good) ==
    r = [k \in 0..n |-> IF k = 0 THEN <<>>
                        ELSE IF s[k] \in good THEN Append(r[k - 1], s[k]) ELSE r[k - 1]]

(* That recursion is a function of its own for every n.                    *)
LEMMA KeepingThere ==
    ASSUME NEW s, NEW good, NEW n \in Nat
    PROVE  \E r : Keeping(r, n, s, good)
<1> DEFINE T == {k \in Nat : ~ \E r : Keeping(r, k, s, good)}
<1>1. SUFFICES ASSUME T # {} PROVE FALSE
  OBVIOUS
<1>2. PICK k \in T : \A m \in T : ~(m < k)
  BY <1>1, Least
<1>3. CASE k = 0
  <2>1. Keeping([j \in 0..0 |-> <<>>], 0, s, good)
    BY DEF Keeping
  <2> QED BY <1>2, <1>3, <2>1
<1>4. CASE k # 0
  <2>1. k \in Nat /\ k - 1 \in Nat /\ k - 1 < k
    BY <1>2, <1>4
  <2>2. PICK q : Keeping(q, k - 1, s, good)
    BY <1>2, <2>1
  <2> DEFINE new == IF s[k] \in good THEN Append(q[k - 1], s[k]) ELSE q[k - 1]
             r == [j \in 0..k |-> IF j = k THEN new ELSE q[j]]
  <2>3. \A j \in 0..(k - 1) : r[j] = q[j]
    BY <2>1
  <2>4. \A j \in 0..(k - 1) :
           q[j] = IF j = 0 THEN <<>>
                  ELSE IF s[j] \in good THEN Append(q[j - 1], s[j]) ELSE q[j - 1]
    BY <2>2 DEF Keeping
  <2>5. \A j \in 0..k :
           r[j] = IF j = 0 THEN <<>>
                  ELSE IF s[j] \in good THEN Append(r[j - 1], s[j]) ELSE r[j - 1]
    <3> SUFFICES ASSUME NEW j \in 0..k
                 PROVE  r[j] = IF j = 0 THEN <<>>
                               ELSE IF s[j] \in good THEN Append(r[j - 1], s[j]) ELSE r[j - 1]
      OBVIOUS
    <3>1. CASE j = k
      <4>1. r[j] = new BY <3>1
      <4>2. r[k - 1] = q[k - 1] BY <2>1, <2>3
      <4> QED BY <3>1, <4>1, <4>2, <1>4
    <3>2. CASE j # k
      <4>1. j \in 0..(k - 1) BY <2>1, <3>2
      <4>2. j # 0 => j - 1 \in 0..(k - 1) BY <4>1, <2>1
      <4> QED BY <4>1, <4>2, <2>3, <2>4
    <3> QED BY <3>1, <3>2
  <2> HIDE DEF r
  <2>6. r = [j \in 0..k |-> r[j]] BY DEF r
  <2> QED BY <1>2, <2>5, <2>6 DEF Keeping
<1> QED BY <1>3, <1>4

(* Kept is where the recursion ends.                                       *)
LEMMA KeptIs ==
    ASSUME NEW S, NEW s \in Seq(S), NEW good
    PROVE  \E r : Keeping(r, Len(s), s, good) /\ Kept(s, good) = r[Len(s)]
<1> DEFINE r == CHOOSE r : Keeping(r, Len(s), s, good)
<1>1. Keeping(r, Len(s), s, good)
  BY KeepingThere
<1>2. Kept(s, good) = r[Len(s)]
  BY DEF Kept, Keeping
<1> QED BY <1>1, <1>2

(* A filter keeps good elements,                                           *)
LEMMA KeptGood ==
    ASSUME NEW S, NEW s \in Seq(S), NEW good
    PROVE  Kept(s, good) \in Seq(S \cap good)
<1>1. PICK r : Keeping(r, Len(s), s, good) /\ Kept(s, good) = r[Len(s)]
  BY KeptIs
<1> DEFINE T == {k \in 0..Len(s) : r[k] \notin Seq(S \cap good)}
<1>2. T = {}
  <2> SUFFICES ASSUME T # {} PROVE FALSE
    OBVIOUS
  <2>1. PICK k \in T : \A j \in T : ~(j < k)
    <3>1. T \in SUBSET Nat OBVIOUS
    <3> QED BY <3>1, Least
  <2>2. r[k] = IF k = 0 THEN <<>>
               ELSE IF s[k] \in good THEN Append(r[k - 1], s[k]) ELSE r[k - 1]
    BY <1>1, <2>1 DEF Keeping
  <2>3. k # 0
    <3> SUFFICES ASSUME k = 0 PROVE FALSE OBVIOUS
    <3>1. r[k] = <<>> BY <2>2
    <3>2. r[k] \in Seq(S \cap good) BY <3>1
    <3> QED BY <2>1, <3>2
  <2>4. k - 1 \in 0..Len(s) /\ k - 1 < k /\ k \in 1..Len(s)
    BY <2>1, <2>3
  <2>5. r[k - 1] \in Seq(S \cap good) /\ s[k] \in S
    BY <2>1, <2>4
  <2>6. CASE s[k] \in good
    <3>1. r[k] = Append(r[k - 1], s[k]) BY <2>2, <2>3, <2>5, <2>6
    <3>2. s[k] \in S \cap good BY <2>5, <2>6
    <3>3. r[k] \in Seq(S \cap good) BY <3>1, <3>2, <2>5
    <3> QED BY <2>1, <3>3
  <2>7. CASE s[k] \notin good
    <3>1. r[k] = r[k - 1] BY <2>2, <2>3, <2>7
    <3> QED BY <2>1, <2>5, <3>1
  <2> QED BY <2>6, <2>7
<1>3. Len(s) \in 0..Len(s)
  OBVIOUS
<1> QED BY <1>1, <1>2, <1>3

(* and makes up none.                                                      *)
LEMMA KeptTyped ==
    ASSUME NEW S, NEW s \in Seq(S), NEW good
    PROVE  Kept(s, good) \in Seq(S)
<1> DEFINE k == Kept(s, good)
<1>1. k \in Seq(S \cap good)
  BY KeptGood
<1> HIDE DEF k
<1>2. k \in Seq(S)
  BY <1>1
<1> QED BY <1>2 DEF k

(* When the good elements come first, they are what is kept.               *)
LEMMA KeptPrefix ==
    ASSUME NEW S, NEW s \in Seq(S), NEW good, NEW m \in 0..Len(s),
           \A k \in 1..Len(s) : s[k] \in good <=> k <= m
    PROVE  Kept(s, good) = SubSeq(s, 1, m)
<1>1. PICK r : Keeping(r, Len(s), s, good) /\ Kept(s, good) = r[Len(s)]
  BY KeptIs
<1> DEFINE Upto(k) == SubSeq(s, 1, IF k <= m THEN k ELSE m)
           T == {k \in 0..Len(s) : r[k] # Upto(k)}
<1>2. T = {}
  <2> SUFFICES ASSUME T # {} PROVE FALSE
    OBVIOUS
  <2>1. PICK k \in T : \A j \in T : ~(j < k)
    <3>1. T \in SUBSET Nat OBVIOUS
    <3> QED BY <3>1, Least
  <2>2. r[k] = IF k = 0 THEN <<>>
               ELSE IF s[k] \in good THEN Append(r[k - 1], s[k]) ELSE r[k - 1]
    BY <1>1, <2>1 DEF Keeping
  <2>3. k # 0
    <3> SUFFICES ASSUME k = 0 PROVE FALSE OBVIOUS
    <3>1. Upto(0) = <<>> OBVIOUS
    <3> QED BY <2>1, <2>2, <3>1
  <2>4. k - 1 \in 0..Len(s) /\ k - 1 < k /\ k \in 1..Len(s)
    BY <2>1, <2>3
  <2>5. r[k - 1] = Upto(k - 1)
    BY <2>1, <2>4
  <2>6. CASE k <= m
    <3>1. r[k] = Append(SubSeq(s, 1, k - 1), s[k])
      BY <2>2, <2>3, <2>4, <2>5, <2>6
    <3>2. Append(SubSeq(s, 1, k - 1), s[k]) = SubSeq(s, 1, k)
      BY <2>4
    <3> QED BY <2>1, <2>6, <3>1, <3>2
  <2>7. CASE ~(k <= m)
    <3>1. Upto(k - 1) = SubSeq(s, 1, m)
      <4>1. CASE k - 1 <= m
        <5>1. k - 1 = m BY <4>1, <2>7, <2>4
        <5> QED BY <5>1
      <4>2. CASE ~(k - 1 <= m) BY <4>2
      <4> QED BY <4>1, <4>2
    <3>2. r[k] = r[k - 1]
      BY <2>2, <2>3, <2>4, <2>7
    <3> QED BY <2>1, <2>5, <2>7, <3>1, <3>2
  <2> QED BY <2>6, <2>7
<1>3. Len(s) \in 0..Len(s) /\ Upto(Len(s)) = SubSeq(s, 1, m)
  <2>1. CASE Len(s) <= m
    <3>1. Len(s) = m BY <2>1
    <3> QED BY <3>1
  <2>2. CASE ~(Len(s) <= m) BY <2>2
  <2> QED BY <2>1, <2>2
<1> QED BY <1>1, <1>2, <1>3

(* Some element of a sequence is of a kind.                                *)
Has(s, good) == \E j \in 1..Len(s) : s[j] \in good

(* It is still there when another one has been dropped,                    *)
LEMMA HasDropped ==
    ASSUME NEW S, NEW s \in Seq(S), NEW i \in 1..Len(s), NEW good, s[i] \notin good, Has(s, good)
    PROVE  Has(Drop(s, i), good)
<1>1. PICK j \in 1..Len(s) : s[j] \in good
  BY DEF Has
<1>2. j # i
  BY <1>1
<1> DEFINE d == Drop(s, i)
           n == Len(s)
<1>3. /\ Len(d) = n - 1 /\ n \in Nat /\ j \in 1..n /\ i \in 1..n
      /\ \A k \in 1..(n - 1) : d[k] = IF k < i THEN s[k] ELSE s[k + 1]
  <2>1. /\ Len(d) = Len(s) - 1
        /\ \A k \in 1..(Len(s) - 1) : Drop(s, i)[k] = IF k < i THEN s[k] ELSE s[k + 1]
    BY Dropped
  <2> QED BY <2>1
<1> HIDE DEF d, n
<1>4. CASE j < i
  <2>1. j \in 1..(n - 1) BY <1>3, <1>4
  <2>2. d[j] = s[j] BY <1>3, <1>4, <2>1
  <2> QED BY <1>1, <1>3, <2>1, <2>2 DEF Has, d
<1>5. CASE ~(j < i)
  <2>1. j - 1 \in 1..(n - 1) /\ ~(j - 1 < i) /\ (j - 1) + 1 = j BY <1>2, <1>3, <1>5
  <2>2. d[j - 1] = s[j] BY <1>3, <2>1
  <2> QED BY <1>1, <1>3, <2>1, <2>2 DEF Has, d
<1> QED BY <1>4, <1>5

(* when one has been appended,                                             *)
LEMMA HasAppended ==
    ASSUME NEW S, NEW s \in Seq(S), NEW e \in S, NEW good
    PROVE  Has(Append(s, e), good) <=> Has(s, good) \/ e \in good
<1> DEFINE a == Append(s, e)
           n == Len(s)
<1>1. /\ n \in Nat /\ Len(a) = n + 1 /\ a[n + 1] = e /\ \A j \in 1..n : a[j] = s[j]
  BY Appended
<1> HIDE DEF a
<1>2. \A j \in 1..(n + 1) : j = n + 1 \/ j \in 1..n
  BY <1>1
<1>3. n + 1 \in 1..(n + 1) /\ \A j \in 1..n : j \in 1..(n + 1)
  BY <1>1
<1>4. ASSUME Has(a, good) PROVE Has(s, good) \/ e \in good
  BY <1>1, <1>2, <1>4 DEF Has
<1>5. ASSUME Has(s, good) \/ e \in good PROVE Has(a, good)
  BY <1>1, <1>3, <1>5 DEF Has
<1> QED BY <1>4, <1>5 DEF a

(* and when another one has changed.                                       *)
LEMMA HasChanged ==
    ASSUME NEW S, NEW s \in Seq(S), NEW i \in 1..Len(s), NEW e \in S, NEW good
    PROVE  /\ [s EXCEPT ![i] = e] \in Seq(S)
           /\ (s[i] \in good => e \in good) /\ Has(s, good) => Has([s EXCEPT ![i] = e], good)
           /\ e \in good => Has([s EXCEPT ![i] = e], good)
<1> DEFINE d == [s EXCEPT ![i] = e]
<1>1. /\ d \in Seq(S) /\ Len(d) = Len(s) /\ d[i] = e
      /\ \A j \in 1..Len(s) : j # i => d[j] = s[j]
  OBVIOUS
<1> HIDE DEF d
<1>2. ASSUME s[i] \in good => e \in good, NEW j \in 1..Len(s), s[j] \in good PROVE d[j] \in good
  BY <1>1, <1>2
<1> QED BY <1>1, <1>2 DEF Has, d

(* ------------------------ the steps of the whole ----------------------- *)
(* The page is mounted anew, and with it the form of the models.           *)
Leaves == /\ Shut(FALSE) /\ Abandon /\ orphan = NoRole
          /\ UNCHANGED <<routes, mixed>>

(* What a step does to the settings of the models                          *)
LEMMA ModelsMove ==
    ASSUME [Next]_vars
    PROVE  ModelsUser \/ ModelsAnswers \/ Leaves \/ UNCHANGED modelVars
<1> USE DEF NotTheHeader, NotTheMemory, notTheTrace, NotTheDream, elsewhere
<1>1. CASE Header BY <1>1 DEF Header
<1>2. CASE Again BY <1>2 DEF Again, PageMounted, Leaves
<1>3. ASSUME NEW t \in Tabs, SwitchTab(t) PROVE UNCHANGED modelVars
  BY <1>3 DEF SwitchTab
<1>4. CASE Timer BY <1>4 DEF Timer
<1>5. CASE MemoryActs BY <1>5 DEF MemoryActs
<1>6. ASSUME NEW i \in DOMAIN calls, MemoryAnswers(i) PROVE UNCHANGED modelVars
  BY <1>6 DEF MemoryAnswers
<1>7. CASE Melchior BY <1>7 DEF Melchior
<1>8. CASE AgentActs BY <1>8 DEF AgentActs
<1>9. CASE Balthasar BY <1>9 DEF Balthasar
<1>10. CASE Models BY <1>10 DEF Models
<1>11. CASE UNCHANGED vars BY <1>11 DEF vars
<1>12. CASE LogInAgain BY <1>12 DEF LogInAgain, PageMounted, Leaves
<1>13. ASSUME NEW i \in DOMAIN unheard, ServerDecides(i)
       PROVE  UNCHANGED modelVars
  BY <1>13 DEF ServerDecides
<1> QED
  BY <1>1, <1>2, <1>3, <1>4, <1>5, <1>6, <1>7, <1>8, <1>9, <1>10, <1>11, <1>12, <1>13
     DEF Next

(* What a step does to the Dreaming and to its tab                         *)
LEMMA DreamMove ==
    ASSUME [Next]_vars
    PROVE  \/ /\ \/ BalthasarUser \/ BalthasarLook \/ AskStatus
                 \/ BalthasarAnswers(active = Default)
                 \/ BalthasarMounted \/ BalthasarKept
              /\ UNCHANGED <<dreamServer, tab>>
           \/ StartServed(active = Default) \/ RunSucceeds \/ RunFails \/ AnotherStarts
           \/ \E t \in Tabs : BalthasarTab(t) /\ tab' = t /\ UNCHANGED dreamServer
           \/ UNCHANGED <<dreamServer, balthasar, tab>>
<1> USE DEF NotTheHeader, NotTheMemory, notTheTrace, NotTheModels, elsewhere, dreaming
<1>1. CASE Header BY <1>1 DEF Header
<1>2. CASE Again BY <1>2 DEF Again, PageMounted
<1>3. ASSUME NEW t \in Tabs, SwitchTab(t)
      PROVE  BalthasarTab(t) /\ tab' = t /\ UNCHANGED dreamServer
  BY <1>3 DEF SwitchTab
<1>4. CASE Timer BY <1>4 DEF Timer
<1>5. CASE MemoryActs BY <1>5 DEF MemoryActs
<1>6. ASSUME NEW i \in DOMAIN calls, MemoryAnswers(i)
      PROVE  UNCHANGED <<dreamServer, balthasar, tab>>
  BY <1>6 DEF MemoryAnswers
<1>7. CASE Melchior BY <1>7 DEF Melchior
<1>8. CASE AgentActs BY <1>8 DEF AgentActs
<1>9. CASE Balthasar BY <1>9 DEF Balthasar
<1>10. CASE Models BY <1>10 DEF Models
<1>11. CASE UNCHANGED vars BY <1>11 DEF vars
<1>12. CASE LogInAgain BY <1>12 DEF LogInAgain, PageMounted
<1>13. ASSUME NEW i \in DOMAIN unheard, ServerDecides(i)
       PROVE  UNCHANGED <<dreamServer, balthasar, tab>>
  BY <1>13 DEF ServerDecides
<1> QED
  BY <1>1, <1>2, <1>3, <1>4, <1>5, <1>6, <1>7, <1>8, <1>9, <1>10, <1>11, <1>12, <1>13
     DEF Next

(* A login: the exploration store goes on from where it was.               *)
FollowedOn ==
    /\ polling' = FALSE /\ wanted' = Nothing /\ replay' = Nothing
    /\ UNCHANGED <<current, lastSeq, events, frames>>

(* What a step does to the log and to the tab that follows it              *)
LEMMA TraceMove ==
    ASSUME [Next]_vars
    PROVE  \/ Agent /\ UNCHANGED melchior
           \/ /\ \/ Poll \/ ReturnToLive \/ MelchiorTab
                 \/ \E c \in Calls : Replay(c)
                 \/ Unfollowed /\ wanted' = Nothing /\ replay' = Nothing /\ polling' = FALSE
                 \/ FollowedOn
              /\ UNCHANGED logVars
           \/ UNCHANGED <<logVars, melchior>>
<1> USE DEF NotTheHeader, NotTheMemory, notTheTrace, NotTheModels, NotTheDream, elsewhere
<1>1. CASE Header BY <1>1 DEF Header
<1>2. CASE Again BY <1>2 DEF Again, PageMounted
<1>3. ASSUME NEW t \in Tabs, SwitchTab(t)
      PROVE  MelchiorTab /\ UNCHANGED logVars
  BY <1>3 DEF SwitchTab
<1>4. CASE Timer BY <1>4 DEF Timer
<1>5. CASE MemoryActs BY <1>5 DEF MemoryActs
<1>6. ASSUME NEW i \in DOMAIN calls, MemoryAnswers(i)
      PROVE  UNCHANGED <<logVars, melchior>>
  BY <1>6 DEF MemoryAnswers
<1>7. CASE Melchior BY <1>7 DEF Melchior
<1>8. CASE AgentActs BY <1>8 DEF AgentActs
<1>9. CASE Balthasar BY <1>9 DEF Balthasar
<1>10. CASE Models BY <1>10 DEF Models
<1>11. CASE UNCHANGED vars BY <1>11 DEF vars
<1>12. CASE LogInAgain BY <1>12 DEF LogInAgain, PageMounted, FollowedOn
<1>13. ASSUME NEW i \in DOMAIN unheard, ServerDecides(i)
       PROVE  UNCHANGED <<logVars, melchior>>
  BY <1>13 DEF ServerDecides
<1> QED
  BY <1>1, <1>2, <1>3, <1>4, <1>5, <1>6, <1>7, <1>8, <1>9, <1>10, <1>11, <1>12, <1>13
     DEF Next

(* What a step does to the memory tab                                      *)
LEMMA MemoryMove ==
    ASSUME [Next]_vars
    PROVE  \/ \E i \in DOMAIN calls : MemoryAnswer(i) /\ Effects
           \/ (Toolbar \/ Panels \/ Dialogs) /\ Effects
           \/ TimerFires
           \/ Mounted /\ UNCHANGED outcomes
           \/ \E i \in DOMAIN unheard : ServeUnheard(i)
           \/ UNCHANGED memoryVars
<1> USE DEF NotTheHeader, NotTheMemory, notTheTrace, NotTheModels, NotTheDream, elsewhere
<1>1. CASE Header BY <1>1 DEF Header
<1>2. CASE Again BY <1>2 DEF Again, PageMounted
<1>3. ASSUME NEW t \in Tabs, SwitchTab(t) PROVE UNCHANGED memoryVars
  BY <1>3 DEF SwitchTab
<1>4. CASE Timer BY <1>4 DEF Timer
<1>5. CASE MemoryActs BY <1>5 DEF MemoryActs
<1>6. ASSUME NEW i \in DOMAIN calls, MemoryAnswers(i)
      PROVE  MemoryAnswer(i) /\ Effects
  BY <1>6 DEF MemoryAnswers
<1>7. CASE Melchior BY <1>7 DEF Melchior
<1>8. CASE AgentActs BY <1>8 DEF AgentActs
<1>9. CASE Balthasar BY <1>9 DEF Balthasar
<1>10. CASE Models BY <1>10 DEF Models
<1>11. CASE UNCHANGED vars BY <1>11 DEF vars
<1>12. CASE LogInAgain BY <1>12 DEF LogInAgain, PageMounted
<1>13. ASSUME NEW i \in DOMAIN unheard, ServerDecides(i)
       PROVE  ServeUnheard(i)
  BY <1>13 DEF ServerDecides
<1> QED
  BY <1>1, <1>2, <1>3, <1>4, <1>5, <1>6, <1>7, <1>8, <1>9, <1>10, <1>11, <1>12, <1>13
     DEF Next

(* What a step does to the header, and to the rest when the page is loaded *)
(* or mounted anew                                                         *)
LEMMA HeaderMove ==
    ASSUME [Next]_vars
    PROVE  \/ HeaderUser \/ HeaderAnswer
           \/ Reload /\ Mounted /\ Unfollowed /\ BalthasarMounted
           \/ HeaderMountedAgain /\ Mounted /\ UNCHANGED current /\ BalthasarKept
           \/ UNCHANGED headerVars
<1> USE DEF NotTheHeader, NotTheMemory, notTheTrace, NotTheModels, NotTheDream, elsewhere
<1>1. CASE Header BY <1>1 DEF Header
<1>2. CASE Again BY <1>2 DEF Again, PageMounted
<1>3. ASSUME NEW t \in Tabs, SwitchTab(t) PROVE UNCHANGED headerVars
  BY <1>3 DEF SwitchTab
<1>4. CASE Timer BY <1>4 DEF Timer
<1>5. CASE MemoryActs BY <1>5 DEF MemoryActs
<1>6. ASSUME NEW i \in DOMAIN calls, MemoryAnswers(i)
      PROVE  UNCHANGED headerVars
  BY <1>6 DEF MemoryAnswers
<1>7. CASE Melchior BY <1>7 DEF Melchior
<1>8. CASE AgentActs BY <1>8 DEF AgentActs
<1>9. CASE Balthasar BY <1>9 DEF Balthasar
<1>10. CASE Models BY <1>10 DEF Models
<1>11. CASE UNCHANGED vars BY <1>11 DEF vars
<1>12. CASE LogInAgain BY <1>12 DEF LogInAgain, PageMounted
<1>13. ASSUME NEW i \in DOMAIN unheard, ServerDecides(i)
       PROVE  UNCHANGED headerVars
  BY <1>13 DEF ServerDecides
<1> QED
  BY <1>1, <1>2, <1>3, <1>4, <1>5, <1>6, <1>7, <1>8, <1>9, <1>10, <1>11, <1>12, <1>13
     DEF Next

(* ------------------------------ the models ----------------------------- *)
(* Where the settings are                                                  *)
ModelsTyped ==
    /\ routes \in [Roles -> Roles]
    /\ {mounted, overtaken, mixed} \subseteq BOOLEAN
    /\ settings = NoRole \/ settings \in [Roles -> Roles]
    /\ settings # NoRole => role \in Roles /\ draft \in Roles
    /\ settings = NoRole => models = NoRole /\ discovering = NoRole
    /\ saving # NoRole => saving \in Updates /\ settings # NoRole
    /\ orphan # NoRole => orphan \in Updates

(* Unless a save was overtaken, every route and every form holds what was  *)
(* made for its role: so does a save under way, and an answer to a         *)
(* question about its models.                                              *)
Unmixed ==
    ~mixed =>
        /\ \A r \in Roles : routes[r] = r
        /\ settings # NoRole => \A r \in Roles : settings[r] = r
        /\ saving # NoRole => saving.config = saving.role
        /\ orphan # NoRole => orphan.config = orphan.role
        /\ settings # NoRole /\ ~overtaken => draft = role /\ models \in {NoRole, role}

(* The invariant of the models                                             *)
ModelsInv == ModelsTyped /\ Unmixed

(* Every handler of the settings keeps it so.                              *)
LEMMA ModelsStep ==
    ASSUME ModelsInv, ModelsUser \/ ModelsAnswers \/ Leaves
    PROVE  ModelsInv'
<1> USE ModelsAssumption DEF ModelsInv, ModelsTyped, Unmixed, Updates
<1>1. CASE OpenModels BY <1>1 DEF OpenModels, Shut
<1>2. CASE Leaves
  BY <1>2 DEF Leaves, Shut, Abandon
<1>3. CASE CloseModels BY <1>3 DEF CloseModels, Shut, Abandon
<1>4. CASE ChangeBinding BY <1>4 DEF ChangeBinding
<1>5. CASE Discover BY <1>5 DEF Discover
<1>6. CASE Save
  <2>1. saving' \in Updates /\ saving'.config = draft /\ saving'.role = role
    BY <1>6 DEF Save, Update
  <2> QED BY <1>6, <2>1 DEF Save
<1>7. ASSUME NEW r \in Roles, ChangeRole(r) PROVE ModelsInv'
  <2>0. settings \in [Roles -> Roles]
    BY <1>7 DEF ChangeRole
  <2>1. settings[r] \in Roles
    BY <1>7, <2>0
  <2> QED BY <1>7, <2>1 DEF ChangeRole
<1>8. CASE ModelsListed
  <2>1. routes[FirstRole] \in Roles /\ routes \in [Roles -> Roles]
    OBVIOUS
  <2> QED BY <1>8, <2>1 DEF ModelsListed
<1>9. CASE Discovered
  <2>1. overtaken' \in BOOLEAN BY <1>9, Zenon DEF Discovered
  <2>2. ModelsTyped' BY <1>9, <2>1 DEF Discovered
  <2>3. Unmixed'
    <3>1. CASE models' = discovering /\ overtaken' = (overtaken \/ discovering # role)
      BY <1>9, <3>1 DEF Discovered
    <3>2. CASE ~(models' = discovering /\ overtaken' = (overtaken \/ discovering # role))
      BY <1>9, <3>2 DEF Discovered
    <3> QED BY <3>1, <3>2
  <2> QED BY <2>2, <2>3
<1>10. CASE SaveServed
  <2>1. /\ saving' \in Updates /\ saving'.role = saving.role
        /\ saving'.config = saving.config
    BY <1>10 DEF SaveServed
  <2>2. saving.role \in Roles /\ saving.config \in Roles
    BY <1>10 DEF SaveServed
  <2> QED BY <1>10, <2>1, <2>2 DEF SaveServed
<1>11. CASE OrphanServed
  <2>2. orphan.role \in Roles /\ orphan.config \in Roles
    BY <1>11 DEF OrphanServed
  <2> QED BY <1>11, <2>2 DEF OrphanServed, formVars
<1>12. CASE Saved
  <2>2. saving.role \in Roles /\ saving.config \in Roles /\ settings \in [Roles -> Roles]
    BY <1>12 DEF Saved
  <2>3. ModelsTyped'
    BY <1>12, <2>2 DEF Saved
  <2>4. Unmixed'
    BY <1>12, <2>2 DEF Saved
  <2> QED BY <2>3, <2>4
<1>13. CASE SaveFails BY <1>13 DEF SaveFails, Abandon
<1> QED
  BY <1>1, <1>2, <1>3, <1>4, <1>5, <1>6, <1>7, <1>8, <1>9, <1>10, <1>11, <1>12, <1>13
     DEF ModelsUser, ModelsAnswers

(* Nothing has been saved when the page is opened.                         *)
LEMMA ModelsStart == ASSUME Init PROVE ModelsInv
BY ModelsAssumption DEF Init, ModelsInit, ModelsInv, ModelsTyped, Unmixed

(* Nor does any other part mix them.                                       *)
LEMMA ModelsKept == ModelsInv /\ [Next]_vars => ModelsInv'
<1> SUFFICES ASSUME ModelsInv, [Next]_vars PROVE ModelsInv'
  OBVIOUS
<1>1. CASE UNCHANGED modelVars
  BY <1>1 DEF modelVars, formVars, ModelsInv, ModelsTyped, Unmixed
<1> QED BY <1>1, ModelsMove, ModelsStep

(* The routes of the server, and the form, hold for each role what was     *)
(* made for it, unless a save that was under way answered after another    *)
(* role was chosen (ModelSettings.tsx, model_routes.py).                   *)
THEOREM RolesStayApart == Spec => []RolesApart
<1>1. ModelsInv => RolesApart
  BY DEF ModelsInv, Unmixed, RolesApart
<1> QED BY <1>1, ModelsStart, ModelsKept, PTL DEF Spec

(* ----------------------------- the Dreaming ---------------------------- *)
(* Where the Dreaming and its tab are                                      *)
DreamTyped ==
    /\ tab \in Tabs
    /\ last \in {"none", "running", "succeeded", "failed"}
    /\ partition \in 0..MaxRuns
    /\ last = "running" => partition < MaxRuns
    /\ polls \in Seq(Poll1)
    /\ refreshed \in BOOLEAN /\ failed \in BOOLEAN /\ missed \in BOOLEAN
    /\ loads # Nowhere => loads \in Loads
    /\ data # Nowhere => data \in Graphs /\ reports \in Graphs \cup {NoReports}
    /\ noticed \in 0..MaxRuns

(* What a load has read so far is not older than the success noticed last. *)
Late(load) ==
    /\ load.graph # Nowhere => load.graph.asOf >= noticed
    /\ load.reports \notin {Nowhere, NoReports} => load.reports.asOf >= noticed

(* What is on the tab is not older either.                                 *)
Recent ==
    /\ data.asOf >= noticed
    /\ reports # NoReports => reports.asOf >= noticed

(* Whatever was noticed has been published. What is shown, or is being     *)
(* loaded, is not older; nor is what will not be loaded again, unless a    *)
(* login has kept it. Nothing is loaded behind another tab.                *)
Seen ==
    /\ noticed <= partition
    /\ \A i \in DOMAIN polls : polls[i].partition <= partition
    /\ ~refreshed /\ ~missed /\ data # Nowhere => Recent
    /\ tab # "balthasar" => loads = Nowhere
    /\ loads # Nowhere => Late(loads)
    /\ (tab = "balthasar" /\ loads = Nowhere /\ ~failed /\ ~missed) =>
          data # Nowhere /\ Recent

(* What is selected is on the drawing.                                     *)
Selected == chosen # Nowhere => data # Nowhere /\ chosen \in Drawing(data, mode).nodes

(* The invariant of the Dreaming and of its tab                            *)
DreamInv == DreamTyped /\ Seen /\ Selected

(* A request reads the partition published last.                           *)
LEMMA ReadIsNow ==
    ASSUME DreamInv, NEW dreams \in BOOLEAN
    PROVE  Read(dreams) \in Graphs /\ Read(dreams).asOf = partition
BY DreamingAssumption DEF DreamInv, DreamTyped, Read, Graphs

(* A load that begins has read nothing yet.                                *)
LEMMA NewLoadIsOne ==
    /\ NewLoad \in Loads /\ NewLoad # Nowhere
    /\ Late(NewLoad)
BY DreamingAssumption DEF NewLoad, Loads, Late

(* The effect that loads, of a render that may have noticed a success: the *)
(* load under way is cancelled, so nothing older than it is shown.         *)
LEMMA EffectKeeps ==
    ASSUME DreamInv, NEW t \in Tabs, NEW again \in BOOLEAN,
           LoadEffect(t = "balthasar", again), tab' = t,
           noticed' \in 0..MaxRuns, noticed' <= partition,
           UNCHANGED <<dreamServer, data, reports, failed, mode, chosen>>,
           missed' \in BOOLEAN, refreshed' = again,
           polls' \in Seq(Poll1), \A i \in DOMAIN polls' : polls'[i].partition <= partition,
           ~again /\ ~missed' /\ data # Nowhere => Recent'
    PROVE  DreamInv'
<1> USE DEF dreamServer
<1>1. loads' \in {NewLoad, Nowhere} BY DEF LoadEffect
<1>2. loads' = NewLoad => Late(NewLoad)'
  BY DreamingAssumption DEF NewLoad, Late
<1>3. DreamTyped'
  BY <1>1, NewLoadIsOne DEF DreamInv, DreamTyped
<1>4. (loads # Nowhere => Late(loads))'
  BY <1>1, <1>2
<1>5. tab' # "balthasar" => loads' = Nowhere
  BY DEF LoadEffect
<1>6. tab' = "balthasar" /\ loads' = Nowhere =>
         data # Nowhere /\ ~again
  BY NewLoadIsOne DEF LoadEffect
<1>7. tab' = "balthasar" /\ loads' = Nowhere /\ ~failed' /\ ~missed' =>
         data' # Nowhere /\ Recent'
  BY <1>6
<1>10. ~refreshed' /\ ~missed' /\ data' # Nowhere => Recent'
  OBVIOUS
<1>11. /\ noticed' <= partition'
       /\ \A i \in DOMAIN polls' : polls'[i].partition <= partition'
  OBVIOUS
<1> HIDE DEF Recent
<1>8. Seen'
  BY <1>4, <1>5, <1>7, <1>10, <1>11 DEF Seen
<1>9. Selected'
  BY DEF DreamInv, Selected, Drawing
<1> QED BY <1>3, <1>8, <1>9 DEF DreamInv

(* A poll that is answered is dropped; the others stay.                    *)
LEMMA WithoutOne ==
    ASSUME NEW S, polls \in Seq(S), NEW i \in DOMAIN polls
    PROVE  /\ Without(i) \in Seq(S)
           /\ \A j \in DOMAIN Without(i) : \E k \in DOMAIN polls : Without(i)[j] = polls[k]
<1>1. Without(i) = Drop(polls, i)
  BY DEF Without, Drop
<1>2. i \in 1..Len(polls) /\ Len(polls) \in Nat /\ DOMAIN polls = 1..Len(polls)
  BY SMTT(60)
<1>3. /\ Drop(polls, i) \in Seq(S) /\ Len(Drop(polls, i)) = Len(polls) - 1
      /\ \A j \in 1..(Len(polls) - 1) :
            Drop(polls, i)[j] = IF j < i THEN polls[j] ELSE polls[j + 1]
  BY <1>2, Dropped
<1>4. ASSUME NEW j \in 1..(Len(polls) - 1)
      PROVE  \E k \in DOMAIN polls : Drop(polls, i)[j] = polls[k]
  <2>1. CASE j < i
    BY <1>2, <1>3, <2>1
  <2>2. CASE ~(j < i)
    <3>1. j + 1 \in DOMAIN polls BY <1>2
    <3> QED BY <1>3, <2>2, <3>1
  <2> QED BY <2>1, <2>2
<1>5. DOMAIN Drop(polls, i) = 1..(Len(polls) - 1)
  BY <1>2, <1>3
<1> QED BY SMTT(60), <1>1, <1>3, <1>4, <1>5

(* A poll is asked.                                                        *)
LEMMA PollAppended ==
    ASSUME DreamInv, NEW now \in BOOLEAN, polls' = Append(polls, AskedPoll(now))
    PROVE  /\ polls' \in Seq(Poll1)
           /\ \A i \in DOMAIN polls' : polls'[i].partition <= partition
<1>1. AskedPoll(now) \in Poll1 /\ AskedPoll(now).partition = 0
  BY DreamingAssumption DEF AskedPoll, Poll1
<1>2. polls \in Seq(Poll1) /\ \A i \in DOMAIN polls : polls[i].partition <= partition
  BY DEF DreamInv, DreamTyped, Seen
<1>3. /\ polls' \in Seq(Poll1) /\ Len(polls') = Len(polls) + 1
      /\ polls'[Len(polls) + 1] = AskedPoll(now)
      /\ \A i \in 1..Len(polls) : polls'[i] = polls[i]
  BY <1>1, <1>2, Appended
<1>4. ASSUME NEW i \in DOMAIN polls' PROVE polls'[i].partition <= partition
  <2>1. CASE i = Len(polls) + 1
    BY <2>1, <1>1, <1>3 DEF DreamInv, DreamTyped
  <2>2. CASE i # Len(polls) + 1
    <3>1. i \in 1..Len(polls) BY <2>2, <1>2, <1>3
    <3>2. polls'[i] = polls[i] /\ polls[i].partition <= partition
      BY <3>1, <1>2, <1>3
    <3> QED BY <3>2
  <2> QED BY <2>1, <2>2
<1> QED BY <1>3, <1>4

(* The answers keep the invariant, in whatever order they come.            *)
LEMMA DreamAnswers ==
    ASSUME DreamInv, NEW dreams \in BOOLEAN, BalthasarAnswers(dreams),
           UNCHANGED <<dreamServer, tab>>
    PROVE  DreamInv'
<1> USE DreamingAssumption DEF dreamServer
<1>1. CASE GraphReads(dreams)
  <2>1. /\ loads' \in Loads /\ loads'.graph = Read(dreams) /\ loads'.reports = loads.reports
        /\ loads' # Nowhere /\ loads # Nowhere
    BY <1>1, ReadIsNow DEF GraphReads, DreamInv, DreamTyped, Loads
  <2>2. Late(loads)'
    BY <1>1, <2>1, ReadIsNow DEF GraphReads, DreamInv, DreamTyped, Seen, Late, Graphs,
       statusVars, histories, Recent
  <2> QED
    BY <1>1, <2>1, <2>2 DEF GraphReads, DreamInv, DreamTyped, Seen, Selected, Drawing,
       statusVars, histories, Recent
<1>2. CASE ReportsRead(dreams)
  <2>0. PICK r \in {Read(dreams), NoReports} : loads' = [loads EXCEPT !.reports = r]
    BY <1>2 DEF ReportsRead
  <2>1. /\ loads' \in Loads /\ loads'.reports = r /\ loads'.graph = loads.graph
        /\ loads' # Nowhere /\ loads # Nowhere
    BY <1>2, <2>0, ReadIsNow DEF ReportsRead, DreamInv, DreamTyped, Loads
  <2>2. Late(loads)'
    BY <1>2, <2>1, ReadIsNow DEF ReportsRead, DreamInv, DreamTyped, Seen, Late, Graphs,
       statusVars, histories, Recent
  <2> QED
    BY <1>2, <2>1, <2>2 DEF ReportsRead, DreamInv, DreamTyped, Seen, Selected, Drawing,
       statusVars, histories, Recent
<1>3. CASE LoadDone
  <2>1. /\ data' \in Graphs /\ reports' \in Graphs \cup {NoReports}
        /\ data' # Nowhere /\ reports' # Nowhere
    BY <1>3 DEF LoadDone, DreamInv, DreamTyped, Loads
  <2>2. data'.asOf >= noticed' /\ (reports' # NoReports => reports'.asOf >= noticed')
    BY <1>3, <2>1, DreamingAssumption DEF LoadDone, DreamInv, Seen, Late, Graphs
  <2> QED
    BY <1>3, <2>1, <2>2 DEF LoadDone, DreamInv, DreamTyped, Seen, Selected, statusVars,
       histories, Recent
<1>4. CASE LoadFailed
  BY <1>4 DEF LoadFailed, DreamInv, DreamTyped, Seen, Selected, Drawing, statusVars, histories,
     Recent
<1>5. CASE StartAnswers
  <2>1. AskedPoll(TRUE) \in Poll1 /\ AskedPoll(TRUE).partition = 0
    BY DEF AskedPoll, Poll1
  <2>2. /\ polls' \in Seq(Poll1)
        /\ \A i \in DOMAIN polls' : polls'[i].partition <= partition
    BY <1>5, <2>1, PollAppended DEF StartAnswers
  <2> QED
    BY ZenonT(60), <1>5, <2>2 DEF StartAnswers, DreamInv, DreamTyped, Seen, Late, Selected,
       Drawing, graphVars, histories, Recent
<1>6. CASE StartFails
  BY <1>6 DEF StartFails, DreamInv, DreamTyped, Seen, Late, Selected, Drawing, graphVars,
     histories, Recent
<1>7. ASSUME NEW i \in DOMAIN polls, StatusReads(i, dreams) PROVE DreamInv'
  <2>1. polls[i] \in Poll1
    BY <1>7 DEF DreamInv, DreamTyped
  <2>2. PICK p \in Poll1 : p.partition <= partition /\ polls' = [polls EXCEPT ![i] = p]
    <3>1. CASE polls[i].step = "asked"
      <4> DEFINE p == [polls[i] EXCEPT !.step = "half", !.active = dreams /\ last = "running"]
      <4>0. (dreams /\ last = "running") \in BOOLEAN
        BY Zenon
      <4>1. p \in Poll1 /\ p.partition = polls[i].partition
        BY <2>1, <4>0 DEF Poll1
      <4>2. polls' = [polls EXCEPT ![i] = p]
        BY <1>7, <3>1 DEF StatusReads
      <4>3. polls[i].partition <= partition
        BY <1>7 DEF DreamInv, Seen
      <4> QED BY <4>1, <4>2, <4>3
    <3>2. CASE polls[i].step = "half"
      <4> DEFINE p == [polls[i] EXCEPT !.step = "read",
                           !.last = IF dreams THEN last ELSE "none", !.partition = partition]
      <4>1. p \in Poll1 /\ p.partition = partition
        BY <2>1 DEF Poll1, DreamInv, DreamTyped
      <4>2. polls' = [polls EXCEPT ![i] = p]
        BY <1>7, <3>2 DEF StatusReads
      <4>3. partition <= partition
        BY DEF DreamInv, DreamTyped
      <4> QED BY <4>1, <4>2, <4>3
    <3> QED BY <1>7, <3>1, <3>2 DEF StatusReads
  <2>3. /\ polls' \in Seq(Poll1)
        /\ \A j \in DOMAIN polls' : polls'[j].partition <= partition
    BY <1>7, <2>2, ExceptSeq DEF DreamInv, DreamTyped, Seen
  <2> QED
    BY <1>7, <2>3 DEF StatusReads, DreamInv, DreamTyped, Seen, Late, Selected, Drawing,
       graphVars, histories, Recent
<1>8. ASSUME NEW i \in DOMAIN polls, Polled(i)
      PROVE  /\ polls' \in Seq(Poll1)
             /\ \A j \in DOMAIN polls' : polls'[j].partition <= partition
  BY <1>8, WithoutOne DEF Polled, DreamInv, DreamTyped, Seen
<1>9. ASSUME NEW i \in DOMAIN polls, StatusAnswers(i) PROVE DreamInv'
  <2>0. /\ polls' \in Seq(Poll1)
        /\ \A j \in DOMAIN polls' : polls'[j].partition <= partition
    BY <1>8, <1>9 DEF StatusAnswers
  <2>1. CASE wasActive /\ ~polls[i].active /\ polls[i].last = "succeeded"
    <3>1. /\ Refresh
          /\ noticed' = IF polls[i].partition > noticed THEN polls[i].partition ELSE noticed
          /\ missed' = missed
      BY <1>9, <2>1 DEF StatusAnswers
    <3>2. polls[i] \in Poll1 /\ polls[i].partition <= partition /\ noticed <= partition
      BY <1>9 DEF DreamInv, DreamTyped, Seen
    <3>3. noticed' \in 0..MaxRuns /\ noticed' <= partition
      BY <3>1, <3>2 DEF Poll1, DreamInv, DreamTyped
    <3>4. tab \in Tabs /\ refreshed' = TRUE /\ missed' \in BOOLEAN
      BY <3>1 DEF Refresh, DreamInv, DreamTyped
    <3>5. LoadEffect(tab = "balthasar", TRUE) /\ UNCHANGED <<data, reports, failed, mode, chosen>>
      BY <3>1 DEF Refresh
    <3> QED
      BY <2>0, <3>3, <3>4, <3>5, EffectKeeps
  <2>2. CASE ~(wasActive /\ ~polls[i].active /\ polls[i].last = "succeeded")
    <3>1. UNCHANGED <<graphVars, histories>>
      BY <1>9, <2>2 DEF StatusAnswers
    <3> QED
      BY <2>0, <3>1 DEF DreamInv, DreamTyped, Seen, Late, Selected, Drawing, graphVars,
         histories, Recent
  <2> QED BY <2>1, <2>2
<1>10. ASSUME NEW i \in DOMAIN polls, StatusFails(i) PROVE DreamInv'
  <2>0. /\ polls' \in Seq(Poll1)
        /\ \A j \in DOMAIN polls' : polls'[j].partition <= partition
    BY <1>8, <1>10 DEF StatusFails
  <2> QED
    BY <2>0, <1>10 DEF StatusFails, DreamInv, DreamTyped, Seen, Late, Selected, Drawing,
       graphVars, histories, Recent
<1> QED
  BY <1>1, <1>2, <1>3, <1>4, <1>5, <1>6, <1>7, <1>9, <1>10 DEF BalthasarAnswers

(* The buttons, the query and the polling keep it.                         *)
LEMMA DreamUser ==
    ASSUME DreamInv, BalthasarUser \/ BalthasarLook \/ AskStatus,
           UNCHANGED <<dreamServer, tab>>
    PROVE  DreamInv'
<1> USE DEF dreamServer
<1>1. CASE RefreshGraph
  BY <1>1, EffectKeeps DEF RefreshGraph, Refresh, statusVars, DreamInv, DreamTyped, Seen,
     histories, Recent
<1>2. CASE QueryChanges
  <2>1. LoadEffect(tab = "balthasar", refreshed)
    BY <1>2 DEF QueryChanges
  <2> QED
    BY <1>2, <2>1, EffectKeeps DEF QueryChanges, statusVars, DreamInv, DreamTyped, Seen,
       histories, Recent
<1>3. CASE DreamNow
  BY <1>3 DEF DreamNow, DreamInv, DreamTyped, Seen, Late, Selected, Drawing, graphVars,
     histories, Recent
<1>4. ASSUME NEW m \in Modes, ChangeMode(m) PROVE DreamInv'
  BY <1>4 DEF ChangeMode, DreamInv, DreamTyped, Seen, Late, Selected, statusVars, histories,
     Recent
<1>5. ASSUME NEW n \in Members \cup Communities, Select(n) PROVE DreamInv'
  BY <1>5 DEF Select, DreamInv, DreamTyped, Seen, Late, Selected, Drawing, statusVars,
     histories, Recent
<1>6. CASE AskStatus
  <2>1. /\ polls' \in Seq(Poll1)
        /\ \A i \in DOMAIN polls' : polls'[i].partition <= partition
    BY <1>6, PollAppended DEF AskStatus
  <2> QED
    BY ZenonT(60), <1>6, <2>1 DEF AskStatus, DreamInv, DreamTyped, Seen, Late, Selected, Drawing,
       graphVars, histories, Recent
<1> QED BY <1>1, <1>2, <1>3, <1>4, <1>5, <1>6 DEF BalthasarUser, BalthasarLook

(* The server only publishes more.                                         *)
LEMMA DreamServes ==
    ASSUME DreamInv, NEW dreams \in BOOLEAN,
           StartServed(dreams) \/ RunSucceeds \/ RunFails \/ AnotherStarts
    PROVE  DreamInv'
<1> USE DreamingAssumption DEF dreamServer, DreamInv, DreamTyped, Seen, Late, Selected, Drawing,
   Recent
<1>1. CASE StartServed(dreams)
  BY <1>1 DEF StartServed, RunStarts, graphVars, histories
<1>2. CASE RunSucceeds
  <2>1. partition' \in 0..MaxRuns /\ partition' = partition + 1 /\ last' = "succeeded"
    BY <1>2 DEF RunSucceeds
  <2>2. UNCHANGED <<balthasar, tab>>
    BY <1>2 DEF RunSucceeds, Offered
  <2>3. noticed <= partition + 1
    BY <2>1
  <2>4. ASSUME NEW i \in DOMAIN polls PROVE polls[i].partition <= partition + 1
    <3>1. polls[i] \in Poll1 /\ polls[i].partition <= partition
      OBVIOUS
    <3> QED BY <3>1 DEF Poll1
  <2> QED BY <2>1, <2>2, <2>3, <2>4 DEF balthasar, statusVars, graphVars, histories
<1>3. CASE RunFails
  BY <1>3 DEF RunFails, Offered, balthasar, statusVars, graphVars, histories
<1>4. CASE AnotherStarts
  BY <1>4 DEF AnotherStarts, RunStarts, Offered, balthasar, statusVars, graphVars, histories
<1> QED BY <1>1, <1>2, <1>3, <1>4

(* A change of the tab loads what was not shown meanwhile.                 *)
LEMMA DreamTab ==
    ASSUME DreamInv, NEW t \in Tabs, BalthasarTab(t), tab' = t, UNCHANGED dreamServer
    PROVE  DreamInv'
<1>1. LoadEffect(t = "balthasar", refreshed)
  BY DEF BalthasarTab
<1> QED
  BY <1>1, EffectKeeps DEF BalthasarTab, statusVars, DreamInv, DreamTyped, Seen, histories, Recent

(* The page that is loaded anew has noticed nothing.                       *)
LEMMA DreamAgain ==
    ASSUME DreamInv, BalthasarMounted, UNCHANGED <<dreamServer, tab>>
    PROVE  DreamInv'
<1>1. loads' = (IF tab = "balthasar" THEN NewLoad ELSE Nowhere) /\ noticed' = 0
  BY DEF BalthasarMounted, Remounted
<1>2. NewLoad \in Loads /\ NewLoad # Nowhere /\ Late(NewLoad)'
  BY <1>1, DreamingAssumption DEF NewLoad, Loads, Late
<1>3. DreamTyped'
  <2>1. polls' \in Seq(Poll1)
    BY DEF BalthasarMounted, Remounted
  <2>2. noticed' \in 0..MaxRuns
    BY <1>1, DreamingAssumption
  <2>3. loads' # Nowhere => loads' \in Loads
    BY <1>1, <1>2
  <2> QED
    BY <2>1, <2>2, <2>3 DEF BalthasarMounted, Remounted, dreamServer, DreamInv, DreamTyped
<1>4. Seen'
  BY <1>1, <1>2 DEF BalthasarMounted, Remounted, dreamServer, DreamInv, DreamTyped, Seen
<1> QED
  BY <1>3, <1>4 DEF DreamInv, Selected, BalthasarMounted

(* A login has noticed what was noticed before it: what it keeps is recent *)
(* or missed.                                                              *)
LEMMA DreamOver ==
    ASSUME DreamInv, BalthasarKept, UNCHANGED <<dreamServer, tab>>
    PROVE  DreamInv'
<1> DEFINE load == IF tab = "balthasar" /\ data = Nowhere THEN NewLoad ELSE Nowhere
<1>1. /\ UNCHANGED <<last, partition, tab, data, reports, mode, chosen, noticed>>
      /\ polls' = <<>> /\ refreshed' = FALSE /\ failed' = FALSE /\ loads' = load
      /\ missed' = (missed \/ Older)
  BY DEF BalthasarKept, Remounted, dreamServer
<1>2. /\ load # Nowhere => load = NewLoad /\ load \in Loads /\ data = Nowhere
      /\ tab = "balthasar" /\ load = Nowhere => data # Nowhere
      /\ tab # "balthasar" => load = Nowhere
  BY NewLoadIsOne
<1> HIDE DEF load
<1>3. ~missed' /\ data # Nowhere => Recent
  <2> SUFFICES ASSUME ~Older, data # Nowhere PROVE Recent
    BY <1>1
  <2> QED
    BY DreamingAssumption DEF Older, Recent, DreamInv, DreamTyped, Graphs
<1>4. Recent' <=> Recent
  BY <1>1 DEF Recent
<1>5. missed' \in BOOLEAN
  BY <1>1, Zenon DEF DreamInv, DreamTyped, Older
<1>6. loads' # Nowhere => Late(loads)'
  BY <1>1, <1>2, DreamingAssumption DEF NewLoad, Late
<1>7. polls' \in Seq(Poll1) /\ DOMAIN polls' = {}
  BY <1>1
<1>8. DreamTyped'
  BY <1>1, <1>2, <1>5, <1>7 DEF DreamInv, DreamTyped
<1>9. Seen'
  BY <1>1, <1>2, <1>3, <1>4, <1>6, <1>7 DEF DreamInv, Seen
<1>10. Selected'
  BY <1>1 DEF DreamInv, Selected, Drawing
<1> QED BY <1>8, <1>9, <1>10 DEF DreamInv

(* Nothing is dreamt, nothing is shown.                                    *)
LEMMA DreamStart == ASSUME Init PROVE DreamInv
<1>1. polls \in Seq(Poll1) /\ DOMAIN polls = {}
  BY DEF Init, DreamingInit
<1>2. DreamTyped
  <2>1. partition \in 0..MaxRuns /\ noticed \in 0..MaxRuns
    BY DreamingAssumption DEF Init, DreamingInit
  <2> QED BY <1>1, <2>1 DEF Init, DreamingInit, DreamTyped, Tabs
<1>3. Seen /\ Selected
  BY <1>1, DreamingAssumption DEF Init, DreamingInit, Seen, Selected, Recent
<1> QED BY <1>2, <1>3 DEF DreamInv

(* The invariant of the Dreaming is inductive.                             *)
LEMMA DreamKept == DreamInv /\ [Next]_vars => DreamInv'
<1> SUFFICES ASSUME DreamInv, [Next]_vars PROVE DreamInv'
  OBVIOUS
<1>1. (active = Default) \in BOOLEAN
  OBVIOUS
<1>2. CASE UNCHANGED <<dreamServer, balthasar, tab>>
  BY <1>2 DEF dreamServer, balthasar, statusVars, graphVars, DreamInv, DreamTyped, Seen, Late,
              Selected, Drawing, histories, Recent
<1> QED BY <1>1, <1>2, DreamMove, DreamUser, DreamAnswers, DreamServes, DreamTab, DreamAgain,
        DreamOver

(* It is what the tab promises.                                            *)
LEMMA FinishFollows == DreamInv => FinishIsShown
BY DEF DreamInv, DreamTyped, Seen, Selected, FinishIsShown, Recent

(* Once the tab has seen a run succeed (BalthasarView.tsx), and no load is *)
(* under way or has failed, it shows a graph and reports that were read    *)
(* after that run, whatever polls overtake each other and whichever load   *)
(* is cancelled; only a login since then can have kept what is older,      *)
(* until the next load.  Nothing is selected that is not drawn.            *)
THEOREM FinishAppears == Spec => []FinishIsShown
<1> QED BY FinishFollows, DreamStart, DreamKept, PTL DEF Spec

(* ------------------------- the frames of a trace ----------------------- *)
(* What a recursion over 0..n computes                                     *)
Fold(r, n, f, es) == r = [k \in 0..n |-> IF k = 0 THEN f ELSE Reduced(r[k - 1], es[k])]

(* It is a function of its own for every n.                                *)
LEMMA FoldThere ==
    ASSUME NEW n \in Nat, NEW f, NEW es
    PROVE  \E r : Fold(r, n, f, es)
<1> DEFINE T == {k \in Nat : ~ \E r : Fold(r, k, f, es)}
<1>1. SUFFICES ASSUME T # {} PROVE FALSE
  OBVIOUS
<1>2. PICK k \in T : \A m \in T : ~(m < k)
  BY <1>1, Least
<1>3. CASE k = 0
  <2>1. Fold([j \in 0..0 |-> f], 0, f, es)
    BY DEF Fold
  <2> QED BY <1>2, <1>3, <2>1
<1>4. CASE k # 0
  <2>1. k \in Nat /\ k - 1 \in Nat /\ k - 1 < k
    BY <1>2, <1>4
  <2>2. PICK q : Fold(q, k - 1, f, es)
    BY <1>2, <2>1
  <2> DEFINE r == [j \in 0..k |-> IF j = k THEN Reduced(q[k - 1], es[k]) ELSE q[j]]
  <2>3. \A j \in 0..(k - 1) : r[j] = q[j]
    BY <2>1
  <2>4. \A j \in 0..(k - 1) : q[j] = IF j = 0 THEN f ELSE Reduced(q[j - 1], es[j])
    BY <2>2 DEF Fold
  <2>5. \A j \in 0..k : r[j] = IF j = 0 THEN f ELSE Reduced(r[j - 1], es[j])
    <3> SUFFICES ASSUME NEW j \in 0..k PROVE r[j] = IF j = 0 THEN f ELSE Reduced(r[j - 1], es[j])
      OBVIOUS
    <3>1. CASE j = k
      <4>1. r[j] = Reduced(q[k - 1], es[k]) BY <3>1
      <4>2. r[k - 1] = q[k - 1] BY <2>1, <2>3
      <4> QED BY <3>1, <4>1, <4>2, <1>4
    <3>2. CASE j # k
      <4>1. j \in 0..(k - 1) BY <2>1, <3>2
      <4>2. j # 0 => j - 1 \in 0..(k - 1) BY <4>1, <2>1
      <4> QED BY <4>1, <4>2, <2>3, <2>4
    <3> QED BY <3>1, <3>2
  <2> HIDE DEF r
  <2>6. r = [j \in 0..k |-> r[j]] BY DEF r
  <2>7. r = [j \in 0..k |-> IF j = 0 THEN f ELSE Reduced(r[j - 1], es[j])]
    BY <2>5, <2>6
  <2> QED BY <1>2, <2>7 DEF Fold
<1> QED BY <1>3, <1>4

(* Two of them agree as long as their events do.                           *)
LEMMA FoldsAgree ==
    ASSUME NEW n \in Nat, NEW m \in Nat, n <= m, NEW f, NEW es, NEW ds, NEW q, NEW r,
           \A k \in 1..n : es[k] = ds[k],
           Fold(q, n, f, es), Fold(r, m, f, ds)
    PROVE  q[n] = r[n]
<1> DEFINE T == {k \in 0..n : q[k] # r[k]}
<1>1. SUFFICES ASSUME T # {} PROVE FALSE
  OBVIOUS
<1>2. PICK k \in T : \A j \in T : ~(j < k)
  <2>1. T \in SUBSET Nat OBVIOUS
  <2> QED BY <1>1, <2>1, Least
<1>3. /\ q[k] = IF k = 0 THEN f ELSE Reduced(q[k - 1], es[k])
      /\ r[k] = IF k = 0 THEN f ELSE Reduced(r[k - 1], ds[k])
  <2>1. k \in 0..n /\ k \in 0..m
    BY <1>2
  <2>2. q[k] = IF k = 0 THEN f ELSE Reduced(q[k - 1], es[k])
    BY <2>1 DEF Fold
  <2>3. r[k] = IF k = 0 THEN f ELSE Reduced(r[k - 1], ds[k])
    BY <2>1 DEF Fold
  <2> QED BY <2>2, <2>3
<1>4. k # 0
  BY <1>2, <1>3
<1>5. k - 1 \in 0..n /\ k - 1 < k /\ k \in 1..n
  BY <1>2, <1>4
<1>6. q[k - 1] = r[k - 1]
  BY <1>2, <1>5
<1> QED BY <1>2, <1>3, <1>5, <1>6

(* ReducedAll is where the recursion ends.                                 *)
LEMMA ReducedAllIs ==
    ASSUME NEW S, NEW es \in Seq(S), NEW f
    PROVE  \E r : Fold(r, Len(es), f, es) /\ ReducedAll(f, es) = r[Len(es)]
<1> DEFINE r == CHOOSE r : Fold(r, Len(es), f, es)
<1>1. Fold(r, Len(es), f, es)
  BY FoldThere
<1>2. ReducedAll(f, es) = r[Len(es)]
  BY DEF ReducedAll, Fold
<1> QED BY <1>1, <1>2

(* Nothing comes of no events.                                             *)
LEMMA ReducedNone == ASSUME NEW f PROVE ReducedAll(f, <<>>) = f
<1>1. <<>> \in Seq({}) /\ Len(<<>>) = 0
  OBVIOUS
<1>2. PICK r : Fold(r, 0, f, <<>>) /\ ReducedAll(f, <<>>) = r[0]
  BY <1>1, ReducedAllIs
<1> QED BY <1>2 DEF Fold

(* Events applied answer by answer (applyEvents) build what they build at  *)
(* once: so a replay of the history shows the frames that were shown.      *)
LEMMA ReducedTwice ==
    ASSUME NEW S, NEW s \in Seq(S), NEW t \in Seq(S), NEW f
    PROVE  ReducedAll(f, s \o t) = ReducedAll(ReducedAll(f, s), t)
<1> DEFINE n == Len(s)
           m == Len(t)
<1>1. /\ s \o t \in Seq(S) /\ Len(s \o t) = n + m /\ n \in Nat /\ m \in Nat
      /\ \A i \in 1..n : (s \o t)[i] = s[i]
      /\ \A i \in 1..m : (s \o t)[n + i] = t[i]
  BY ConcatProperties
<1>2. PICK q : Fold(q, n, f, s) /\ ReducedAll(f, s) = q[n]
  BY ReducedAllIs
<1>3. PICK p : Fold(p, m, q[n], t) /\ ReducedAll(q[n], t) = p[m]
  BY ReducedAllIs
<1>4. PICK r : Fold(r, n + m, f, s \o t) /\ ReducedAll(f, s \o t) = r[n + m]
  BY <1>1, ReducedAllIs
<1> HIDE DEF n, m
<1> DEFINE T == {k \in 0..m : r[n + k] # p[k]}
<1>5. T = {}
  <2> SUFFICES ASSUME T # {} PROVE FALSE
    OBVIOUS
  <2>1. PICK k \in T : \A j \in T : ~(j < k)
    <3>1. T \in SUBSET Nat OBVIOUS
    <3> QED BY <3>1, Least
  <2>2. k # 0
    <3>1. p[0] = q[n]
      BY <1>1, <1>3 DEF Fold
    <3>2. n <= n + m /\ n + m \in Nat
      BY <1>1
    <3>3. q[n] = r[n]
      <4> DEFINE all == n + m
                 both == s \o t
      <4>1. /\ \A i \in 1..n : s[i] = both[i]
            /\ n \in Nat /\ all \in Nat /\ n <= all
        BY <1>1, <3>2
      <4>2. Fold(q, n, f, s) /\ Fold(r, all, f, both)
        BY <1>2, <1>4
      <4> HIDE DEF T, all, both
      <4> QED BY <4>1, <4>2, FoldsAgree
    <3>4. n + 0 = n
      BY <1>1
    <3> QED BY <2>1, <3>1, <3>3, <3>4
  <2>3. /\ k - 1 \in 0..m /\ k - 1 < k /\ k \in 1..m
        /\ n + k \in 0..(n + m) /\ n + k # 0 /\ (n + k) - 1 = n + (k - 1)
    BY <1>1, <2>1, <2>2
  <2>4. r[n + k] = Reduced(r[(n + k) - 1], (s \o t)[n + k])
    BY <1>4, <2>3 DEF Fold
  <2>5. p[k] = Reduced(p[k - 1], t[k])
    BY <1>3, <2>3, <2>2 DEF Fold
  <2>6. r[n + (k - 1)] = p[k - 1]
    BY <2>1, <2>3
  <2>7. (s \o t)[n + k] = t[k]
    BY <1>1, <2>3
  <2>8. r[n + k] = p[k]
    BY <2>3, <2>4, <2>5, <2>6, <2>7
  <2> QED BY <2>1, <2>8
<1>6. m \in 0..m
  BY <1>1
<1> QED BY <1>2, <1>3, <1>4, <1>5, <1>6

(* No call is ever dropped, and the end of a call is where an event was.   *)
LEMMA ReducedGrows ==
    ASSUME NEW S, NEW es \in Seq(S), NEW f
    PROVE  /\ DOMAIN f \subseteq DOMAIN ReducedAll(f, es)
           /\ \A c \in DOMAIN ReducedAll(f, es) :
                 \/ c \in DOMAIN f /\ ReducedAll(f, es)[c].at = f[c].at
                 \/ \E k \in 1..Len(es) : ReducedAll(f, es)[c].at = es[k].seq
<1> DEFINE n == Len(es)
           Good(g) == /\ DOMAIN f \subseteq DOMAIN g
                      /\ \A c \in DOMAIN g : \/ c \in DOMAIN f /\ g[c].at = f[c].at
                                             \/ \E k \in 1..n : g[c].at = es[k].seq
<1>1. PICK r : Fold(r, n, f, es) /\ ReducedAll(f, es) = r[n]
  BY ReducedAllIs
<1>0. n \in Nat /\ n \in 0..n
  OBVIOUS
<1> HIDE DEF n
<1> DEFINE T == {k \in 0..n : ~Good(r[k])}
<1>2. T = {}
  <2> SUFFICES ASSUME T # {} PROVE FALSE
    OBVIOUS
  <2>1. PICK k \in T : \A j \in T : ~(j < k)
    <3>1. T \in SUBSET Nat OBVIOUS
    <3> QED BY <3>1, Least
  <2>2. k # 0
    <3> SUFFICES ASSUME k = 0 PROVE FALSE OBVIOUS
    <3>1. r[0] = f
      BY <1>0, <1>1 DEF Fold
    <3> QED BY <2>1, <3>1
  <2>3. k - 1 \in 0..n /\ k - 1 < k /\ k \in 1..n
    BY <1>0, <2>1, <2>2
  <2>4. r[k] = Reduced(r[k - 1], es[k])
    BY <1>1, <2>3, <2>2 DEF Fold
  <2>5. Good(r[k - 1])
    BY <2>1, <2>3
  <2> HIDE DEF T
  <2>6. DOMAIN f \subseteq DOMAIN r[k]
    BY <2>4, <2>5 DEF Reduced
  <2>7. ASSUME NEW c \in DOMAIN r[k]
        PROVE  \/ c \in DOMAIN f /\ r[k][c].at = f[c].at
               \/ \E j \in 1..n : r[k][c].at = es[j].seq
    <3>1. \/ c \in DOMAIN r[k - 1] /\ r[k][c] = r[k - 1][c]
          \/ r[k][c] = Frame(r[k - 1], es[k])
      BY <2>4, <2>7 DEF Reduced
    <3>2. CASE c \in DOMAIN r[k - 1] /\ r[k][c] = r[k - 1][c]
      BY <2>5, <3>2
    <3>3. CASE r[k][c] = Frame(r[k - 1], es[k])
      <4>1. r[k][c].at = es[k].seq
        BY <3>3 DEF Frame
      <4> QED BY <4>1, <2>3
    <3> QED BY <3>1, <3>2, <3>3
  <2>8. Good(r[k])
    BY <2>6, <2>7
  <2> QED BY <2>1, <2>8 DEF T
<1>3. Good(r[n])
  BY <1>0, <1>2
<1> QED BY <1>1, <1>3 DEF n

(* ---------------------- the trace that is followed --------------------- *)
(* The events of a trace are numbered from one, without a gap.             *)
LogTyped ==
    /\ log \in [Explorations -> Seq(Events)]
    /\ recent \in Seq(Explorations)
    /\ handling \subseteq [x : Explorations, call : Calls, step : {"check", "append", "expand"}]
    /\ \A x \in Explorations : \A k \in 1..Len(log[x]) : log[x][k].seq = k

(* What the tab has is a prefix of the log of the exploration it follows,  *)
(* and what it asks for is what comes next.                                *)
Follows ==
    /\ current \in Explorations \cup {Nothing}
    /\ lastSeq \in Nat
    /\ current # Nothing => /\ lastSeq <= Len(log[current])
                            /\ events = SubSeq(log[current], 1, lastSeq)
    /\ current = Nothing => lastSeq = 0 /\ events = <<>>
    /\ wanted # Nothing => /\ current # Nothing
                           /\ wanted.x = current /\ wanted.after = lastSeq
    /\ frames = ReducedAll(<<>>, events)
    /\ replay # Nothing => replay.seq \in Nat

(* The invariant of the log and of the tab                                 *)
TraceInv == LogTyped /\ Follows

(* The k-th event the tab has is the event number k.                       *)
LEMMA PrefixTyped ==
    ASSUME TraceInv
    PROVE  /\ events \in Seq(Events) /\ Len(events) = lastSeq
           /\ \A k \in 1..lastSeq : events[k].seq = k
<1>1. CASE current = Nothing
  BY <1>1 DEF TraceInv, Follows
<1>2. CASE current # Nothing
  <2>1. log[current] \in Seq(Events) /\ lastSeq \in 0..Len(log[current])
    BY <1>2 DEF TraceInv, LogTyped, Follows
  <2>2. events = SubSeq(log[current], 1, lastSeq)
    BY <1>2 DEF TraceInv, Follows
  <2>3. \A k \in 1..lastSeq : events[k] = log[current][k]
    BY <2>1, <2>2
  <2>4. events \in Seq(Events) /\ Len(events) = lastSeq
    BY <2>1, <2>2
  <2> QED BY SMTT(60), <1>2, <2>1, <2>3, <2>4 DEF TraceInv, LogTyped, Follows
<1> QED BY <1>1, <1>2

(* The list of traces stays one.                                           *)
LEMMA TouchedTyped ==
    ASSUME TraceInv, NEW x \in Explorations
    PROVE  Touched(x) \in Seq(Explorations)
<1>1. Kept(recent, Explorations \ {x}) \in Seq(Explorations)
  BY KeptTyped DEF TraceInv, LogTyped
<1> DEFINE k == Kept(recent, Explorations \ {x})
           h == <<x>>
<1>2. h \in Seq(Explorations)
  OBVIOUS
<1>3. Touched(x) = h \o k
  BY DEF Touched
<1> HIDE DEF h, k
<1>4. k \in Seq(Explorations)
  BY <1>1 DEF k
<1> QED BY <1>2, <1>3, <1>4, ConcatProperties

(* append_exploration_event only adds to a log: what the tab has is still  *)
(* a prefix of it.                                                         *)
LEMMA AppendsOne ==
    ASSUME TraceInv, NEW x \in Explorations, NEW call \in Calls,
           NEW type \in {"initialized", "started", "completed", "failed"},
           Append1(x, type, call), UNCHANGED melchior,
           handling' \subseteq [x : Explorations, call : Calls, step : {"check", "append", "expand"}]
    PROVE  TraceInv'
<1> DEFINE n == Len(log[x])
           e == [type |-> type, call |-> call, seq |-> n + 1]
<1>1. log[x] \in Seq(Events) /\ n \in Nat
  BY DEF TraceInv, LogTyped
<1>2. e \in Events /\ e.seq = n + 1
  BY <1>1, TraceAssumption DEF Append1, Events
<1>3. log' = [log EXCEPT ![x] = Append(log[x], e)]
  BY DEF Append1
<1> HIDE DEF e
<1>4. /\ log' \in [Explorations -> Seq(Events)]
      /\ log'[x] = Append(log[x], e) /\ Len(log'[x]) = n + 1
      /\ \A y \in Explorations \ {x} : log'[y] = log[y]
  BY <1>1, <1>2, <1>3 DEF TraceInv, LogTyped
<1>5. \A y \in Explorations : /\ Len(log[y]) <= Len(log'[y])
                              /\ \A k \in 1..Len(log[y]) : log'[y][k] = log[y][k]
  <2> SUFFICES ASSUME NEW y \in Explorations
               PROVE  /\ Len(log[y]) <= Len(log'[y])
                      /\ \A k \in 1..Len(log[y]) : log'[y][k] = log[y][k]
    OBVIOUS
  <2>1. CASE y = x
    BY <1>1, <1>2, <1>4, <2>1, Appended
  <2>2. CASE y # x
    <3>1. log'[y] = log[y] /\ log[y] \in Seq(Events)
      BY <1>4, <2>2 DEF TraceInv, LogTyped
    <3> QED BY <3>1
  <2> QED BY <2>1, <2>2
<1>6. ASSUME NEW y \in Explorations, NEW k \in 1..Len(log'[y])
      PROVE  log'[y][k].seq = k
  <2>1. CASE y = x /\ k = n + 1
    BY <1>1, <1>2, <1>4, <2>1, Appended
  <2>2. CASE ~(y = x /\ k = n + 1)
    <3>1. k \in 1..Len(log[y])
      BY <1>1, <1>4, <2>2
    <3> QED BY <1>5, <3>1 DEF TraceInv, LogTyped
  <2> QED BY <2>1, <2>2
<1>7. recent' \in Seq(Explorations)
  <2>1. Kept(recent, Explorations \ {x}) \in Seq(Explorations)
    BY KeptTyped DEF TraceInv, LogTyped
  <2> DEFINE k == Kept(recent, Explorations \ {x})
             h == <<x>>
  <2>2. h \in Seq(Explorations)
    OBVIOUS
  <2>3. recent' = h \o k
    BY DEF Append1, Touched
  <2> HIDE DEF h, k
  <2>4. k \in Seq(Explorations)
    BY <2>1 DEF k
  <2> QED BY <2>2, <2>3, <2>4, ConcatProperties
<1>8. LogTyped'
  BY <1>4, <1>6, <1>7 DEF LogTyped
<1>9. current # Nothing => /\ lastSeq <= Len(log'[current])
                           /\ events = SubSeq(log'[current], 1, lastSeq)
  <2> SUFFICES ASSUME current # Nothing
               PROVE  /\ lastSeq <= Len(log'[current])
                      /\ SubSeq(log[current], 1, lastSeq) = SubSeq(log'[current], 1, lastSeq)
    BY DEF TraceInv, Follows
  <2>1. /\ current \in Explorations /\ lastSeq \in 0..Len(log[current])
        /\ log[current] \in Seq(Events) /\ log'[current] \in Seq(Events)
    BY <1>4 DEF TraceInv, LogTyped, Follows
  <2>2. Len(log[current]) <= Len(log'[current])
    BY <1>5, <2>1
  <2>3. \A k \in 1..lastSeq : log[current][k] = log'[current][k]
    BY <1>5, <2>1
  <2> QED BY <2>1, <2>2, <2>3
<1>10. Follows'
  BY <1>9 DEF TraceInv, Follows, melchior
<1> QED BY <1>8, <1>10 DEF TraceInv

(* The handlers of the agent keep the invariant, wherever they stop.       *)
LEMMA AgentKeeps ==
    ASSUME TraceInv, Agent, UNCHANGED melchior
    PROVE  TraceInv'
<1> DEFINE Handlers == [x : Explorations, call : Calls, step : {"check", "append", "expand"}]
<1>1. ASSUME UNCHANGED log, recent' \in Seq(Explorations), handling' \subseteq Handlers
      PROVE  TraceInv'
  BY <1>1 DEF TraceInv, LogTyped, Follows, melchior
<1>2. handling \subseteq Handlers
  BY DEF TraceInv, LogTyped
<1>3. ASSUME NEW x \in Explorations, RegisterBegin(x)
      PROVE  TraceInv'
  <2>1. Handler(x, "initial", "check") \in Handlers
    BY DEF Handler, Calls
  <2> QED BY <1>1, <1>2, <1>3, <2>1, TouchedTyped DEF RegisterBegin
<1>4. ASSUME NEW x \in Explorations, NEW c \in ExpandCalls, ExpandBegin(x, c)
      PROVE  TraceInv'
  <2>1. Handler(x, c, "expand") \in Handlers /\ c \in Calls
    BY DEF Handler, Calls
  <2>2. handling' \subseteq Handlers
    BY <1>2, <1>4, <2>1 DEF ExpandBegin
  <2> QED BY <1>4, <2>1, <2>2, AppendsOne DEF ExpandBegin
<1>5. ASSUME NEW h \in handling, RegisterLooks(h)
      PROVE  TraceInv'
  <2>1. [h EXCEPT !.step = "append"] \in Handlers
    BY <1>2
  <2>2. handling' \subseteq Handlers
    BY <1>2, <1>5, <2>1 DEF RegisterLooks
  <2>3. UNCHANGED log /\ recent' \in Seq(Explorations)
    BY <1>5 DEF RegisterLooks, TraceInv, LogTyped
  <2> QED BY <1>1, <2>2, <2>3
<1>6. ASSUME NEW h \in handling, RegisterAppends(h)
      PROVE  TraceInv'
  <2>1. h.x \in Explorations /\ handling' \subseteq Handlers /\ "initial" \in Calls
    BY <1>2, <1>6 DEF RegisterAppends, Calls
  <2> QED BY <1>6, <2>1, AppendsOne DEF RegisterAppends
<1>7. ASSUME NEW h \in handling, HandlerDies(h)
      PROVE  TraceInv'
  BY <1>1, <1>2, <1>7 DEF HandlerDies, TraceInv, LogTyped
<1>8. ASSUME NEW h \in handling, NEW type \in {"completed", "failed"}, ExpandEnds(h, type)
      PROVE  TraceInv'
  <2>1. h.x \in Explorations /\ h.call \in Calls /\ handling' \subseteq Handlers
    BY <1>2, <1>8 DEF ExpandEnds
  <2> QED BY <1>8, <2>1, AppendsOne DEF ExpandEnds
<1> QED BY <1>3, <1>4, <1>5, <1>6, <1>7, <1>8 DEF Agent

(* An answer brings the events after the last one the tab has.             *)
LEMMA EventsKeep ==
    ASSUME TraceInv, NEW of \in BOOLEAN, EventsAnswer(of), UNCHANGED logVars
    PROVE  TraceInv'
<1>1. /\ current # Nothing /\ wanted.x = current /\ wanted.after = lastSeq
      /\ current \in Explorations
  BY DEF TraceInv, Follows, EventsAnswer
<1> DEFINE s == log[current]
           m == IF lastSeq + Batch < Len(s) THEN lastSeq + Batch ELSE Len(s)
           new == IF of THEN SubSeq(s, lastSeq + 1, m) ELSE <<>>
           to == IF of THEN m ELSE lastSeq
<1>2. /\ s \in Seq(Events) /\ lastSeq \in 0..Len(s) /\ events = SubSeq(s, 1, lastSeq)
      /\ \A k \in 1..Len(s) : s[k].seq = k
      /\ frames = ReducedAll(<<>>, events)
  BY <1>1 DEF TraceInv, LogTyped, Follows
<1>3. m \in 0..Len(s) /\ lastSeq \in 0..m
  BY <1>2, TraceAssumption
<1>4. /\ events' = events \o new
      /\ frames' = ReducedAll(frames, new)
      /\ lastSeq' = IF new = <<>> THEN lastSeq ELSE new[Len(new)].seq
      /\ wanted' = Nothing /\ UNCHANGED <<current, replay>>
  BY <1>1 DEF EventsAnswer, Applied, After
<1> HIDE DEF m, s
<1>5. to \in 0..Len(s) /\ lastSeq \in 0..to /\ to \in Nat
  BY <1>2, <1>3
<1>6. events \in Seq(Events) /\ new \in Seq(Events)
  BY <1>2, <1>3, Joined
<1>7. events \o new = SubSeq(s, 1, to)
  <2>1. ASSUME of PROVE events \o new = SubSeq(s, 1, to)
    BY <1>2, <1>3, <2>1, Joined
  <2>2. ASSUME ~of PROVE events \o new = SubSeq(s, 1, to)
    <3>1. events \o <<>> = events
      BY <1>6
    <3> QED BY <1>2, <2>2, <3>1
  <2> QED BY <2>1, <2>2
<1>8. lastSeq' = to
  <2>1. ASSUME of, lastSeq < m PROVE lastSeq' = to
    <3> DEFINE k == m - lastSeq
    <3>1. /\ k \in Nat /\ k \in 1..k /\ lastSeq + k = m /\ m \in 1..Len(s)
      BY <1>2, <1>3, <2>1
    <3>2. Len(new) = k /\ \A j \in 1..k : new[j] = s[lastSeq + j]
      BY SMTT(60), <1>2, <1>3, <2>1, Joined
    <3> HIDE DEF k, new, to
    <3>3. new # <<>>
      BY <3>1, <3>2
    <3>4. new[Len(new)] = s[m]
      BY <3>1, <3>2
    <3>5. s[m].seq = m
      BY <1>2, <3>1
    <3> QED BY <1>4, <2>1, <3>3, <3>4, <3>5 DEF to
  <2>2. ASSUME of, ~(lastSeq < m) PROVE lastSeq' = to
    <3>1. m = lastSeq
      BY <1>2, <1>3, <2>2
    <3>2. new = <<>>
      BY <1>2, <2>2, <3>1
    <3> QED BY <1>4, <2>2, <3>1, <3>2
  <2>3. ASSUME ~of PROVE lastSeq' = to
    BY <1>4, <2>3
  <2> QED BY <2>1, <2>2, <2>3
<1>9. frames' = ReducedAll(<<>>, events \o new)
  <2> DEFINE d == new
             none == <<>>
  <2>1. d \in Seq(Events) /\ frames' = ReducedAll(frames, d) /\ frames = ReducedAll(none, events)
    BY <1>2, <1>4, <1>6
  <2> HIDE DEF d, none
  <2>2. ReducedAll(none, events \o d) = ReducedAll(ReducedAll(none, events), d)
    BY <1>6, <2>1, ReducedTwice
  <2>3. frames' = ReducedAll(none, events \o d)
    BY <2>1, <2>2
  <2> QED BY <2>3 DEF d, none
<1>10. Follows'
  <2>1. log' = log
    BY DEF logVars
  <2>2. current' # Nothing => /\ lastSeq' <= Len(log'[current'])
                              /\ events' = SubSeq(log'[current'], 1, lastSeq')
    <3>1. log'[current'] = s
      BY <1>4, <2>1 DEF s
    <3> HIDE DEF new, to
    <3>2. events' = SubSeq(s, 1, to) /\ to <= Len(s)
      BY <1>4, <1>5, <1>7
    <3> QED BY <1>8, <3>1, <3>2
  <2>3. lastSeq' \in Nat /\ current' # Nothing /\ wanted' = Nothing
    BY <1>1, <1>4, <1>5, <1>8
  <2>4. frames' = ReducedAll(<<>>, events')
    BY <1>4, <1>9
  <2> HIDE DEF new, to
  <2> QED BY SMTT(60), <1>1, <1>4, <2>2, <2>3, <2>4 DEF Follows, TraceInv
<1> QED BY <1>10 DEF TraceInv, LogTyped, logVars

(* A tab that follows nothing, or has begun to follow, has a prefix.       *)
LEMMA Emptied ==
    ASSUME current' \in Explorations \cup {Nothing}, lastSeq' = 0, events' = <<>>,
           frames' = <<>>, wanted' = Nothing, log' \in [Explorations -> Seq(Events)],
           replay' # Nothing => replay'.seq \in Nat
    PROVE  Follows'
<1>1. ReducedAll(<<>>, <<>>) = <<>>
  BY ReducedNone
<1>2. \A x \in Explorations : 0 <= Len(log'[x]) /\ SubSeq(log'[x], 1, 0) = <<>>
  OBVIOUS
<1>3. frames' = ReducedAll(<<>>, events')
  BY <1>1
<1>4. current' # Nothing => /\ lastSeq' <= Len(log'[current'])
                            /\ events' = SubSeq(log'[current'], 1, lastSeq')
  BY <1>2
<1> QED BY <1>3, <1>4 DEF Follows

(* The list of traces may turn the tab to another exploration.             *)
LEMMA TracesKeep ==
    ASSUME TraceInv, NEW list \in Seq(Explorations), TracesAnswer(list), UNCHANGED logVars
    PROVE  TraceInv'
<1> DEFINE newest == IF list = <<>> THEN Nothing ELSE Head(list)
<1>1. newest \in Explorations \cup {Nothing}
  OBVIOUS
<1>2. Follow(newest) /\ UNCHANGED replay
  BY DEF TracesAnswer
<1> HIDE DEF newest
<1>3. log' \in [Explorations -> Seq(Events)] /\ (replay' # Nothing => replay'.seq \in Nat)
  BY <1>2 DEF TraceInv, LogTyped, Follows, logVars
<1>4. Follows'
  <2>1. CASE newest = current
    BY <1>2, <2>1 DEF Follow, TraceInv, Follows, logVars
  <2>2. CASE newest # current
    BY <1>1, <1>2, <1>3, <2>2, Emptied DEF Follow
  <2> QED BY <2>1, <2>2
<1> QED BY <1>4 DEF TraceInv, LogTyped, logVars

(* The scene that is chosen is where an event of the history was.          *)
LEMMA ReplayKeeps ==
    ASSUME TraceInv, NEW c, Replay(c), UNCHANGED logVars
    PROVE  TraceInv'
<1>1. events \in Seq(Events) /\ Len(events) = lastSeq /\ \A k \in 1..lastSeq : events[k].seq = k
  BY PrefixTyped
<1> DEFINE none == <<>>
<1>2. frames = ReducedAll(none, events) /\ DOMAIN none = {}
  BY DEF TraceInv, Follows
<1> HIDE DEF none
<1>3. PICK k \in 1..Len(events) : frames[c].at = events[k].seq
  BY <1>1, <1>2, ReducedGrows DEF Replay
<1>4. frames[c].at \in Nat
  BY <1>1, <1>3
<1> QED BY <1>4 DEF Replay, TraceInv, LogTyped, Follows, logVars

(* Nothing is logged, nothing is followed.                                 *)
LEMMA TraceStart == ASSUME Init PROVE TraceInv
<1>1. ReducedAll(<<>>, <<>>) = <<>>
  BY ReducedNone
<1>2. LogTyped
  <2>1. log = [x \in Explorations |-> <<>>] /\ recent = <<>> /\ handling = {}
    BY DEF Init, TraceInit
  <2> QED BY <2>1 DEF LogTyped
<1>3. Follows
  BY <1>1 DEF Init, TraceInit, Follows
<1> QED BY <1>2, <1>3 DEF TraceInv

(* The invariant of the trace is inductive.                                *)
LEMMA TraceKept == TraceInv /\ [Next]_vars => TraceInv'
<1> SUFFICES ASSUME TraceInv, [Next]_vars PROVE TraceInv'
  OBVIOUS
<1>1. CASE UNCHANGED <<logVars, melchior>>
  BY <1>1 DEF logVars, melchior, TraceInv, LogTyped, Follows
<1>2. ASSUME UNCHANGED logVars, Poll PROVE TraceInv'
  <2> USE <1>2
  <2>1. (active = Default) \in BOOLEAN
    OBVIOUS
  <2> DEFINE list == IF active = Default THEN recent ELSE <<>>
  <2>2. list \in Seq(Explorations)
    BY DEF TraceInv, LogTyped
  <2> HIDE DEF list
  <2>3. CASE TracesAnswer(list)
    BY <2>2, <2>3, TracesKeep
  <2>4. CASE EventsAnswer(active = Default)
    BY <2>1, <2>4, EventsKeep
  <2>5. CASE AskTraces
    BY <2>5 DEF AskTraces, TraceInv, LogTyped, Follows, logVars
  <2>6. CASE AskEvents
    BY <2>6 DEF AskEvents, TraceInv, LogTyped, Follows, logVars
  <2>7. CASE PollFails
    BY <2>7 DEF PollFails, TraceInv, LogTyped, Follows, logVars
  <2> QED BY <2>3, <2>4, <2>5, <2>6, <2>7 DEF Poll, list
<1>3. ASSUME UNCHANGED logVars, ReturnToLive \/ MelchiorTab PROVE TraceInv'
  BY <1>3 DEF ReturnToLive, MelchiorTab, TraceInv, LogTyped, Follows, logVars
<1>4. ASSUME UNCHANGED logVars, Unfollowed, wanted' = Nothing, replay' = Nothing
      PROVE  TraceInv'
  <2>1. Follows'
    <3>1. log' \in [Explorations -> Seq(Events)]
      BY <1>4 DEF logVars, TraceInv, LogTyped
    <3> QED BY <1>4, <3>1, Emptied DEF Unfollowed
  <2> QED BY <1>4, <2>1 DEF TraceInv, LogTyped, logVars
<1>5. ASSUME UNCHANGED logVars, FollowedOn PROVE TraceInv'
  BY <1>5 DEF FollowedOn, TraceInv, LogTyped, Follows, logVars
<1> QED BY <1>1, <1>2, <1>3, <1>4, <1>5, TraceMove, AgentKeeps, ReplayKeeps

(* What the tab has is a sequence of events, the last number is its        *)
(* length.                                                                 *)
EventsTyped == events \in Seq(Events) /\ Len(events) = lastSeq /\ lastSeq \in Nat

(* The invariant is what Melchior promises.                                *)
LEMMA PrefixFollows == TraceInv => ShownIsPrefix /\ EventsTyped
<1> SUFFICES ASSUME TraceInv PROVE ShownIsPrefix /\ EventsTyped
  OBVIOUS
<1> QED BY PrefixTyped DEF TraceInv, Follows, ShownIsPrefix, EventsTyped

(* So it does after a step.                                                *)
LEMMA PrefixNext == TraceInv' => EventsTyped'
BY PrefixFollows, PTL

(* Melchior shows a prefix of the log of the exploration it follows, none  *)
(* of its events twice, out of order or under another exploration, and the *)
(* frames it built up answer by answer are those of a replay               *)
(* (stores/exploration.ts).                                                *)
THEOREM ShowsAPrefix == Spec => []ShownIsPrefix
<1> QED BY PrefixFollows, TraceStart, TraceKept, PTL DEF Spec

(* ------------------------ the scenes of a history ---------------------- *)
(* What a scene of the history is built from: the events up to its number  *)
LEMMA KeptAre ==
    ASSUME NEW es \in Seq(Events), \A k \in 1..Len(es) : es[k].seq = k, NEW n \in Nat
    PROVE  Kept(es, {e \in Events : e.seq <= n}) = SubSeq(es, 1, IF n <= Len(es) THEN n ELSE Len(es))
<1> DEFINE good == {e \in Events : e.seq <= n}
           m == IF n <= Len(es) THEN n ELSE Len(es)
<1>1. m \in 0..Len(es)
  OBVIOUS
<1>2. \A k \in 1..Len(es) : es[k] \in good <=> k <= m
  OBVIOUS
<1> HIDE DEF good, m
<1>3. Kept(es, good) = SubSeq(es, 1, m)
  BY <1>1, <1>2, KeptPrefix
<1> QED BY <1>3 DEF good, m

(* Events are only added to what the tab has of an exploration.            *)
LEMMA EventsGrow ==
    ASSUME TraceInv, TraceInv', [Next]_vars, current' = current
    PROVE  /\ lastSeq \in 0..lastSeq'
           /\ events = SubSeq(events', 1, lastSeq)
<1>1. events \in Seq(Events) /\ Len(events) = lastSeq
  BY PrefixTyped
<1>2. ASSUME UNCHANGED <<events, lastSeq>>
      PROVE  /\ lastSeq \in 0..lastSeq'
             /\ events = SubSeq(events', 1, lastSeq)
  <2>1. lastSeq \in Nat
    BY DEF TraceInv, Follows
  <2>2. SubSeq(events, 1, lastSeq) = events
    BY <1>1, <2>1
  <2> QED BY <1>2, <2>1, <2>2
<1>3. ASSUME NEW of \in BOOLEAN, EventsAnswer(of)
      PROVE  /\ lastSeq \in 0..lastSeq'
             /\ events = SubSeq(events', 1, lastSeq)
  <2> DEFINE new == IF of THEN After(log[wanted.x], wanted.after) ELSE <<>>
  <2>1. events' = events \o new
    BY <1>3 DEF EventsAnswer, Applied
  <2>2. new \in Seq(Events)
    <3>1. log[wanted.x] \in Seq(Events) /\ wanted.after \in 0..Len(log[wanted.x])
      BY <1>3 DEF EventsAnswer, TraceInv, LogTyped, Follows
    <3> DEFINE s == log[wanted.x]
               n == wanted.after
               m == IF n + Batch < Len(s) THEN n + Batch ELSE Len(s)
    <3>2. m \in 0..Len(s) /\ n \in 0..m
      BY <3>1, TraceAssumption
    <3>3. After(s, n) = SubSeq(s, n + 1, m)
      BY DEF After
    <3> HIDE DEF s, n, m
    <3>4. s \in Seq(Events)
      BY <3>1 DEF s
    <3>5. After(s, n) \in Seq(Events)
      BY <3>2, <3>3, <3>4, Joined
    <3> QED BY <3>5 DEF s, n
  <2> HIDE DEF new
  <2>3. /\ events \o new \in Seq(Events) /\ Len(events \o new) = lastSeq + Len(new)
        /\ \A k \in 1..lastSeq : (events \o new)[k] = events[k]
    <3>1. /\ events \o new \in Seq(Events) /\ Len(events \o new) = Len(events) + Len(new)
          /\ \A k \in 1..(Len(events) + Len(new)) :
                (events \o new)[k] = IF k <= Len(events) THEN events[k] ELSE new[k - Len(events)]
      BY <1>1, <2>2, ConcatProperties
    <3>2. Len(new) \in Nat /\ lastSeq \in Nat
      BY <2>2 DEF TraceInv, Follows
    <3> QED BY <1>1, <3>1, <3>2
  <2>4. Len(events') = lastSeq' /\ lastSeq' \in Nat
    BY PrefixNext DEF EventsTyped
  <2>5. lastSeq \in 0..lastSeq'
    BY <2>1, <2>2, <2>3, <2>4 DEF TraceInv, Follows
  <2> DEFINE e == events'
             n == lastSeq'
             p == SubSeq(e, 1, lastSeq)
  <2>6. e \in Seq(Events) /\ Len(e) = n /\ n \in Nat /\ lastSeq \in 0..n
        /\ \A k \in 1..lastSeq : e[k] = events[k]
    BY <2>1, <2>3, <2>4, <2>5
  <2> HIDE DEF e, n
  <2>7. p \in Seq(Events) /\ Len(p) = lastSeq /\ \A k \in 1..lastSeq : p[k] = e[k]
    BY <2>6
  <2> HIDE DEF p
  <2>8. p = events
    BY <1>1, <2>6, <2>7, SeqEqual
  <2> QED BY <2>5, <2>8 DEF p, e
<1>4. ASSUME NEW list, TracesAnswer(list) PROVE UNCHANGED <<events, lastSeq>>
  BY <1>4 DEF TracesAnswer, Follow
<1>5. ASSUME Unfollowed PROVE UNCHANGED <<events, lastSeq>>
  BY <1>5 DEF Unfollowed, TraceInv, Follows
<1>6. ASSUME Poll
      PROVE  UNCHANGED <<events, lastSeq>> \/ \E of \in BOOLEAN : EventsAnswer(of)
  <2>1. (active = Default) \in BOOLEAN
    OBVIOUS
  <2> QED BY <1>4, <1>6, <2>1 DEF Poll, AskTraces, AskEvents, PollFails
<1>7. ASSUME NEW c, Replay(c) PROVE UNCHANGED <<events, lastSeq>>
  BY <1>7 DEF Replay
<1>8. UNCHANGED <<events, lastSeq>> \/ \E of \in BOOLEAN : EventsAnswer(of)
  BY <1>5, <1>6, <1>7, TraceMove DEF melchior, MelchiorTab, ReturnToLive, FollowedOn
<1> QED BY <1>2, <1>3, <1>8

(* What was visited stays visited when events are added.                   *)
LEMMA VisitedGrows ==
    ASSUME NEW S, NEW es \in Seq(S), NEW f
    PROVE  Visited(f) \subseteq Visited(ReducedAll(f, es))
BY ReducedGrows DEF Visited

(* How many of the events are drawn                                        *)
Drawable(n) == IF n = 0 THEN lastSeq ELSE IF n <= lastSeq THEN n ELSE lastSeq

(* What is visible is made of the first of them.                           *)
VisibleShown ==
    /\ Replaying \in Nat
    /\ Drawable(Replaying) \in 0..lastSeq
    /\ Visible = ReducedAll(<<>>, SubSeq(events, 1, Drawable(Replaying)))

(* It is, in every state the invariant allows,                             *)
LEMMA VisibleIs == TraceInv => VisibleShown
<1> SUFFICES ASSUME TraceInv PROVE VisibleShown
  OBVIOUS
<1>1. /\ events \in Seq(Events) /\ Len(events) = lastSeq /\ lastSeq \in Nat
      /\ \A k \in 1..Len(events) : events[k].seq = k
  BY PrefixTyped DEF TraceInv, Follows
<1>2. Replaying \in Nat
  BY DEF Replaying, TraceInv, Follows
<1>3. Drawable(Replaying) \in 0..lastSeq
  BY <1>1, <1>2 DEF Drawable
<1>4. Visible = ReducedAll(<<>>, SubSeq(events, 1, Drawable(Replaying)))
  <2>1. CASE Replaying = 0
    <3>1. SubSeq(events, 1, lastSeq) = events
      BY <1>1
    <3> QED BY <2>1, <3>1 DEF Visible, Drawable, TraceInv, Follows
  <2>2. CASE Replaying # 0
    <3>1. Kept(events, {e \in Events : e.seq <= Replaying}) = SubSeq(events, 1, Drawable(Replaying))
      BY <1>1, <1>2, <2>2, KeptAre DEF Drawable
    <3> QED BY <2>2, <3>1 DEF Visible
  <2> QED BY <2>1, <2>2
<1> QED BY <1>2, <1>3, <1>4 DEF VisibleShown

(* and after a step.                                                       *)
LEMMA VisibleNext == TraceInv' => VisibleShown'
BY VisibleIs, PTL

(* A step adds events behind those that are drawn.                         *)
LEMMA VisitedIsKept ==
    ASSUME TraceInv, TraceInv', [Next]_vars
    PROVE  VisitedKept
<1> SUFFICES ASSUME current' = current, Replaying' = Replaying
             PROVE  /\ Visited(Visible) \subseteq Visited(Visible')
                    /\ Replaying \in 1..lastSeq => Drawn(Visible') = Drawn(Visible)
  BY DEF VisitedKept
<1> DEFINE n == Drawable(Replaying)
           m == Drawable(Replaying)'
           L == lastSeq
           M == lastSeq'
           es == events'
           v == Visible
           w == Visible'
           none == <<>>
           R == Replaying
<1>1. /\ n \in 0..L /\ v = ReducedAll(none, SubSeq(events, 1, n)) /\ R \in Nat
  BY VisibleIs DEF VisibleShown
<1>2. /\ m \in 0..M /\ w = ReducedAll(none, SubSeq(es, 1, m))
  BY VisibleNext DEF VisibleShown
<1>3. L \in 0..M /\ events = SubSeq(es, 1, L)
  BY EventsGrow
<1>4. es \in Seq(Events) /\ Len(es) = M /\ M \in Nat
  BY PrefixNext DEF EventsTyped
<1>5. /\ n = IF R = 0 THEN L ELSE IF R <= L THEN R ELSE L
      /\ m = IF R = 0 THEN M ELSE IF R <= M THEN R ELSE M
  BY DEF Drawable
<1> HIDE DEF n, m, L, M, es, none, R, v, w
<1>6. n \in 0..m /\ (R \in 1..L => n = m) /\ m \in 0..M /\ n \in 0..L
  BY <1>1, <1>2, <1>3, <1>4, <1>5
<1>7. SubSeq(events, 1, n) = SubSeq(es, 1, n)
  <2>1. SubSeq(SubSeq(es, 1, L), 1, n) = SubSeq(es, 1, n)
    BY <1>3, <1>4, <1>6
  <2> QED BY <1>3, <2>1
<1>8. /\ SubSeq(es, 1, n) \in Seq(Events) /\ SubSeq(es, n + 1, m) \in Seq(Events)
      /\ SubSeq(es, 1, n) \o SubSeq(es, n + 1, m) = SubSeq(es, 1, m)
  BY <1>4, <1>6, Joined
<1>9. w = ReducedAll(v, SubSeq(es, n + 1, m))
  <2> DEFINE a == SubSeq(es, 1, n)
             b == SubSeq(es, n + 1, m)
  <2>1. a \in Seq(Events) /\ b \in Seq(Events) /\ w = ReducedAll(none, a \o b)
        /\ v = ReducedAll(none, a)
    BY <1>1, <1>2, <1>7, <1>8
  <2> HIDE DEF a, b
  <2>2. w = ReducedAll(v, b)
    BY <2>1, ReducedTwice
  <2> QED BY <2>2 DEF b
<1>10. Visited(v) \subseteq Visited(w)
  BY <1>8, <1>9, VisitedGrows
<1>11. R \in 1..L => w = v
  BY <1>1, <1>2, <1>6, <1>7
<1> QED BY <1>10, <1>11 DEF v, w, R, L

(* As long as the tab follows one exploration, what was visited stays on   *)
(* the drawing, and a scene of the history stands still while events come  *)
(* (utils/explorationGraph.ts).                                            *)
THEOREM VisitsStay == Spec => VisitedStays
<1>1. TraceInv /\ TraceInv' /\ [Next]_vars => [VisitedKept]_vars
  BY VisitedIsKept
<1> QED BY <1>1, TraceStart, TraceKept, PTL DEF Spec, VisitedStays

(* ---------------------------- the memory tab --------------------------- *)
(* Every record                                                            *)
Ids == UNION {Of(k) : k \in Kinds}

(* What a list can be asked for                                            *)
Ats == [view : Kinds \cup {"ingest"}, page : 1..Pages, query : Queries, filter : Filters]

(* The requests of the memory tab,                                         *)
CallSet == [op : {"overview", "list", "detail", "decide", "checked", "decided", "refused",
                  "assign", "assigned", "entities"},
            for : {"page", "conflict", "alias"}, at : Ats \cup {None}, kind : Kinds \cup {None},
            id : Ids \cup {None}, sel : Ids \cup {None}]

(* and what its handlers put into them                                     *)
GoodCall(c) ==
    /\ c.op \in {"overview", "list", "decide", "checked", "decided", "assign", "assigned",
                 "entities"} => c.at \in Ats
    /\ c.op \in {"overview", "list"} => c.for # "alias"
    /\ c.op = "list" => c.at.view \in Kinds
    /\ c.op = "entities" => c.at.view = "entities" /\ c.for = "alias"
    /\ c.op = "detail" => c.kind \in Kinds /\ c.id \in Of(c.kind)
    /\ c.op = "detail" /\ c.for # "page" => c.for = "conflict" /\ c.kind = "atoms" /\ c.at \in Ats
    /\ c.op \in {"decide", "checked", "decided"} =>
          c.for = "conflict" /\ c.kind = "atoms" /\ c.sel \in Atoms \cup {None}
    /\ c.op \in {"decide", "checked"} => c.id \in Atoms
    /\ c.op \in {"assign", "assigned"} => c.for = "alias" /\ c.id \in Entities

(* Those that can be under way                                             *)
Pool == {c \in CallSet : GoodCall(c)}

(* Where the memory tab is                                                 *)
MemTyped ==
    /\ view \in Kinds \cup {"ingest"} /\ page \in 1..Pages /\ query \in Queries
    /\ filter \in [Filtered -> Filters]
    /\ DOMAIN lists = Kinds /\ DOMAIN detail = Kinds
    /\ calls \in Seq(Pool)

(* A load of what the toolbar asks for                                     *)
Pending(at) == {c \in Pool : c.op \in {"overview", "list"} /\ c.at = at}

(* Unless the timer is armed or the list is late, the list is the one the  *)
(* toolbar asks for or a load of it is under way.                          *)
ListPart ==
    (~due /\ view # "ingest" /\ ~late) =>
        (lists[view].at = Asked /\ pager = Asked) \/ Has(calls, Pending(Asked))

(* A panel shows a record of its registry. The dialog of a contradiction   *)
(* names the Atom of the panel and its rival, unless a late answer has     *)
(* changed the panel.                                                      *)
DialogPart ==
    /\ \A k \in Kinds : /\ detail[k].id \in Of(k) \cup {None}
                        /\ detail[k].open => detail[k].id \in Of(k)
    /\ conflict # None =>
          /\ conflict \in [other : Atoms, winner : Atoms, disturbed : BOOLEAN]
          /\ ~conflict.disturbed => conflict.winner \in {detail["atoms"].id, conflict.other}
    /\ alias # None => alias \in Entities

(* The invariant of the memory tab                                         *)
MemInv == MemTyped /\ ListPart /\ DialogPart

(* What the toolbar says can be asked for.                                 *)
LEMMA AskedTyped == ASSUME MemTyped PROVE Asked \in Ats /\ Asked.view = view
BY DEF MemTyped, Asked, Ats, Filters

(* Atoms and Entities are registries.                                      *)
LEMMA KindsAre ==
    /\ "atoms" \in Kinds /\ "entities" \in Kinds
    /\ Of("atoms") = Atoms /\ Of("entities") = Entities
    /\ Atoms \subseteq Ids /\ Entities \subseteq Ids
    /\ \A k \in Kinds : Of(k) \subseteq Ids
<1>1. "atoms" \in Kinds /\ "entities" \in Kinds
  BY DEF Kinds
<1>2. Of("atoms") = Atoms /\ Of("entities") = Entities
  BY DEF Of
<1>3. \A k \in Kinds : Of(k) \subseteq Ids
  BY DEF Ids
<1> QED BY <1>1, <1>2, <1>3

(* The page a view starts with                                             *)
LEMMA FirstPage == 1 \in 1..Pages /\ "" \in Queries
<1>1. Pages \in Nat \ {0}
  BY MemoryAssumption
<1>2. 1 \in 1..Pages
  BY <1>1
<1>3. "" \in Queries
  BY MemoryAssumption
<1> QED BY <1>2, <1>3

(* Steps that leave the panels alone, and at most close a dialog           *)
LEMMA DialogStays ==
    ASSUME DialogPart, UNCHANGED detail, conflict' \in {conflict, None}, alias' \in {alias, None}
    PROVE  DialogPart'
BY DEF DialogPart

(* Steps that at most close panels, with no dialog open                    *)
LEMMA PanelsClose ==
    ASSUME DialogPart, conflict' = None, alias' = None,
           \A k \in Kinds : detail'[k] = detail[k] \/ detail'[k] = NoDetail
    PROVE  DialogPart'
BY DEF DialogPart, NoDetail

(* Steps that leave the lists alone: when what is asked for changes, the   *)
(* timer is armed.                                                         *)
LEMMA ListStays ==
    ASSUME ListPart, Effects, UNCHANGED <<lists, pager, late>>, MemTyped, MemTyped',
           Has(calls, Pending(Asked)) => Has(calls', Pending(Asked))
    PROVE  ListPart'
<1> SUFFICES ASSUME ~due', view' # "ingest", ~late'
             PROVE  (lists'[view'].at = Asked' /\ pager' = Asked') \/ Has(calls', Pending(Asked'))
  BY DEF ListPart
<1>1. ~due /\ Asked' = Asked
  BY DEF Effects
<1>2. view' = view
  <2>1. Asked.view = view
    BY AskedTyped
  <2>2. Asked'.view = view'
    BY DEF Asked
  <2> QED BY <1>1, <2>1, <2>2
<1> QED BY <1>1, <1>2 DEF ListPart

(* A load asks for what the toolbar says.                                  *)
LEMMA LoadTyped ==
    ASSUME MemTyped, Load
    PROVE  /\ calls' \in Seq(Pool)
           /\ Has(calls', Pending(Asked))
<1>1. Asked \in Ats
  BY AskedTyped
<1> DEFINE c == Overview(Asked, "page")
<1>2. c \in CallSet /\ c.op = "overview" /\ c.at = Asked /\ c.for = "page"
  BY <1>1 DEF Overview, Call, CallSet
<1>3. calls' = Append(calls, c)
  BY DEF Load
<1> HIDE DEF c
<1>4. c \in Pool /\ c \in Pending(Asked)
  BY <1>1, <1>2 DEF Pool, GoodCall, Pending
<1>5. calls \in Seq(Pool)
  BY DEF MemTyped
<1> QED BY <1>3, <1>4, <1>5, Appended, HasAppended

(* The timer disarms itself with a load under way.                         *)
LEMMA TimerKeeps ==
    ASSUME MemInv, TimerFires
    PROVE  MemInv'
<1>1. Load /\ UNCHANGED <<toolbar, lists, pager, detail, late, dialogs>>
  BY DEF TimerFires
<1>2. MemTyped'
  BY <1>1, LoadTyped DEF MemInv, MemTyped, toolbar
<1>3. ListPart'
  BY <1>1, LoadTyped DEF ListPart, Asked, toolbar, MemInv, Pending
<1>4. DialogPart'
  BY <1>1, DialogStays DEF MemInv, dialogs
<1> QED BY <1>2, <1>3, <1>4 DEF MemInv

(* The controls of the toolbar keep the invariant.                         *)
LEMMA ToolbarKeeps ==
    ASSUME MemInv, Toolbar, Effects
    PROVE  MemInv'
<1> USE DEF MemInv
<1>0. 1 \in 1..Pages /\ "" \in Queries
  BY FirstPage
<1>1. ASSUME NEW v \in Kinds \cup {"ingest"}, SwitchView(v) PROVE MemInv'
  <2>1. /\ UNCHANGED <<loading, lists, pager, late, calls>>
        /\ conflict' = None /\ alias' = None /\ detail' = NoDetails
    BY <1>1 DEF SwitchView, Modal, dialogs
  <2>2. MemTyped'
    BY <1>0, <1>1, <2>1 DEF SwitchView, Go, MemTyped, NoDetails
  <2>3. ListPart'
    BY <2>1, <2>2, ListStays
  <2>4. DialogPart'
    BY <2>1, PanelsClose DEF NoDetails
  <2> QED BY <2>2, <2>3, <2>4
<1>2. ASSUME UNCHANGED <<panels, dialogs, calls>>, view' = view, page' \in 1..Pages,
             query' \in Queries, filter' \in [Filtered -> Filters]
      PROVE  MemInv'
  <2>1. MemTyped'
    BY <1>2 DEF MemTyped, panels
  <2>2. ListPart'
    BY <1>2, <2>1, ListStays DEF panels
  <2>3. DialogPart'
    BY <1>2, DialogStays DEF panels, dialogs
  <2> QED BY <2>1, <2>2, <2>3
<1>3. ASSUME NEW p \in 1..Pages, Turn(p) PROVE MemInv'
  BY <1>2, <1>3 DEF Turn, MemTyped
<1>4. ASSUME NEW q \in Queries, Type(q) PROVE MemInv'
  BY <1>2, <1>4 DEF Type, MemTyped
<1>5. ASSUME NEW f \in Filters, Filter(f) PROVE MemInv'
  <2>1. filter' \in [Filtered -> Filters]
    BY <1>5 DEF Filter, MemTyped
  <2> QED BY <1>0, <1>2, <1>5, <2>1 DEF Filter, MemTyped
<1>6. ASSUME RefreshList PROVE MemInv'
  <2>1. Load /\ UNCHANGED <<toolbar, lists, pager, detail, late, dialogs>>
    BY <1>6 DEF RefreshList
  <2>2. MemTyped'
    BY <2>1, LoadTyped DEF MemTyped, toolbar
  <2>3. ListPart'
    BY <2>1, <2>2, LoadTyped, ListStays
  <2>4. DialogPart'
    BY <2>1, DialogStays DEF dialogs
  <2> QED BY <2>2, <2>3, <2>4
<1> QED BY <1>1, <1>3, <1>4, <1>5, <1>6 DEF Toolbar

(* A page that is mounted has its timer armed.                             *)
LEMMA MountedKeeps ==
    ASSUME Mounted
    PROVE  MemInv'
<1>1. MemTyped'
  <2>1. "episodes" \in Kinds
    BY MemoryAssumption DEF Kinds
  <2>2. filter' \in [Filtered -> Filters]
    BY DEF Mounted, Filters
  <2>3. DOMAIN lists' = Kinds /\ DOMAIN detail' = Kinds /\ calls' \in Seq(Pool)
    BY DEF Mounted, NoDetails
  <2> QED BY <2>1, <2>2, <2>3, FirstPage DEF Mounted, Start, MemTyped
<1>2. ListPart'
  BY DEF Mounted, ListPart
<1>3. DialogPart'
  BY DEF Mounted, DialogPart, NoDetails, NoDetail
<1> QED BY <1>1, <1>2, <1>3 DEF MemInv

(* An answer that is followed by another request of the same handler       *)
LEMMA Became ==
    ASSUME NEW c \in CallSet, NEW op \in {"overview", "list", "detail", "decide", "checked",
                                          "decided", "refused", "assign", "assigned", "entities"}
    PROVE  LET d == [c EXCEPT !.op = op]
           IN  /\ d \in CallSet /\ d.op = op /\ d.for = c.for /\ d.at = c.at
               /\ d.kind = c.kind /\ d.id = c.id /\ d.sel = c.sel
BY DEF CallSet

(* An answer is dropped: a load stays under way unless it was that one.    *)
LEMMA Answered ==
    ASSUME MemTyped, NEW i \in 1..Len(calls), calls' = Drop(calls, i)
    PROVE  /\ calls' \in Seq(Pool)
           /\ \A at : calls[i].op \notin {"overview", "list"} \/ calls[i].at # at =>
                  (Has(calls, Pending(at)) => Has(calls', Pending(at)))
<1>1. calls \in Seq(Pool)
  BY DEF MemTyped
<1>2. calls' \in Seq(Pool)
  BY <1>1, Dropped
<1>3. ASSUME NEW at, calls[i].op \notin {"overview", "list"} \/ calls[i].at # at,
             Has(calls, Pending(at))
      PROVE  Has(calls', Pending(at))
  <2>1. calls[i] \notin Pending(at)
    BY <1>3 DEF Pending
  <2> QED BY <1>1, <1>3, <2>1, HasDropped
<1> QED BY <1>2, <1>3

(* An answer becomes another request: likewise.                            *)
LEMMA Changed ==
    ASSUME MemTyped, NEW i \in 1..Len(calls), NEW d \in Pool, calls' = [calls EXCEPT ![i] = d]
    PROVE  /\ calls' \in Seq(Pool)
           /\ \A at : (calls[i] \in Pending(at) => d \in Pending(at)) =>
                  (Has(calls, Pending(at)) => Has(calls', Pending(at)))
BY HasChanged DEF MemTyped

(* Answers that leave the lists alone                                      *)
LEMMA AnswerKeeps ==
    ASSUME MemInv, Effects, UNCHANGED <<toolbar, lists, pager, late>>, calls' \in Seq(Pool),
           Has(calls, Pending(Asked)) => Has(calls', Pending(Asked)),
           DOMAIN detail' = Kinds, DialogPart'
    PROVE  MemInv'
<1>1. MemTyped'
  BY DEF MemInv, MemTyped, toolbar
<1> QED BY <1>1, ListStays DEF MemInv

(* An answer that is shown: it is late unless the toolbar still asks for   *)
(* it.                                                                     *)
LEMMA ShownKeeps ==
    ASSUME MemInv, Effects, NEW at \in Ats, at.view \in Kinds, Shown(at), UNCHANGED toolbar,
           calls' \in Seq(Pool), UNCHANGED detail, DialogPart'
    PROVE  MemInv'
<1>1. MemTyped'
  BY DEF MemInv, MemTyped, toolbar, Shown
<1>2. Asked' = Asked
  BY DEF toolbar, Asked
<1>3. ASSUME at = Asked PROVE lists'[view'].at = Asked' /\ pager' = Asked'
  <2>1. at.view = view /\ view' = view
    BY <1>3, AskedTyped DEF MemInv, toolbar
  <2>2. lists'[at.view] = [at |-> at, from |-> active]
    BY DEF Shown, MemInv, MemTyped
  <2> QED BY <1>2, <1>3, <2>1, <2>2 DEF Shown
<1>4. ListPart'
  BY <1>3 DEF ListPart, Shown
<1> QED BY <1>1, <1>4 DEF MemInv

(* The answers to a load keep the invariant, late or not.                  *)
LEMMA AnswersLoad ==
    ASSUME MemInv, NEW i \in 1..Len(calls), Effects,
           OverviewAnswers(i) \/ ListAnswers(i) \/ LoadFails(i)
    PROVE  MemInv'
<1> DEFINE c == calls[i]
<1>1. c \in Pool /\ c \in CallSet /\ GoodCall(c) /\ MemTyped /\ calls \in Seq(Pool)
  BY DEF MemInv, MemTyped, Pool
<1>2. CASE ListAnswers(i)
  <2>1. calls' \in Seq(Pool)
    BY <1>1, <1>2, Answered DEF ListAnswers
  <2>2. DialogPart'
    BY <1>2, DialogStays DEF ListAnswers, Loaded, MemInv
  <2>3. c.at \in Ats /\ c.at.view \in Kinds
    BY <1>1, <1>2 DEF ListAnswers, GoodCall
  <2> QED BY <1>2, <2>1, <2>2, <2>3, ShownKeeps DEF ListAnswers
<1>3. CASE LoadFails(i)
  <2>1. calls' \in Seq(Pool)
    BY <1>1, <1>3, Answered DEF LoadFails
  <2>2. DialogPart'
    BY <1>3, DialogStays DEF LoadFails, Loaded, MemInv
  <2>3. MemTyped'
    BY <1>1, <1>3, <2>1 DEF LoadFails, MemTyped, toolbar
  <2>4. ListPart'
    BY <1>3 DEF LoadFails, ListPart
  <2> QED BY <2>2, <2>3, <2>4 DEF MemInv
<1>4. CASE OverviewAnswers(i)
  <2>1. UNCHANGED <<toolbar, lists, pager, late>> /\ DOMAIN detail' = Kinds
    BY <1>1, <1>4 DEF OverviewAnswers, MemTyped
  <2>2. DialogPart'
    BY <1>4, DialogStays DEF OverviewAnswers, Loaded, MemInv, dialogs
  <2>3. ASSUME c.at.view = "ingest" PROVE MemInv'
    <3>1. calls' = Drop(calls, i)
      BY <1>4, <2>3 DEF OverviewAnswers
    <3>2. CASE Asked.view = "ingest"
      <4>1. calls' \in Seq(Pool)
        BY <1>1, <3>1, Answered
      <4>2. MemTyped'
        BY <1>1, <2>1, <4>1 DEF MemTyped, toolbar
      <4>3. view = "ingest" /\ view' = view
        BY <1>1, <2>1, <3>2, AskedTyped DEF toolbar
      <4>4. ListPart'
        BY <4>3 DEF ListPart
      <4> QED BY <2>2, <4>2, <4>4 DEF MemInv
    <3>3. CASE Asked.view # "ingest"
      <4>1. c.at # Asked
        BY <2>3, <3>3
      <4>2. calls' \in Seq(Pool) /\ (Has(calls, Pending(Asked)) => Has(calls', Pending(Asked)))
        BY <1>1, <3>1, <4>1, Answered
      <4> QED BY <2>1, <2>2, <4>2, AnswerKeeps
    <3> QED BY <3>2, <3>3
  <2>4. ASSUME c.at.view # "ingest" PROVE MemInv'
    <3> DEFINE d == [c EXCEPT !.op = "list"]
    <3>1. calls' = [calls EXCEPT ![i] = d]
      BY <1>4, <2>4 DEF OverviewAnswers
    <3>2. d \in CallSet /\ d.op = "list" /\ d.for = c.for /\ d.at = c.at
      BY <1>1, Became
    <3> HIDE DEF d
    <3>3. c.at \in Ats /\ c.for # "alias" /\ c.at.view \in Kinds
      <4>1. c.at \in Ats /\ c.for # "alias"
        BY <1>1, <1>4 DEF GoodCall, OverviewAnswers
      <4> QED BY <2>4, <4>1 DEF Ats
    <3>4. d \in Pool
      BY <3>2, <3>3 DEF Pool, GoodCall
    <3>5. \A at : c \in Pending(at) => d \in Pending(at)
      BY <3>2, <3>4 DEF Pending
    <3>6. calls' \in Seq(Pool) /\ (Has(calls, Pending(Asked)) => Has(calls', Pending(Asked)))
      BY <1>1, <3>1, <3>4, <3>5, Changed
    <3> QED BY <2>1, <2>2, <3>6, AnswerKeeps
  <2> QED BY <2>3, <2>4
<1> QED BY <1>2, <1>3, <1>4

(* The handler of a decision asks for the list again.                      *)
LEMMA ReadAgainAsks ==
    ASSUME MemTyped, NEW i \in 1..Len(calls), calls[i].at \in Ats,
           calls[i].op \notin {"overview", "list"}, ReadAgain(i)
    PROVE  /\ calls' \in Seq(Pool)
           /\ \A at : Has(calls, Pending(at)) => Has(calls', Pending(at))
<1> DEFINE d == Drop(calls, i)
           c == Overview(calls[i].at, "conflict")
<1>1. calls \in Seq(Pool)
  BY DEF MemTyped
<1>2. d \in Seq(Pool)
  BY <1>1, Dropped
<1>3. \A at : Has(calls, Pending(at)) => Has(d, Pending(at))
  <2> SUFFICES ASSUME NEW at, Has(calls, Pending(at)) PROVE Has(d, Pending(at))
    OBVIOUS
  <2>1. calls[i] \notin Pending(at)
    BY DEF Pending
  <2> QED BY <1>1, <2>1, HasDropped
<1>4. c \in CallSet /\ c.op = "overview" /\ c.at \in Ats /\ c.for = "conflict"
  BY DEF Overview, Call, CallSet
<1>5. calls' = Append(d, c)
  BY DEF ReadAgain
<1> HIDE DEF c, d
<1>6. c \in Pool
  BY <1>4 DEF Pool, GoodCall
<1> QED BY <1>2, <1>3, <1>5, <1>6, Appended, HasAppended

(* The details of a record come under an open dialog, too.                 *)
LEMMA AnswersDetail ==
    ASSUME MemInv, NEW i \in 1..Len(calls), Effects,
           DetailAnswers(i) \/ DetailFails(i)
    PROVE  MemInv'
<1> DEFINE c == calls[i]
<1>1. c \in Pool /\ c \in CallSet /\ GoodCall(c) /\ MemTyped /\ calls \in Seq(Pool)
  BY DEF MemInv, MemTyped, Pool
<1>2. /\ c.op = "detail" /\ calls' = Drop(calls, i)
      /\ UNCHANGED <<toolbar, lists, pager, late>>
  BY DEF DetailAnswers, DetailFails, panels
<1>3. c.kind \in Kinds /\ c.id \in Of(c.kind) /\ DOMAIN detail = Kinds
  BY <1>1, <1>2 DEF GoodCall, MemTyped
<1>4. calls' \in Seq(Pool) /\ (Has(calls, Pending(Asked)) => Has(calls', Pending(Asked)))
  BY <1>1, <1>2, Answered
<1>5. CASE DetailFails(i)
  <2>1. DialogPart'
    BY <1>5, DialogStays DEF DetailFails, panels, dialogs, MemInv
  <2>2. DOMAIN detail' = Kinds
    BY <1>3, <1>5 DEF DetailFails, panels
  <2> QED BY <1>2, <1>4, <2>1, <2>2, AnswerKeeps
<1>6. CASE DetailAnswers(i)
  <2>1. detail' = [detail EXCEPT ![c.kind] = Detail(c.kind, c.id)] /\ alias' = alias
    BY <1>6 DEF DetailAnswers
  <2>2. /\ DOMAIN detail' = Kinds /\ detail'[c.kind].id = c.id
        /\ \A k \in Kinds \ {c.kind} : detail'[k] = detail[k]
    BY <1>3, <2>1 DEF Detail
  <2>3. ASSUME conflict' # None
        PROVE  /\ conflict' \in [other : Atoms, winner : Atoms, disturbed : BOOLEAN]
               /\ ~conflict'.disturbed => conflict'.winner \in {detail'["atoms"].id, conflict'.other}
    <3> DEFINE turned == c.kind = "atoms" /\ c.id # detail[c.kind].id
    <3>1. /\ conflict # None
          /\ conflict' = IF turned THEN [conflict EXCEPT !.disturbed = TRUE] ELSE conflict
      BY <1>6, <2>3 DEF DetailAnswers
    <3>2. /\ conflict \in [other : Atoms, winner : Atoms, disturbed : BOOLEAN]
          /\ ~conflict.disturbed => conflict.winner \in {detail["atoms"].id, conflict.other}
      BY <3>1 DEF MemInv, DialogPart
    <3>3. CASE turned
      <4>1. conflict' = [conflict EXCEPT !.disturbed = TRUE]
        BY <3>1, <3>3
      <4> QED BY <3>2, <4>1
    <3>4. CASE ~turned
      <4>1. conflict' = conflict
        BY <3>1, <3>4
      <4>2. detail'["atoms"].id = detail["atoms"].id
        BY <2>2, <3>4, KindsAre
      <4> QED BY <3>2, <4>1, <4>2
    <3> QED BY <3>3, <3>4
  <2>4. DialogPart'
    BY <1>3, <2>1, <2>2, <2>3 DEF DialogPart, MemInv
  <2> QED BY <1>2, <1>4, <2>2, <2>4, AnswerKeeps
<1> QED BY <1>5, <1>6

(* The steps of resolveConflict keep the invariant.                        *)
LEMMA AnswersDecision ==
    ASSUME MemInv, NEW i \in 1..Len(calls), Effects,
           Decide(i) \/ DecideAnswers(i) \/ Reread(i) \/ DecideFails(i)
    PROVE  MemInv'
<1> DEFINE c == calls[i]
<1>1. c \in Pool /\ c \in CallSet /\ GoodCall(c) /\ MemTyped /\ calls \in Seq(Pool)
  BY DEF MemInv, MemTyped, Pool
<1>2. DOMAIN detail = Kinds
  BY <1>1 DEF MemTyped
<1>3. CASE Decide(i)
  <2>1. PICK op \in {"checked", "decided", "refused"} : calls' = [calls EXCEPT ![i].op = op]
    BY <1>3 DEF Decide
  <2> DEFINE d == [c EXCEPT !.op = op]
  <2>2. calls' = [calls EXCEPT ![i] = d]
    BY <2>1
  <2>3. /\ c.for = "conflict" /\ c.kind = "atoms" /\ c.sel \in Atoms \cup {None}
        /\ c.at \in Ats /\ c.id \in Atoms /\ c.op \in {"decide", "checked"}
    BY <1>1, <1>3 DEF Decide, GoodCall
  <2>4. /\ d \in CallSet /\ d.op = op /\ d.for = c.for /\ d.at = c.at
        /\ d.kind = c.kind /\ d.id = c.id /\ d.sel = c.sel
    <3>1. op \in {"overview", "list", "detail", "decide", "checked", "decided", "refused", "assign",
                  "assigned", "entities"}
      BY <2>1
    <3> QED BY <1>1, <3>1 DEF CallSet
  <2> HIDE DEF d
  <2>5. d \in Pool
    BY <2>3, <2>4 DEF Pool, GoodCall
  <2>6. \A at : c \notin Pending(at)
    BY <2>3 DEF Pending
  <2>7. calls' \in Seq(Pool) /\ (Has(calls, Pending(Asked)) => Has(calls', Pending(Asked)))
    BY <1>1, <2>2, <2>5, <2>6, Changed
  <2>8. UNCHANGED <<toolbar, lists, pager, late, detail>>
    BY <1>3 DEF Decide, panels
  <2>9. DialogPart'
    BY <1>3, DialogStays DEF Decide, panels, dialogs, MemInv
  <2> QED BY <1>2, <2>7, <2>8, <2>9, AnswerKeeps
<1>4. CASE DecideAnswers(i)
  <2>1. /\ c.op = "decided" /\ c.for = "conflict" /\ c.kind = "atoms"
        /\ c.sel \in Atoms \cup {None} /\ c.at \in Ats
    BY <1>1, <1>4 DEF DecideAnswers, GoodCall
  <2>2. UNCHANGED <<toolbar, lists, pager, late, detail>>
    BY <1>4 DEF DecideAnswers
  <2>3. DialogPart'
    BY <1>4, DialogStays DEF DecideAnswers, MemInv
  <2>4. calls' \in Seq(Pool) /\ (Has(calls, Pending(Asked)) => Has(calls', Pending(Asked)))
    <3>1. CASE c.sel # None
      <4> DEFINE d == [c EXCEPT !.op = "detail", !.id = c.sel]
      <4>1. calls' = [calls EXCEPT ![i] = d]
        BY <1>1, <1>4, <3>1 DEF DecideAnswers
      <4>2. /\ d \in CallSet /\ d.op = "detail" /\ d.id = c.sel /\ d.for = c.for
            /\ d.at = c.at /\ d.kind = c.kind
        BY <1>1, <2>1, <3>1 DEF CallSet
      <4> HIDE DEF d
      <4>3. d \in Pool
        BY <2>1, <3>1, <4>2, KindsAre DEF Pool, GoodCall
      <4>4. \A at : c \notin Pending(at)
        BY <2>1 DEF Pending
      <4> QED BY <1>1, <4>1, <4>3, <4>4, Changed
    <3>2. CASE c.sel = None
      <4>1. ReadAgain(i)
        BY <1>4, <3>2 DEF DecideAnswers
      <4> QED BY <1>1, <2>1, <4>1, ReadAgainAsks
    <3> QED BY <3>1, <3>2
  <2> QED BY <1>2, <2>2, <2>3, <2>4, AnswerKeeps
<1>5. CASE Reread(i)
  <2>1. /\ c.op = "detail" /\ c.kind = "atoms" /\ c.id \in Atoms /\ c.at \in Ats
    BY <1>1, <1>5, KindsAre DEF Reread, GoodCall
  <2>2. UNCHANGED <<toolbar, lists, pager, late, alias>> /\ conflict' = None /\ ReadAgain(i)
        /\ detail' = [detail EXCEPT !["atoms"] = Detail("atoms", c.id)]
    BY <1>5 DEF Reread
  <2>3. /\ DOMAIN detail' = Kinds /\ detail'["atoms"].id = c.id
        /\ \A k \in Kinds \ {"atoms"} : detail'[k] = detail[k]
    BY <1>2, <2>2, KindsAre DEF Detail
  <2>4. DialogPart'
    BY <2>1, <2>2, <2>3, KindsAre DEF DialogPart, MemInv
  <2>5. calls' \in Seq(Pool) /\ (Has(calls, Pending(Asked)) => Has(calls', Pending(Asked)))
    BY <1>1, <2>1, <2>2, ReadAgainAsks
  <2> QED BY <2>2, <2>3, <2>4, <2>5, AnswerKeeps
<1>6. CASE DecideFails(i)
  <2>1. c.op \notin {"overview", "list"} /\ calls' = Drop(calls, i)
        /\ UNCHANGED <<toolbar, lists, pager, late, detail>>
    BY <1>6 DEF DecideFails, panels
  <2>2. DialogPart'
    BY <1>6, DialogStays DEF DecideFails, panels, MemInv
  <2>3. calls' \in Seq(Pool) /\ (Has(calls, Pending(Asked)) => Has(calls', Pending(Asked)))
    BY <1>1, <2>1, Answered
  <2> QED BY <1>2, <2>1, <2>2, <2>3, AnswerKeeps
<1> QED BY <1>3, <1>4, <1>5, <1>6

(* So do those of resolveAlias.                                            *)
LEMMA AnswersAlias ==
    ASSUME MemInv, NEW i \in 1..Len(calls), Effects,
           Assign(i) \/ AssignAnswers(i) \/ EntitiesAnswer(i) \/ AssignFails(i)
    PROVE  MemInv'
<1> DEFINE c == calls[i]
<1>1. c \in Pool /\ c \in CallSet /\ GoodCall(c) /\ MemTyped /\ calls \in Seq(Pool)
  BY DEF MemInv, MemTyped, Pool
<1>2. DOMAIN detail = Kinds
  BY <1>1 DEF MemTyped
<1>3. CASE Assign(i)
  <2> DEFINE A == [c EXCEPT !.op = "assigned"]
             R == [c EXCEPT !.op = "refused"]
  <2>1. calls' = [calls EXCEPT ![i] = A] \/ calls' = [calls EXCEPT ![i] = R]
    BY <1>3 DEF Assign
  <2>2. A \in Pool /\ R \in Pool
    <3>1. /\ A \in CallSet /\ A.op = "assigned" /\ A.for = c.for /\ A.at = c.at
          /\ A.kind = c.kind /\ A.id = c.id /\ A.sel = c.sel
      BY <1>1, Became
    <3>2. R \in CallSet /\ R.op = "refused"
      BY <1>1, Became
    <3> HIDE DEF A, R
    <3>3. c.for = "alias" /\ c.id \in Entities /\ c.at \in Ats
      BY <1>1, <1>3 DEF Assign, GoodCall
    <3> QED BY <3>1, <3>2, <3>3 DEF Pool, GoodCall
  <2> HIDE DEF A, R
  <2>3. c.op = "assign"
    BY <1>3 DEF Assign
  <2>4. \A at : c \notin Pending(at)
    BY <2>3 DEF Pending
  <2>5. calls' \in Seq(Pool) /\ (Has(calls, Pending(Asked)) => Has(calls', Pending(Asked)))
    BY <1>1, <2>1, <2>2, <2>4, Changed
  <2>6. UNCHANGED <<toolbar, lists, pager, late, detail>>
    BY <1>3 DEF Assign, panels
  <2>7. DialogPart'
    BY <1>3, DialogStays DEF Assign, panels, dialogs, MemInv
  <2> QED BY <1>2, <2>5, <2>6, <2>7, AnswerKeeps
<1>4. CASE AssignAnswers(i)
  <2> DEFINE at == [c.at EXCEPT !.view = "entities", !.filter = "all"]
             d == [c EXCEPT !.op = "entities", !.at = at]
  <2>1. c.op = "assigned" /\ c.for = "alias" /\ c.id \in Entities /\ c.at \in Ats
    BY <1>1, <1>4 DEF AssignAnswers, GoodCall
  <2>2. /\ UNCHANGED <<toolbar, lists, pager, late, conflict>> /\ alias' = None
        /\ detail' = [detail EXCEPT !["entities"] = Detail("entities", c.id)]
        /\ calls' = [calls EXCEPT ![i] = d]
    BY <1>1, <1>4 DEF AssignAnswers
  <2>3. at \in Ats /\ at.view = "entities"
    BY <2>1, KindsAre DEF Ats, Filters
  <2> HIDE DEF at
  <2>4. d \in CallSet /\ d.op = "entities" /\ d.at = at /\ d.for = c.for
    BY <1>1, <2>3 DEF CallSet
  <2> HIDE DEF d
  <2>5. d \in Pool
    BY <2>1, <2>3, <2>4 DEF Pool, GoodCall
  <2>6. \A a : c \notin Pending(a)
    BY <2>1 DEF Pending
  <2>7. calls' \in Seq(Pool) /\ (Has(calls, Pending(Asked)) => Has(calls', Pending(Asked)))
    BY <1>1, <2>2, <2>5, <2>6, Changed
  <2>8. /\ DOMAIN detail' = Kinds /\ detail'["entities"].id = c.id
        /\ \A k \in Kinds \ {"entities"} : detail'[k] = detail[k]
    BY <1>2, <2>2, KindsAre DEF Detail
  <2>9. DialogPart'
    <3>1. \A k \in Kinds : /\ detail'[k].id \in Of(k) \cup {None}
                           /\ detail'[k].open => detail'[k].id \in Of(k)
      BY <2>1, <2>8, KindsAre DEF DialogPart, MemInv
    <3>2. detail'["atoms"] = detail["atoms"]
      BY <2>8, KindsAre
    <3>3. conflict' # None =>
            /\ conflict' \in [other : Atoms, winner : Atoms, disturbed : BOOLEAN]
            /\ ~conflict'.disturbed => conflict'.winner \in {detail'["atoms"].id, conflict'.other}
      <4>1. conflict' = conflict
        BY <2>2
      <4> QED BY <3>2, <4>1 DEF DialogPart, MemInv
    <3>4. alias' # None => alias' \in Entities
      BY <2>2
    <3> QED BY <3>1, <3>3, <3>4 DEF DialogPart
  <2> QED BY <2>2, <2>7, <2>8, <2>9, AnswerKeeps
<1>5. CASE EntitiesAnswer(i)
  <2>1. c.at \in Ats /\ c.at.view \in Kinds /\ UNCHANGED <<toolbar, detail>>
    BY <1>1, <1>5, KindsAre DEF EntitiesAnswer, GoodCall
  <2>2. calls' \in Seq(Pool)
    BY <1>1, <1>5, Answered DEF EntitiesAnswer
  <2>3. DialogPart'
    BY <1>5, DialogStays DEF EntitiesAnswer, MemInv
  <2> QED BY <1>5, <2>1, <2>2, <2>3, ShownKeeps DEF EntitiesAnswer
<1>6. CASE AssignFails(i)
  <2>1. c.op \notin {"overview", "list"} /\ calls' = Drop(calls, i)
        /\ UNCHANGED <<toolbar, lists, pager, late, detail>>
    BY <1>1, <1>6 DEF AssignFails, panels, GoodCall
  <2>2. DialogPart'
    BY <1>6, DialogStays DEF AssignFails, panels, MemInv
  <2>3. calls' \in Seq(Pool) /\ (Has(calls, Pending(Asked)) => Has(calls', Pending(Asked)))
    BY <1>1, <2>1, Answered
  <2> QED BY <1>2, <2>1, <2>2, <2>3, AnswerKeeps
<1> QED BY <1>3, <1>4, <1>5, <1>6

(* The request for a record                                                *)
LEMMA OpensDetail ==
    ASSUME MemTyped, NEW k \in Kinds, NEW id \in Of(k),
           calls' = Append(calls, Call("detail", "page", None, k, id, None))
    PROVE  /\ calls' \in Seq(Pool)
           /\ \A at : Has(calls, Pending(at)) => Has(calls', Pending(at))
<1> DEFINE c == Call("detail", "page", None, k, id, None)
<1>1. /\ c \in CallSet /\ c.op = "detail" /\ c.for = "page" /\ c.kind = k /\ c.id = id
  BY KindsAre DEF Call, CallSet
<1> HIDE DEF c
<1>2. c \in Pool
  BY <1>1 DEF Pool, GoodCall
<1>3. calls \in Seq(Pool) /\ calls' = Append(calls, c)
  BY DEF MemTyped, c
<1> QED BY <1>2, <1>3, Appended, HasAppended

(* openX, openXById and the closing of a panel keep the invariant.         *)
LEMMA PanelsKeep ==
    ASSUME MemInv, Panels, Effects
    PROVE  MemInv'
<1>1. MemTyped /\ DialogPart /\ DOMAIN detail = Kinds
  BY DEF MemInv, MemTyped
<1>2. ASSUME NEW k \in Kinds, Close(k) PROVE MemInv'
  <2>1. /\ UNCHANGED <<toolbar, lists, pager, late, calls>>
        /\ detail' = [detail EXCEPT ![k] = NoDetail] /\ conflict' = None /\ alias' = None
    BY <1>2 DEF Close, Modal, dialogs
  <2>2. DOMAIN detail' = Kinds /\ \A j \in Kinds : detail'[j] = detail[j] \/ detail'[j] = NoDetail
    BY <1>1, <2>1
  <2>3. DialogPart'
    BY <1>1, <2>1, <2>2, PanelsClose
  <2>4. calls' \in Seq(Pool)
    BY <1>1, <2>1 DEF MemTyped
  <2> QED BY <2>1, <2>2, <2>3, <2>4, AnswerKeeps
<1>3. ASSUME NEW k \in Kinds, NEW id \in Of(k), OpenRow(k, id) \/ OpenLink(k, id) PROVE MemInv'
  <2>1. /\ UNCHANGED <<lists, pager, late, filter>>
        /\ detail' = [NoDetails EXCEPT ![k] = detail[k]] /\ conflict' = None /\ alias' = None
        /\ calls' = Append(calls, Call("detail", "page", None, k, id, None))
        /\ UNCHANGED toolbar \/ Go(k)
    <3>1. CASE OpenRow(k, id)
      BY <3>1 DEF OpenRow, Modal, dialogs, toolbar
    <3>2. CASE OpenLink(k, id)
      BY <3>2 DEF OpenLink, Modal, dialogs, Go
    <3> QED BY <1>3, <3>1, <3>2
  <2>2. DOMAIN detail' = Kinds /\ \A j \in Kinds : detail'[j] = detail[j] \/ detail'[j] = NoDetail
    BY <1>1, <2>1 DEF NoDetails
  <2>3. DialogPart'
    BY <1>1, <2>1, <2>2, PanelsClose
  <2>4. /\ calls' \in Seq(Pool)
        /\ Has(calls, Pending(Asked)) => Has(calls', Pending(Asked))
    BY <1>1, <2>1, OpensDetail
  <2>5. MemTyped'
    BY <1>1, <2>1, <2>2, <2>4, FirstPage DEF MemTyped, toolbar, Go
  <2> QED BY <1>1, <2>1, <2>3, <2>4, <2>5, ListStays DEF MemInv
<1> QED BY <1>2, <1>3 DEF Panels

(* So do the buttons of the dialogs: the panel an open contradiction is on *)
(* shows one of the two Atoms.                                             *)
LEMMA DialogsKeep ==
    ASSUME MemInv, Dialogs, Effects
    PROVE  MemInv'
<1>1. MemTyped /\ DialogPart /\ DOMAIN detail = Kinds /\ calls \in Seq(Pool) /\ Asked \in Ats
  BY AskedTyped DEF MemInv, MemTyped
<1>2. UNCHANGED <<toolbar, panels>>
  BY DEF Dialogs, SelectWinner, SelectOwner, DismissConflict, ConfirmConflict, DismissAlias,
         ConfirmAlias
<1>3. UNCHANGED <<toolbar, lists, pager, late, detail>> /\ DOMAIN detail' = Kinds
  BY <1>1, <1>2 DEF panels
<1>4. ASSUME UNCHANGED calls, DialogPart' PROVE MemInv'
  BY <1>1, <1>3, <1>4, AnswerKeeps
<1>5. ASSUME NEW w \in Atoms, SelectWinner(w) PROVE MemInv'
  <2> DEFINE a == detail["atoms"].id
             b == Rival(a)
  <2>1. a \in Atoms
    BY <1>1, <1>5, KindsAre DEF SelectWinner, DialogPart
  <2>2. b \in Atoms /\ w \in {a, b}
    <3>1. PICK x, y \in Atoms : x # y /\ Atoms = {x, y}
      BY MemoryAssumption
    <3>2. \E z \in Atoms : z # a
      BY <3>1
    <3>3. b \in Atoms /\ b # a
      BY <3>2 DEF Rival
    <3> QED BY <2>1, <3>1, <3>3
  <2>3. conflict' = [other |-> b, winner |-> w, disturbed |-> FALSE] /\ UNCHANGED <<calls, alias>>
    BY <1>5 DEF SelectWinner
  <2> HIDE DEF b
  <2>4. DialogPart'
    BY <1>1, <1>3, <2>1, <2>2, <2>3 DEF DialogPart
  <2> QED BY <1>4, <2>3, <2>4
<1>6. ASSUME NEW e \in Entities, SelectOwner(e) PROVE MemInv'
  <2>1. DialogPart'
    BY <1>1, <1>3, <1>6 DEF DialogPart, SelectOwner
  <2> QED BY <1>4, <1>6, <2>1 DEF SelectOwner
<1>7. ASSUME DismissConflict \/ DismissAlias PROVE MemInv'
  <2>1. DialogPart'
    BY <1>1, <1>3, <1>7, DialogStays DEF DismissConflict, DismissAlias
  <2> QED BY <1>4, <1>7, <2>1 DEF DismissConflict, DismissAlias
<1>8. ASSUME ConfirmConflict \/ ConfirmAlias PROVE MemInv'
  <2> DEFINE c == Call("decide", "conflict", Asked, "atoms", conflict.winner, detail["atoms"].id)
             d == Call("assign", "alias", Asked, "entities", alias, None)
  <2>1. DialogPart'
    BY <1>1, <1>3, <1>8, DialogStays DEF ConfirmConflict, ConfirmAlias
  <2>2. ASSUME ConfirmConflict PROVE c \in Pool /\ calls' = Append(calls, c)
    <3>1. conflict.winner \in Atoms /\ detail["atoms"].id \in Atoms \cup {None}
      BY <1>1, <2>2, KindsAre DEF ConfirmConflict, DialogPart
    <3>2. c \in CallSet
      BY <1>1, <3>1, KindsAre DEF Call, CallSet
    <3>3. GoodCall(c)
      BY <1>1, <3>1 DEF Call, GoodCall
    <3> QED BY <2>2, <3>2, <3>3 DEF Pool, ConfirmConflict
  <2>3. ASSUME ConfirmAlias PROVE d \in Pool /\ calls' = Append(calls, d)
    <3>1. alias \in Entities
      BY <1>1, <2>3 DEF ConfirmAlias, DialogPart
    <3>2. d \in CallSet
      BY <1>1, <3>1, KindsAre DEF Call, CallSet
    <3>3. GoodCall(d)
      BY <1>1, <3>1 DEF Call, GoodCall
    <3> QED BY <2>3, <3>2, <3>3 DEF Pool, ConfirmAlias
  <2>4. PICK e \in Pool : calls' = Append(calls, e)
    BY <1>8, <2>2, <2>3
  <2>5. calls' \in Seq(Pool) /\ (Has(calls, Pending(Asked)) => Has(calls', Pending(Asked)))
    BY <1>1, <2>4, Appended, HasAppended
  <2> QED BY <1>3, <2>1, <2>5, AnswerKeeps
<1> QED BY <1>5, <1>6, <1>7, <1>8 DEF Dialogs

(* The page is mounted, with nothing asked for.                            *)
LEMMA MemoryStart == Init => MemInv
<1> SUFFICES ASSUME Init PROVE MemInv
  OBVIOUS
<1>1. MemTyped
  <2>1. "episodes" \in Kinds
    BY MemoryAssumption DEF Kinds
  <2>2. filter \in [Filtered -> Filters]
    BY DEF Init, MemoryInit, Filters
  <2>3. DOMAIN lists = Kinds /\ DOMAIN detail = Kinds /\ calls \in Seq(Pool)
    BY DEF Init, MemoryInit, NoDetails
  <2> QED BY <2>1, <2>2, <2>3, FirstPage DEF Init, MemoryInit, Start, MemTyped
<1>2. ListPart
  BY DEF Init, MemoryInit, ListPart
<1>3. DialogPart
  BY DEF Init, MemoryInit, DialogPart, NoDetails, NoDetail
<1> QED BY <1>1, <1>2, <1>3 DEF MemInv

(* The invariant of the memory tab is inductive.                           *)
LEMMA MemoryKept == MemInv /\ [Next]_vars => MemInv'
<1> SUFFICES ASSUME MemInv, [Next]_vars PROVE MemInv'
  OBVIOUS
<1>1. ASSUME NEW i \in DOMAIN calls, MemoryAnswer(i), Effects PROVE MemInv'
  <2>1. i \in 1..Len(calls)
    BY DEF MemInv, MemTyped
  <2> QED BY <1>1, <2>1, AnswersLoad, AnswersDetail, AnswersDecision, AnswersAlias DEF MemoryAnswer
<1>2. ASSUME UNCHANGED memoryVars PROVE MemInv'
  BY <1>2 DEF memoryVars, toolbar, panels, dialogs, MemInv, MemTyped, ListPart, DialogPart, Asked
<1>3. ASSUME NEW i, ServeUnheard(i) PROVE MemInv'
  BY <1>3 DEF ServeUnheard, toolbar, panels, dialogs, MemInv, MemTyped, ListPart, DialogPart, Asked
<1> QED
  BY <1>1, <1>2, <1>3, MemoryMove, ToolbarKeeps, PanelsKeep, DialogsKeep, TimerKeeps, MountedKeeps

(* Once nothing is under way, the list, its page count and its total are   *)
(* those the toolbar asks for, unless the last answer came late or failed  *)
(* (MemoryWorkspace.tsx).                                                  *)
THEOREM ShowsWhatIsAsked == Spec => []ListIsAsked
<1>1. MemInv => ListIsAsked
  <2> SUFFICES ASSUME MemInv, calls = <<>> PROVE ListPart => ListIsAsked
    BY DEF MemInv, ListIsAsked
  <2>1. ~Has(calls, Pending(Asked))
    BY DEF Has
  <2> QED BY <2>1 DEF ListPart, ListIsAsked
<1> QED BY <1>1, MemoryStart, MemoryKept, PTL DEF Spec

(* The dialog of a contradiction names as kept the Atom that the request   *)
(* it sends will keep, unless a details answer that was under way when it  *)
(* opened has changed the panel below it (MemoryWorkspace.tsx).            *)
THEOREM DialogIsTruthful == Spec => []DialogTruthful
<1>1. MemInv => DialogTruthful
  BY DEF MemInv, DialogPart, DialogTruthful, Keeps
<1> QED BY <1>1, MemoryStart, MemoryKept, PTL DEF Spec

(* The decisions that no page waits for are decisions.                     *)
UnheardTyped == unheard \in Seq(Unheard)

(* A request that is given up may leave one.                               *)
LEMMA GivenUpTyped ==
    ASSUME UnheardTyped, NEW c \in Pool, GivenUp(c)
    PROVE  UnheardTyped'
<1>1. c.op \in AtServer => Left(c) \in Unheard
  BY DEF Pool, GoodCall, AtServer, Left, Unheard
<1> QED BY <1>1 DEF GivenUp, UnheardTyped

(* So may a page that is mounted anew.                                     *)
LEMMA LetGoTyped ==
    ASSUME UnheardTyped, calls \in Seq(Pool), LetGo
    PROVE  UnheardTyped'
<1> DEFINE S == {Left(calls[j]) : j \in 1..Len(calls)}
           s == [j \in DOMAIN calls |-> Left(calls[j])]
           k == Kept(s, Unheard)
<1>1. s \in Seq(S)
  OBVIOUS
<1> HIDE DEF S, s
<1>2. k \in Seq(S \cap Unheard)
  BY <1>1, KeptGood
<1>3. unheard' = unheard \o k
  BY DEF LetGo, s
<1> HIDE DEF k
<1>4. k \in Seq(Unheard)
  BY <1>2
<1> QED BY <1>3, <1>4 DEF UnheardTyped

(* The server checks them, and is done with them.                          *)
LEMMA ServeTyped ==
    ASSUME UnheardTyped, NEW i \in 1..Len(unheard), ServeUnheard(i)
    PROVE  UnheardTyped'
<1> DEFINE d == [unheard[i] EXCEPT !.op = "checked"]
<1>1. unheard \in Seq(Unheard) /\ unheard[i] \in Unheard
  BY DEF UnheardTyped
<1>2. d \in Unheard
  BY <1>1 DEF Unheard, AtServer
<1>3. unheard' = [unheard EXCEPT ![i] = d] \/ unheard' = Drop(unheard, i)
  BY DEF ServeUnheard
<1> HIDE DEF d
<1>4. CASE unheard' = [unheard EXCEPT ![i] = d]
  BY <1>1, <1>2, <1>4 DEF UnheardTyped
<1>5. CASE unheard' = Drop(unheard, i)
  BY <1>1, <1>5, Dropped DEF UnheardTyped
<1> QED BY <1>3, <1>4, <1>5

(* What an answer does to them                                             *)
LEMMA AnswersGivenUp ==
    ASSUME NEW i, MemoryAnswer(i)
    PROVE  UNCHANGED unheard \/ GivenUp(calls[i])
<1>1. CASE DecideFails(i) \/ AssignFails(i)
  BY <1>1 DEF DecideFails, AssignFails
<1>2. CASE Decide(i) \/ Assign(i)
  BY <1>2 DEF Decide, Assign
<1>3. CASE OverviewAnswers(i) \/ ListAnswers(i) \/ LoadFails(i) \/ EntitiesAnswer(i)
  BY <1>3 DEF OverviewAnswers, ListAnswers, LoadFails, EntitiesAnswer, records
<1>4. CASE DetailAnswers(i) \/ DetailFails(i) \/ DecideAnswers(i) \/ Reread(i) \/ AssignAnswers(i)
  BY <1>4 DEF DetailAnswers, DetailFails, DecideAnswers, Reread, AssignAnswers, records
<1> QED BY <1>1, <1>2, <1>3, <1>4 DEF MemoryAnswer

(* The user of the page asks the server for nothing it does not wait for.  *)
LEMMA UserRecords ==
    ASSUME Toolbar \/ Panels \/ Dialogs \/ TimerFires
    PROVE  UNCHANGED records
BY DEF Toolbar, Panels, Dialogs, TimerFires, SwitchView, Turn, Type, Filter, RefreshList,
       Close, OpenRow, OpenLink, SelectWinner, SelectOwner, DismissConflict, ConfirmConflict,
       DismissAlias, ConfirmAlias

(* They stay decisions.                                                    *)
LEMMA UnheardKept == MemInv /\ UnheardTyped /\ [Next]_vars => UnheardTyped'
<1> SUFFICES ASSUME MemInv, UnheardTyped, [Next]_vars PROVE UnheardTyped'
  OBVIOUS
<1>1. calls \in Seq(Pool) /\ DOMAIN calls = 1..Len(calls) /\ DOMAIN unheard = 1..Len(unheard)
  BY DEF MemInv, MemTyped, UnheardTyped
<1>2. ASSUME UNCHANGED unheard PROVE UnheardTyped'
  BY <1>2 DEF UnheardTyped
<1>3. ASSUME NEW i \in DOMAIN calls, MemoryAnswer(i) PROVE UnheardTyped'
  <2>1. calls[i] \in Pool
    BY <1>1
  <2> QED BY <1>2, <1>3, <2>1, AnswersGivenUp, GivenUpTyped
<1>4. ASSUME Mounted PROVE UnheardTyped'
  BY <1>1, <1>4, LetGoTyped DEF Mounted
<1>5. ASSUME NEW i \in DOMAIN unheard, ServeUnheard(i) PROVE UnheardTyped'
  BY <1>1, <1>5, ServeTyped
<1> QED
  BY <1>2, <1>3, <1>4, <1>5, UserRecords, MemoryMove DEF records, memoryVars

(* All the decisions that were checked are for one Atom.                   *)
Only(s, w) == \A j \in DOMAIN s : s[j].op = "checked" => s[j].id = w

(* They are when one is dropped,                                           *)
LEMMA OnlyDropped ==
    ASSUME NEW S, NEW s \in Seq(S), NEW i \in 1..Len(s), NEW w, Only(s, w)
    PROVE  Only(Drop(s, i), w)
<1> DEFINE d == Drop(s, i)
           n == Len(s)
<1>1. /\ Len(d) = n - 1 /\ n \in Nat /\ DOMAIN s = 1..n /\ d \in Seq(S)
      /\ \A k \in 1..(n - 1) : d[k] = IF k < i THEN s[k] ELSE s[k + 1]
  <2>1. /\ Len(d) = Len(s) - 1 /\ d \in Seq(S)
        /\ \A k \in 1..(Len(s) - 1) : Drop(s, i)[k] = IF k < i THEN s[k] ELSE s[k + 1]
    BY Dropped
  <2> QED BY <2>1
<1> HIDE DEF d, n
<1>2. DOMAIN d = 1..(n - 1)
  BY <1>1
<1> SUFFICES ASSUME NEW k \in 1..(n - 1), d[k].op = "checked" PROVE d[k].id = w
  BY <1>2 DEF Only, d
<1>3. k \in 1..n /\ k + 1 \in 1..n
  BY <1>1
<1>4. d[k] = s[k] \/ d[k] = s[k + 1]
  BY <1>1
<1> QED BY <1>1, <1>3, <1>4 DEF Only

(* one for it is added,                                                    *)
LEMMA OnlyAppended ==
    ASSUME NEW S, NEW s \in Seq(S), NEW e, NEW w, e.op = "checked" => e.id = w, Only(s, w)
    PROVE  Only(Append(s, e), w)
<1> DEFINE a == Append(s, e)
           n == Len(s)
<1>1. n \in Nat /\ DOMAIN a = 1..(n + 1) /\ a[n + 1] = e /\ \A j \in 1..n : a[j] = s[j]
  OBVIOUS
<1>2. DOMAIN s = 1..n
  OBVIOUS
<1> HIDE DEF a, n
<1> SUFFICES ASSUME NEW k \in 1..(n + 1), a[k].op = "checked" PROVE a[k].id = w
  BY <1>1 DEF Only, a
<1>3. k = n + 1 \/ k \in 1..n
  BY <1>1
<1> QED BY <1>1, <1>2, <1>3 DEF Only

(* or one becomes another.                                                 *)
LEMMA OnlyChanged ==
    ASSUME NEW S, NEW s \in Seq(S), NEW i \in 1..Len(s), NEW e, NEW w,
           e.op = "checked" => e.id = w, Only(s, w)
    PROVE  Only([s EXCEPT ![i] = e], w)
<1> DEFINE d == [s EXCEPT ![i] = e]
<1>1. DOMAIN d = DOMAIN s /\ d[i] = e /\ \A j \in DOMAIN s : j # i => d[j] = s[j]
  OBVIOUS
<1> HIDE DEF d
<1> QED BY <1>1 DEF Only, d

(* What is settled                                                         *)
LEMMA SettledIs == Settled <=> decided # None /\ Only(calls, decided) /\ Only(unheard, decided)
BY DEF Settled, Checked, Only

(* and after a step                                                        *)
LEMMA SettledNext ==
    decided' # None /\ Only(calls', decided') /\ Only(unheard', decided') => Settled'
BY DEF Settled, Checked, Only

(* Once it is settled, no answer of the server unsettles it:               *)
LEMMA AnswersSettle ==
    ASSUME MemInv, UnheardTyped, Settled, NEW i \in 1..Len(calls), MemoryAnswer(i)
    PROVE  Settled' /\ decided' = decided
<1> DEFINE c == calls[i]
           w == decided
<1>1. /\ c \in CallSet /\ GoodCall(c) /\ calls \in Seq(Pool) /\ DOMAIN calls = 1..Len(calls)
      /\ unheard \in Seq(Unheard)
  BY DEF MemInv, MemTyped, Pool, UnheardTyped
<1>2. w # None /\ Only(calls, w) /\ Only(unheard, w) /\ (c.op = "checked" => c.id = w)
  BY <1>1, SettledIs DEF Only
<1>3. ASSUME decided' = w, Only(calls', w), UNCHANGED unheard PROVE Settled' /\ decided' = decided
  BY <1>2, <1>3, SettledNext
<1>4. Only(Drop(calls, i), w)
  BY <1>1, <1>2, OnlyDropped
<1>5. ASSUME NEW op, op # "checked" \/ c.id = w, calls' = [calls EXCEPT ![i].op = op]
      PROVE  Only(calls', w)
  <2> DEFINE e == [c EXCEPT !.op = op]
  <2>1. e.op = op /\ e.id = c.id /\ calls' = [calls EXCEPT ![i] = e]
    BY <1>1, <1>5 DEF CallSet
  <2>2. e.op = "checked" => e.id = w
    BY <1>5, <2>1
  <2> HIDE DEF e
  <2> QED BY <1>1, <1>2, <2>1, <2>2, OnlyChanged
<1>6. ASSUME ReadAgain(i) PROVE Only(calls', w)
  <2> DEFINE d == Drop(calls, i)
             e == Overview(calls[i].at, "conflict")
  <2>1. calls' = Append(d, e) /\ e.op = "overview" /\ d \in Seq(Pool)
    BY <1>1, <1>6, Dropped DEF ReadAgain, Overview, Call
  <2>2. Only(d, w)
    BY <1>4
  <2> HIDE DEF d, e
  <2> QED BY <2>1, <2>2, OnlyAppended
<1> HIDE DEF c, w
<1>7. CASE Decide(i)
  <2>1. /\ c.op \in {"decide", "checked"} /\ UNCHANGED unheard
        /\ \/ Checks(c) /\ calls' = [calls EXCEPT ![i].op = "checked"] /\ UNCHANGED decided
           \/ Overwrites(c) /\ calls' = [calls EXCEPT ![i].op = "decided"]
           \/ calls' = [calls EXCEPT ![i].op = "refused"] /\ UNCHANGED decided
    BY <1>7 DEF Decide, outcomes, c
  <2>2. CASE Checks(c) /\ calls' = [calls EXCEPT ![i].op = "checked"] /\ UNCHANGED decided
    <3>1. c.id = w
      BY <1>2, <2>2 DEF Checks, MayDecide, w
    <3> QED BY <1>3, <1>5, <2>1, <2>2, <3>1 DEF w
  <2>3. CASE Overwrites(c) /\ calls' = [calls EXCEPT ![i].op = "decided"]
    <3>1. decided' = w
      BY <1>2, <2>3 DEF Overwrites
    <3> QED BY <1>3, <1>5, <2>1, <2>3, <3>1
  <2>4. CASE calls' = [calls EXCEPT ![i].op = "refused"] /\ UNCHANGED decided
    BY <1>3, <1>5, <2>1, <2>4 DEF w
  <2> QED BY <2>1, <2>2, <2>3, <2>4
<1>8. CASE DecideFails(i) \/ AssignFails(i)
  <2>1. calls' = Drop(calls, i) /\ GivenUp(c) /\ decided' = w
    BY <1>8 DEF DecideFails, AssignFails, outcomes, c, w
  <2>2. Only(Append(unheard, Left(c)), w)
    BY <1>1, <1>2, OnlyAppended DEF Left
  <2>3. Only(unheard', w)
    BY <1>2, <2>1, <2>2 DEF GivenUp
  <2> QED BY <1>2, <1>4, <2>1, <2>3, SettledNext DEF w
<1>9. CASE Assign(i)
  <2>1. decided' = w /\ UNCHANGED unheard
    BY <1>9 DEF Assign, AssignTo, outcomes, w
  <2>2. \E op \in {"assigned", "refused"} : calls' = [calls EXCEPT ![i].op = op]
    BY <1>9 DEF Assign
  <2> QED BY <1>3, <1>5, <2>1, <2>2
<1>10. CASE OverviewAnswers(i)
  <2>1. decided' = w /\ UNCHANGED unheard
    BY <1>10 DEF OverviewAnswers, records, outcomes, w
  <2>2. calls' = Drop(calls, i) \/ calls' = [calls EXCEPT ![i].op = "list"]
    BY <1>10 DEF OverviewAnswers
  <2> QED BY <1>3, <1>4, <1>5, <2>1, <2>2
<1>11. CASE DecideAnswers(i)
  <2>1. decided' = w /\ UNCHANGED unheard
    BY <1>11 DEF DecideAnswers, records, outcomes, w
  <2>2. CASE calls[i].sel # None
    <3> DEFINE e == [calls[i] EXCEPT !.op = "detail", !.id = calls[i].sel]
    <3>1. e.op = "detail" /\ calls' = [calls EXCEPT ![i] = e]
      BY <1>1, <1>11, <2>2 DEF DecideAnswers, CallSet, c
    <3> HIDE DEF e
    <3>2. Only(calls', w)
      BY <1>1, <1>2, <3>1, OnlyChanged
    <3> QED BY <1>3, <2>1, <3>2
  <2>3. CASE calls[i].sel = None
    BY <1>3, <1>6, <1>11, <2>1, <2>3 DEF DecideAnswers
  <2> QED BY <2>2, <2>3
<1>12. CASE Reread(i)
  BY <1>3, <1>6, <1>12 DEF Reread, records, outcomes, w
<1>13. CASE AssignAnswers(i)
  <2>1. decided' = w /\ UNCHANGED unheard
    BY <1>13 DEF AssignAnswers, records, outcomes, w
  <2> DEFINE at == [calls[i].at EXCEPT !.view = "entities", !.filter = "all"]
             e == [calls[i] EXCEPT !.op = "entities", !.at = at]
  <2>2. e.op = "entities" /\ calls' = [calls EXCEPT ![i] = e]
    BY <1>1, <1>13 DEF AssignAnswers, CallSet, c
  <2> HIDE DEF e
  <2>3. Only(calls', w)
    BY <1>1, <1>2, <2>2, OnlyChanged
  <2> QED BY <1>3, <2>1, <2>3
<1>14. CASE \/ ListAnswers(i) \/ LoadFails(i) \/ DetailAnswers(i) \/ DetailFails(i)
            \/ EntitiesAnswer(i)
  <2>1. calls' = Drop(calls, i) /\ decided' = w /\ UNCHANGED unheard
    BY <1>14 DEF ListAnswers, LoadFails, DetailAnswers, DetailFails, EntitiesAnswer, records,
       outcomes, w
  <2> QED BY <1>3, <1>4, <2>1
<1> QED
  BY <1>7, <1>8, <1>9, <1>10, <1>11, <1>12, <1>13, <1>14 DEF MemoryAnswer

(* nor does a page that asks for more,                                     *)
LEMMA UserSettles ==
    ASSUME MemInv, Settled, Toolbar \/ Panels \/ Dialogs \/ TimerFires
    PROVE  Settled' /\ decided' = decided
<1>1. decided' = decided /\ unheard' = unheard
  BY UserRecords DEF records, outcomes
<1>2. calls \in Seq(Pool) /\ decided # None /\ Only(calls, decided) /\ Only(unheard, decided)
  BY SettledIs DEF MemInv, MemTyped
<1>3. ASSUME NEW e, e.op # "checked", calls' = Append(calls, e) PROVE Only(calls', decided)
  BY <1>2, <1>3, OnlyAppended
<1>4. ASSUME Load PROVE Only(calls', decided)
  BY <1>3, <1>4 DEF Load, Overview, Call
<1>5. ASSUME Toolbar \/ TimerFires PROVE Only(calls', decided)
  BY <1>2, <1>4, <1>5 DEF Toolbar, TimerFires, SwitchView, Turn, Type, Filter, RefreshList
<1>6. ASSUME Panels PROVE Only(calls', decided)
  BY <1>2, <1>3, <1>6 DEF Panels, Close, OpenRow, OpenLink, Call
<1>7. ASSUME Dialogs PROVE Only(calls', decided)
  BY <1>2, <1>3, <1>7 DEF Dialogs, SelectWinner, SelectOwner, DismissConflict, ConfirmConflict,
     DismissAlias, ConfirmAlias, Call
<1>8. Only(calls', decided)
  BY <1>5, <1>6, <1>7
<1> QED BY <1>1, <1>2, <1>8, SettledNext

(* one that is mounted anew,                                               *)
LEMMA LetGoSettles ==
    ASSUME MemInv, UnheardTyped, Settled, Mounted, UNCHANGED outcomes
    PROVE  Settled' /\ decided' = decided
<1> DEFINE w == decided
           good == {d \in {Left(calls[j]) : j \in 1..Len(calls)} : d.op = "checked" => d.id = w}
           s == [j \in DOMAIN calls |-> Left(calls[j])]
           k == Kept(s, Unheard)
<1>1. calls \in Seq(Pool) /\ w # None /\ Only(calls, w) /\ Only(unheard, w)
  BY SettledIs DEF MemInv, MemTyped
<1>2. s \in Seq(good)
  BY <1>1 DEF Only, Left
<1> HIDE DEF s
<1>3. k \in Seq(good)
  BY <1>2, KeptTyped
<1>4. unheard' = unheard \o k /\ calls' = <<>> /\ decided' = w
  BY DEF Mounted, LetGo, outcomes, s
<1> HIDE DEF k
<1>5. \A j \in 1..Len(k) : k[j].op = "checked" => k[j].id = w
  BY <1>3
<1>6. /\ Len(unheard \o k) = Len(unheard) + Len(k) /\ DOMAIN (unheard \o k) = 1..(Len(unheard) + Len(k))
      /\ \A j \in 1..(Len(unheard) + Len(k)) :
            (unheard \o k)[j] = IF j <= Len(unheard) THEN unheard[j] ELSE k[j - Len(unheard)]
  BY <1>3, ConcatProperties DEF UnheardTyped
<1>7. Only(unheard \o k, w)
  <2> DEFINE n == Len(unheard)
             m == Len(k)
             u == unheard \o k
  <2>1. n \in Nat /\ m \in Nat /\ DOMAIN unheard = 1..n
    BY <1>3 DEF UnheardTyped
  <2>2. DOMAIN u = 1..(n + m) /\ \A j \in 1..(n + m) : u[j] = IF j <= n THEN unheard[j] ELSE k[j - n]
    BY <1>6
  <2>3. \A j \in 1..m : k[j].op = "checked" => k[j].id = w
    BY <1>5
  <2> HIDE DEF n, m, u
  <2> SUFFICES ASSUME NEW j \in 1..(n + m), u[j].op = "checked" PROVE u[j].id = w
    BY <2>2 DEF Only, u
  <2>4. CASE j <= n
    BY <1>1, <2>1, <2>2, <2>4 DEF Only
  <2>5. CASE ~(j <= n)
    <3>1. j - n \in 1..m
      BY <2>1, <2>5
    <3> QED BY <2>2, <2>3, <2>5, <3>1
  <2> QED BY <2>4, <2>5
<1>8. Only(calls', w)
  BY <1>4 DEF Only
<1> QED BY <1>1, <1>4, <1>7, <1>8, SettledNext

(* nor what the server does with the decisions of pages that are gone.     *)
LEMMA ServeSettles ==
    ASSUME UnheardTyped, Settled, NEW i \in 1..Len(unheard), ServeUnheard(i)
    PROVE  Settled' /\ decided' = decided
<1> DEFINE w == decided
           d == unheard[i]
           e == [d EXCEPT !.op = "checked"]
<1>1. /\ unheard \in Seq(Unheard) /\ d \in Unheard /\ calls' = calls
      /\ e.op = "checked" /\ e.id = d.id
  <2>1. unheard \in Seq(Unheard) /\ d \in Unheard
    BY DEF UnheardTyped
  <2>2. calls' = calls
    BY DEF ServeUnheard
  <2> QED BY <2>1, <2>2 DEF Unheard
<1>2. /\ w # None /\ Only(calls, w) /\ Only(unheard, w)
      /\ d.op = "checked" => d.id = w
  BY <1>1, SettledIs DEF Only
<1>3. \/ Checks(d) /\ unheard' = [unheard EXCEPT ![i] = e] /\ decided' = w
      \/ Overwrites(d) /\ unheard' = Drop(unheard, i)
      \/ unheard' = Drop(unheard, i) /\ decided' = w
  BY DEF ServeUnheard, AssignTo, outcomes
<1> HIDE DEF w, d, e
<1>4. CASE Checks(d) /\ unheard' = [unheard EXCEPT ![i] = e] /\ decided' = w
  <2>1. d.id = w
    BY <1>2, <1>4 DEF Checks, MayDecide, w
  <2>2. Only(unheard', w)
    BY <1>1, <1>2, <1>4, <2>1, OnlyChanged
  <2> QED BY <1>1, <1>2, <1>4, <2>2, SettledNext DEF w
<1>5. CASE unheard' = Drop(unheard, i) /\ decided' = w
  <2>1. Only(unheard', w)
    BY <1>1, <1>2, <1>5, OnlyDropped
  <2> QED BY <1>1, <1>2, <1>5, <2>1, SettledNext DEF w
<1>6. CASE Overwrites(d) /\ unheard' = Drop(unheard, i)
  <2>1. decided' = w
    BY <1>2, <1>6 DEF Overwrites
  <2> QED BY <1>5, <1>6, <2>1
<1> QED BY <1>3, <1>4, <1>5, <1>6

(* A contradiction that is decided, with no decision for the other Atom    *)
(* between its check and its write, keeps its winner: what asks for the    *)
(* other one is refused, whatever stale panels, repeated decisions and     *)
(* requests of pages that are gone it comes from (resolve_atom_conflict).  *)
(* A decision that overlaps another one, and only that, replaces a winner. *)
THEOREM DecisionsStand == Spec => DecisionStands
<1>1. MemInv /\ UnheardTyped /\ [Next]_vars => [Settled => Settled' /\ decided' = decided]_vars
  <2> SUFFICES ASSUME MemInv, UnheardTyped, [Next]_vars, Settled
               PROVE  Settled' /\ decided' = decided
    OBVIOUS
  <2>1. DOMAIN calls = 1..Len(calls) /\ DOMAIN unheard = 1..Len(unheard)
    BY DEF MemInv, MemTyped, UnheardTyped
  <2>2. CASE UNCHANGED memoryVars
    <3>1. calls' = calls /\ unheard' = unheard /\ decided' = decided
      BY <2>2 DEF memoryVars, records, outcomes
    <3> QED BY <3>1, SettledIs, SettledNext
  <2> QED
    BY <2>1, <2>2, MemoryMove, AnswersSettle, UserSettles, LetGoSettles, ServeSettles
<1>2. Init => UnheardTyped
  BY DEF Init, MemoryInit, UnheardTyped
<1> QED BY <1>1, <1>2, MemoryStart, MemoryKept, UnheardKept, PTL DEF Spec, DecisionStands

(* ----------------------------- the workspace --------------------------- *)
(* A change of the workspace that was served, its answer on its way        *)
Landing == {c \in Requests : c.op \in {"activate", "delete"} /\ c.heard /\ c.state = "done"}

(* Some request has been granted an alias.                                 *)
Granted(s) == \E j \in 1..Len(s) : s[j].op = "assigned"

(* The lists, the panels and a granted alias are of the active workspace,  *)
MemHere ==
    /\ \A k \in Kinds : lists[k].from \in {None, active}
    /\ \A k \in Kinds : detail[k].id # None => active = Default
    /\ Granted(calls) => active = Default

(* so is the exploration that is followed,                                 *)
TraceHere == current # Nothing => active = Default

(* and so is the graph that is shown or being loaded.                      *)
DreamHere ==
    /\ data # Nowhere /\ data.of > 0 => active = Default
    /\ loads # Nowhere /\ loads.graph # Nowhere /\ loads.graph.of > 0 => active = Default

(* All of it is, unless the page went astray or a change is landing.       *)
PlaceInv ==
    /\ asked \in Seq(Requests)
    /\ \/ astray
       \/ Has(asked, Landing)
       \/ here \in {None, active} /\ MemHere /\ TraceHere /\ DreamHere

(* No request is granted an alias when another one is dropped,             *)
LEMMA GrantDropped ==
    ASSUME NEW S, NEW s \in Seq(S), NEW i \in 1..Len(s), Granted(Drop(s, i))
    PROVE  Granted(s)
<1> DEFINE d == Drop(s, i)
           n == Len(s)
<1>1. /\ Len(d) = n - 1 /\ n \in Nat
      /\ \A k \in 1..(n - 1) : d[k] = IF k < i THEN s[k] ELSE s[k + 1]
  <2>1. /\ Len(d) = Len(s) - 1
        /\ \A k \in 1..(Len(s) - 1) : Drop(s, i)[k] = IF k < i THEN s[k] ELSE s[k + 1]
    BY Dropped
  <2> QED BY <2>1
<1>2. PICK k \in 1..Len(d) : d[k].op = "assigned"
  BY DEF Granted
<1> HIDE DEF d, n
<1>3. k \in 1..n /\ k + 1 \in 1..n /\ k \in 1..(n - 1)
  BY <1>1, <1>2
<1>4. d[k] = s[k] \/ d[k] = s[k + 1]
  BY <1>1, <1>3
<1> QED BY <1>2, <1>3, <1>4 DEF Granted, n

(* when one is asked,                                                      *)
LEMMA GrantAppended ==
    ASSUME NEW S, NEW s \in Seq(S), NEW e, e.op # "assigned", Granted(Append(s, e))
    PROVE  Granted(s)
<1> DEFINE a == Append(s, e)
           n == Len(s)
<1>1. n \in Nat /\ Len(a) = n + 1 /\ a[n + 1] = e /\ \A j \in 1..n : a[j] = s[j]
  OBVIOUS
<1>2. PICK k \in 1..Len(a) : a[k].op = "assigned"
  BY DEF Granted
<1> HIDE DEF a, n
<1>3. k # n + 1
  BY <1>1, <1>2
<1>4. k \in 1..n
  BY <1>1, <1>2, <1>3
<1> QED BY <1>1, <1>2, <1>4 DEF Granted, n

(* or when one is answered by something else.                              *)
LEMMA GrantChanged ==
    ASSUME NEW S, NEW s \in Seq(S), NEW i \in 1..Len(s), NEW e, e.op # "assigned",
           Granted([s EXCEPT ![i] = e])
    PROVE  Granted(s)
<1> DEFINE d == [s EXCEPT ![i] = e]
<1>1. Len(d) = Len(s) /\ d[i] = e /\ \A j \in 1..Len(s) : j # i => d[j] = s[j]
  OBVIOUS
<1>2. PICK k \in 1..Len(d) : d[k].op = "assigned"
  BY DEF Granted
<1> HIDE DEF d
<1>3. k # i
  BY <1>1, <1>2
<1> QED BY <1>1, <1>2, <1>3 DEF Granted

(* Only the server of the active workspace grants an alias.                *)
LEMMA GrantsKeep ==
    ASSUME MemInv, NEW i \in 1..Len(calls), MemoryAnswer(i), active' = active,
           Granted(calls) => active = Default
    PROVE  Granted(calls') => active' = Default
<1> SUFFICES ASSUME active # Default PROVE Granted(calls') => Granted(calls)
  OBVIOUS
<1>1. calls \in Seq(Pool) /\ calls[i] \in CallSet
  BY DEF MemInv, MemTyped, Pool
<1>2. ASSUME calls' = Drop(calls, i) PROVE Granted(calls') => Granted(calls)
  BY <1>1, <1>2, GrantDropped
<1>3. ASSUME NEW e, e.op # "assigned", calls' = [calls EXCEPT ![i] = e]
      PROVE  Granted(calls') => Granted(calls)
  BY <1>1, <1>3, GrantChanged
<1>4. ASSUME NEW op \in {"list", "checked", "decided", "refused"}, calls' = [calls EXCEPT ![i].op = op]
      PROVE  Granted(calls') => Granted(calls)
  <2> DEFINE e == [calls[i] EXCEPT !.op = op]
  <2>1. e.op = op /\ calls' = [calls EXCEPT ![i] = e]
    BY <1>1, <1>4, Became
  <2> HIDE DEF e
  <2> QED BY <1>3, <2>1
<1>5. ASSUME ReadAgain(i) PROVE Granted(calls') => Granted(calls)
  <2> DEFINE d == Drop(calls, i)
             e == Overview(calls[i].at, "conflict")
  <2>1. d \in Seq(Pool) /\ (Granted(d) => Granted(calls))
    BY <1>1, Dropped, GrantDropped
  <2>2. calls' = Append(d, e) /\ e.op = "overview"
    BY <1>5 DEF ReadAgain, Overview, Call
  <2> HIDE DEF d, e
  <2> QED BY <2>1, <2>2, GrantAppended
<1>6. ASSUME DecideAnswers(i), calls[i].sel # None PROVE Granted(calls') => Granted(calls)
  <2> DEFINE e == [calls[i] EXCEPT !.op = "detail", !.id = calls[i].sel]
  <2>1. e.op = "detail" /\ calls' = [calls EXCEPT ![i] = e]
    BY <1>1, <1>6 DEF DecideAnswers, CallSet
  <2> HIDE DEF e
  <2> QED BY <1>3, <2>1
<1>7. ASSUME AssignAnswers(i) PROVE Granted(calls') => Granted(calls)
  BY <1>1, <1>7 DEF AssignAnswers, Granted
<1>8. ASSUME Assign(i) PROVE Granted(calls') => Granted(calls)
  BY <1>4, <1>8 DEF Assign, AssignTo
<1>9. ASSUME Decide(i) PROVE Granted(calls') => Granted(calls)
  BY <1>4, <1>9 DEF Decide
<1>10. ASSUME OverviewAnswers(i) PROVE Granted(calls') => Granted(calls)
  BY <1>2, <1>4, <1>10 DEF OverviewAnswers
<1>11. ASSUME DecideAnswers(i) PROVE Granted(calls') => Granted(calls)
  BY <1>5, <1>6, <1>11 DEF DecideAnswers
<1> QED
  BY <1>2, <1>5, <1>7, <1>8, <1>9, <1>10, <1>11
  DEF MemoryAnswer, ListAnswers, LoadFails, DetailAnswers, DetailFails, Reread, DecideFails,
      EntitiesAnswer, AssignFails

(* What an answer shows was read from the active workspace.                *)
LEMMA AnswersHere ==
    ASSUME MemInv, NEW i \in 1..Len(calls), MemoryAnswer(i), active' = active, MemHere
    PROVE  MemHere'
<1>1. Granted(calls') => active' = Default
  BY GrantsKeep DEF MemHere
<1>2. DOMAIN lists = Kinds /\ DOMAIN detail = Kinds
  BY DEF MemInv, MemTyped
<1>3. ASSUME NEW at, Shown(at), UNCHANGED detail PROVE MemHere'
  <2>1. \A k \in Kinds : lists'[k] = lists[k] \/ lists'[k] = [at |-> at, from |-> active]
    BY <1>2, <1>3 DEF Shown
  <2>2. \A k \in Kinds : lists'[k].from \in {None, active}
    BY <2>1 DEF MemHere
  <2> QED BY <1>1, <1>3, <2>2 DEF MemHere
<1>4. ASSUME NEW k, NEW v, detail' = [detail EXCEPT ![k] = v], active = Default, UNCHANGED lists
      PROVE  MemHere'
  BY <1>1, <1>4 DEF MemHere
<1>5. ASSUME UNCHANGED <<lists, detail>> PROVE MemHere'
  BY <1>1, <1>5 DEF MemHere
<1>6. ASSUME DetailAnswers(i) \/ Reread(i) PROVE MemHere'
  BY <1>4, <1>6 DEF DetailAnswers, Reread, Readable
<1>7. ASSUME AssignAnswers(i) PROVE MemHere'
  <2>1. active = Default
    BY <1>7 DEF AssignAnswers, MemHere, Granted
  <2> QED BY <1>4, <1>7, <2>1 DEF AssignAnswers
<1>8. ASSUME ListAnswers(i) \/ EntitiesAnswer(i) PROVE MemHere'
  BY <1>3, <1>8 DEF ListAnswers, EntitiesAnswer
<1> QED
  BY <1>5, <1>6, <1>7, <1>8
  DEF MemoryAnswer, OverviewAnswers, LoadFails, DetailFails, Decide, DecideAnswers, DecideFails,
      Assign, AssignFails, panels

(* The memory tab stays in its workspace as long as that is active.        *)
LEMMA MemoryHere ==
    ASSUME MemInv, [Next]_vars, active' = active, MemHere
    PROVE  MemHere'
<1>1. calls \in Seq(Pool) /\ DOMAIN lists = Kinds /\ DOMAIN detail = Kinds
  BY DEF MemInv, MemTyped
<1>2. ASSUME NEW i \in DOMAIN calls, MemoryAnswer(i) PROVE MemHere'
  BY <1>1, <1>2, AnswersHere
<1>3. ASSUME UNCHANGED <<lists, calls>>,
             \A k \in Kinds : detail'[k] = detail[k] \/ detail'[k] = NoDetail
      PROVE  MemHere'
  BY <1>3 DEF MemHere, NoDetail
<1>4. ASSUME NEW e, e.op # "assigned", calls' = Append(calls, e), UNCHANGED lists,
             \A k \in Kinds : detail'[k] = detail[k] \/ detail'[k] = NoDetail
      PROVE  MemHere'
  <2>1. Granted(calls') => Granted(calls)
    BY <1>1, <1>4, GrantAppended
  <2> QED BY <1>4, <2>1 DEF MemHere, NoDetail
<1>5. ASSUME Load, UNCHANGED <<lists, detail>> PROVE MemHere'
  <2>1. Overview(Asked, "page").op # "assigned"
    BY DEF Overview, Call
  <2> QED BY <1>4, <1>5, <2>1 DEF Load
<1>6. ASSUME Toolbar PROVE MemHere'
  <2>1. ASSUME NEW v \in Kinds \cup {"ingest"}, SwitchView(v) PROVE MemHere'
    BY <1>3, <2>1 DEF SwitchView, NoDetails
  <2> QED BY <1>3, <1>5, <1>6, <2>1 DEF Toolbar, Turn, Type, Filter, RefreshList, panels
<1>7. ASSUME TimerFires PROVE MemHere'
  BY <1>5, <1>7 DEF TimerFires
<1>8. ASSUME NEW k \in Kinds, NEW id, OpenRow(k, id) \/ OpenLink(k, id) PROVE MemHere'
  <2>1. Call("detail", "page", None, k, id, None).op # "assigned"
    BY DEF Call
  <2>2. \A j \in Kinds : detail'[j] = detail[j] \/ detail'[j] = NoDetail
    BY <1>8 DEF OpenRow, OpenLink, NoDetails
  <2>3. UNCHANGED lists /\ calls' = Append(calls, Call("detail", "page", None, k, id, None))
    BY <1>8 DEF OpenRow, OpenLink
  <2> QED BY <1>4, <2>1, <2>2, <2>3
<1>9. ASSUME NEW k \in Kinds, Close(k) PROVE MemHere'
  BY <1>1, <1>3, <1>9 DEF Close
<1>10. ASSUME Dialogs PROVE MemHere'
  <2>1. ASSUME ConfirmConflict PROVE MemHere'
    <3>1. Call("decide", "conflict", Asked, "atoms", conflict.winner, detail["atoms"].id).op # "assigned"
      BY DEF Call
    <3> QED BY <1>4, <2>1, <3>1 DEF ConfirmConflict, panels
  <2>2. ASSUME ConfirmAlias PROVE MemHere'
    <3>1. Call("assign", "alias", Asked, "entities", alias, None).op # "assigned"
      BY DEF Call
    <3> QED BY <1>4, <2>2, <3>1 DEF ConfirmAlias, panels
  <2> QED BY <1>3, <1>10, <2>1, <2>2
          DEF Dialogs, SelectWinner, SelectOwner, DismissConflict, DismissAlias, panels
<1>11. ASSUME Mounted PROVE MemHere'
  BY <1>11 DEF Mounted, MemHere, NoDetails, NoDetail, NoList, Granted
<1>12. ASSUME UNCHANGED memoryVars PROVE MemHere'
  BY <1>12 DEF memoryVars, panels, MemHere
<1>13. ASSUME NEW i, ServeUnheard(i) PROVE MemHere'
  BY <1>13 DEF ServeUnheard, panels, MemHere
<1> QED
  BY <1>2, <1>6, <1>7, <1>8, <1>9, <1>10, <1>11, <1>12, <1>13, MemoryMove DEF Panels

(* So does Melchior: elsewhere nothing is listed.                          *)
LEMMA TraceHereKept ==
    ASSUME [Next]_vars, active' = active, TraceHere
    PROVE  TraceHere'
<1>1. ASSUME TracesAnswer(IF active = Default THEN recent ELSE <<>>) PROVE TraceHere'
  <2>1. CASE active = Default
    BY <2>1 DEF TraceHere
  <2>2. CASE active # Default
    <3>1. Follow(Nothing)
      BY <1>1, <2>2 DEF TracesAnswer
    <3> QED BY <2>2, <3>1 DEF Follow, TraceHere
  <2> QED BY <2>1, <2>2
<1>2. ASSUME UNCHANGED current PROVE TraceHere'
  BY <1>2 DEF TraceHere
<1>3. ASSUME Poll PROVE TraceHere'
  BY <1>1, <1>2, <1>3 DEF Poll, AskTraces, AskEvents, PollFails, EventsAnswer
<1>4. ASSUME NEW c, Replay(c) PROVE UNCHANGED current
  BY <1>4 DEF Replay
<1>5. ASSUME Unfollowed PROVE TraceHere'
  BY <1>5 DEF Unfollowed, TraceHere
<1> QED
  BY <1>2, <1>3, <1>4, <1>5, TraceMove DEF melchior, MelchiorTab, ReturnToLive, FollowedOn

(* So does Balthasar: elsewhere nothing is dreamt.                         *)
LEMMA DreamHereKept ==
    ASSUME DreamInv, [Next]_vars, active' = active, DreamHere
    PROVE  DreamHere'
<1>1. ASSUME data' = data, loads' \in {loads, Nowhere, NewLoad} PROVE DreamHere'
  BY <1>1 DEF DreamHere, NewLoad
<1>2. ASSUME NEW front, NEW again, LoadEffect(front, again), data' = data PROVE DreamHere'
  BY <1>1, <1>2 DEF LoadEffect
<1>3. loads # Nowhere => loads \in Loads
  BY DEF DreamInv, DreamTyped
<1>4. ASSUME GraphReads(active = Default) PROVE DreamHere'
  <2> DEFINE r == Read(active = Default)
  <2>1. r.of > 0 => active = Default
    BY DEF Read
  <2> HIDE DEF r
  <2>2. loads'.graph = r /\ data' = data
    BY <1>3, <1>4 DEF GraphReads, Loads, r
  <2> QED BY <2>1, <2>2 DEF DreamHere
<1>5. ASSUME ReportsRead(active = Default) PROVE DreamHere'
  <2>1. loads'.graph = loads.graph /\ data' = data /\ loads # Nowhere
    BY <1>3, <1>5 DEF ReportsRead, Loads
  <2> QED BY <2>1 DEF DreamHere
<1>6. ASSUME LoadDone PROVE DreamHere'
  BY <1>6 DEF LoadDone, DreamHere
<1>7. ASSUME LoadFailed PROVE DreamHere'
  BY <1>1, <1>7 DEF LoadFailed
<1>8. ASSUME UNCHANGED <<data, loads>> PROVE DreamHere'
  BY <1>1, <1>8
<1>9. ASSUME Refresh PROVE DreamHere'
  BY <1>2, <1>9 DEF Refresh
<1>10. ASSUME BalthasarAnswers(active = Default) PROVE DreamHere'
  <2>1. ASSUME NEW i, StatusReads(i, active = Default) \/ StatusAnswers(i) \/ StatusFails(i)
        PROVE  DreamHere'
    BY <1>8, <1>9, <2>1 DEF StatusReads, StatusAnswers, StatusFails, graphVars
  <2> QED
    BY <1>4, <1>5, <1>6, <1>7, <1>8, <1>10, <2>1 DEF BalthasarAnswers, StartAnswers, StartFails, graphVars
<1>11. ASSUME BalthasarUser PROVE DreamHere'
  BY <1>2, <1>8, <1>9, <1>11 DEF BalthasarUser, RefreshGraph, QueryChanges, DreamNow, graphVars
<1>12. ASSUME BalthasarLook PROVE DreamHere'
  BY <1>8, <1>12 DEF BalthasarLook, ChangeMode, Select
<1>13. ASSUME AskStatus \/ StartServed(active = Default) PROVE DreamHere'
  BY <1>8, <1>13 DEF AskStatus, StartServed, graphVars
<1>14. ASSUME RunSucceeds \/ RunFails \/ AnotherStarts PROVE DreamHere'
  BY <1>8, <1>14 DEF RunSucceeds, RunFails, AnotherStarts, Offered, balthasar, graphVars
<1>15. ASSUME NEW t, BalthasarTab(t) PROVE DreamHere'
  BY <1>2, <1>15 DEF BalthasarTab
<1>16. ASSUME BalthasarMounted PROVE DreamHere'
  BY <1>16 DEF BalthasarMounted, Remounted, DreamHere, NewLoad
<1>17. ASSUME BalthasarKept PROVE DreamHere'
  BY <1>1, <1>17 DEF BalthasarKept, Remounted
<1> QED
  BY <1>8, <1>10, <1>11, <1>12, <1>13, <1>14, <1>15, <1>16, <1>17, DreamMove
     DEF balthasar, graphVars

(* What the header asks for is a request.                                  *)
LEMMA AskIsOne ==
    ASSUME NEW op \in Writes \cup {"list"}, NEW w \in Workspaces \cup {None},
           NEW part \in {"mount", "switch", "create", "delete"}
    PROVE  Ask(op, w, part) \in Requests
BY DEF Ask, Requests

(* So are the writes whose page is gone.                                   *)
LEMMA OrphansTyped ==
    ASSUME asked \in Seq(Requests)
    PROVE  Orphans \in Seq(Requests)
<1> DEFINE s == [i \in DOMAIN asked |-> [asked[i] EXCEPT !.heard = FALSE]]
<1>1. DOMAIN asked = 1..Len(asked) /\ Len(asked) \in Nat
  OBVIOUS
<1>2. \A i \in 1..Len(asked) : [asked[i] EXCEPT !.heard = FALSE] \in Requests
  <2> SUFFICES ASSUME NEW i \in 1..Len(asked) PROVE [asked[i] EXCEPT !.heard = FALSE] \in Requests
    OBVIOUS
  <2>1. asked[i] \in Requests
    OBVIOUS
  <2> QED BY <2>1 DEF Requests
<1>3. s \in Seq(Requests)
  BY <1>1, <1>2
<1> HIDE DEF s
<1>4. Kept(s, Underway) \in Seq(Requests)
  BY <1>3, KeptTyped
<1> QED BY <1>4 DEF Orphans, s

(* A step of the header: the page goes astray, is about to learn of a      *)
(* change of the workspace, or the workspace stays and what the header     *)
(* names is it.                                                            *)
LEMMA HeaderStep ==
    ASSUME asked \in Seq(Requests), here \in {None, active} \/ astray \/ Has(asked, Landing),
           HeaderUser \/ HeaderAnswer
    PROVE  /\ asked' \in Seq(Requests)
           /\ \/ astray'
              \/ Has(asked', Landing)
              \/ /\ ~astray /\ ~Has(asked, Landing)
                 /\ active' = active /\ here' \in {None, active'}
<1> DEFINE Goal == \/ astray'
                   \/ Has(asked', Landing)
                   \/ /\ ~astray /\ ~Has(asked, Landing)
                      /\ active' = active /\ here' \in {None, active'}
<1>1. ASSUME active' = active, here' \in {here, active}, astray => astray',
             Has(asked, Landing) => Has(asked', Landing) \/ astray'
      PROVE  Goal
  BY <1>1
<1>2. ASSUME NEW c \in Requests, asked' = Append(asked, c)
      PROVE  asked' \in Seq(Requests) /\ (Has(asked, Landing) => Has(asked', Landing))
  BY <1>2, Appended, HasAppended
<1>3. ASSUME NEW i \in 1..Len(asked), asked' = Drop(asked, i)
      PROVE  /\ asked' \in Seq(Requests)
             /\ asked[i] \notin Landing => (Has(asked, Landing) => Has(asked', Landing))
  BY <1>3, Dropped, HasDropped
<1>4. ASSUME NEW i \in 1..Len(asked), NEW c \in Requests, asked' = [asked EXCEPT ![i] = c]
      PROVE  /\ asked' \in Seq(Requests)
             /\ asked[i] \notin Landing => (Has(asked, Landing) => Has(asked', Landing))
  BY <1>4, HasChanged
<1>5. ASSUME NEW i \in 1..Len(asked), Serve(i) PROVE asked' \in Seq(Requests) /\ Goal
  <2> DEFINE c == asked[i]
             D == [c EXCEPT !.state = "done"]
             R == [c EXCEPT !.state = "refused"]
  <2>1. c \in Requests /\ c.state = "sent" /\ here' = here /\ c \notin Landing
    BY <1>5 DEF Serve, headerPage, Landing
  <2>2. /\ D \in Requests /\ R \in Requests
        /\ D.op = c.op /\ D.heard = c.heard /\ D.state = "done"
    BY <2>1 DEF Requests
  <2>3. ASSUME asked' = IF c.heard THEN [asked EXCEPT ![i].state = "refused"] ELSE Drop(asked, i)
        PROVE  asked' \in Seq(Requests) /\ (Has(asked, Landing) => Has(asked', Landing))
    <3>1. CASE c.heard
      <4>1. asked' = [asked EXCEPT ![i] = R]
        BY <2>3, <3>1
      <4> HIDE DEF R
      <4> QED BY <1>4, <2>1, <2>2, <4>1
    <3>2. CASE ~c.heard
      BY <1>3, <2>1, <2>3, <3>2
    <3> QED BY <3>1, <3>2
  <2>4. ASSUME asked' = IF c.heard THEN [asked EXCEPT ![i].state = "done"] ELSE Drop(asked, i)
        PROVE  /\ asked' \in Seq(Requests) /\ (Has(asked, Landing) => Has(asked', Landing))
               /\ c.op \in {"activate", "delete"} /\ c.heard => Has(asked', Landing)
    <3>1. CASE c.heard
      <4>1. asked' = [asked EXCEPT ![i] = D]
        BY <2>4, <3>1
      <4>2. c.op \in {"activate", "delete"} => D \in Landing
        BY <2>2, <3>1 DEF Landing
      <4> HIDE DEF D
      <4>3. D \in Landing => Has(asked', Landing)
        BY <2>2, <4>1, HasChanged
      <4> QED BY <1>4, <2>1, <2>2, <4>1, <4>2, <4>3
    <3>2. CASE ~c.heard
      BY <1>3, <2>1, <2>4, <3>2
    <3> QED BY <3>1, <3>2
  <2> DEFINE Done == asked' = IF c.heard THEN [asked EXCEPT ![i].state = "done"] ELSE Drop(asked, i)
             Refused == asked' = IF c.heard THEN [asked EXCEPT ![i].state = "refused"] ELSE Drop(asked, i)
  <2>5. \/ Refused /\ active' = active /\ astray' = astray
        \/ c.op = "create" /\ active' = active /\ astray' = astray /\ Done
        \/ c.op = "activate" /\ Done /\ astray' = (astray \/ ~c.heard)
        \/ /\ c.op = "delete" /\ Done
           /\ active' = IF active = c.w THEN Default ELSE active
           /\ astray' = (astray \/ (~c.heard /\ active = c.w))
    BY <1>5 DEF Serve, server
  <2>6. asked' \in Seq(Requests) /\ (Has(asked, Landing) => Has(asked', Landing))
    BY <2>3, <2>4, <2>5
  <2>7. CASE active' = active /\ (astray => astray')
    BY <1>1, <2>1, <2>6, <2>7
  <2>8. CASE Done /\ c.op \in {"activate", "delete"} /\ (c.heard \/ astray')
    BY <2>4, <2>6, <2>8
  <2> DEFINE Result == asked' \in Seq(Requests) /\ Goal
  <2>9. Result \/ ~(active' = active /\ (astray => astray'))
    BY <2>7
  <2>10. Result \/ ~Done \/ c.op \notin {"activate", "delete"} \/ (~c.heard /\ ~astray')
    BY <2>8
  <2> HIDE DEF D, R, Done, Refused, Result
  <2>11. CASE Refused /\ active' = active /\ astray' = astray
    BY <2>9, <2>11 DEF Result
  <2>12. CASE c.op = "create" /\ active' = active /\ astray' = astray /\ Done
    BY <2>9, <2>12 DEF Result
  <2>13. CASE c.op = "activate" /\ Done /\ astray' = (astray \/ ~c.heard)
    <3>1. c.heard \/ astray'
      BY <2>13
    <3> QED BY <2>10, <2>13, <3>1 DEF Result
  <2>14. CASE /\ c.op = "delete" /\ Done
              /\ active' = IF active = c.w THEN Default ELSE active
              /\ astray' = (astray \/ (~c.heard /\ active = c.w))
    <3>1. CASE active = c.w
      <4>1. c.heard \/ astray'
        BY <2>14, <3>1
      <4> QED BY <2>10, <2>14, <4>1 DEF Result
    <3>2. CASE active # c.w
      <4>1. active' = active /\ (astray => astray')
        BY <2>14, <3>2
      <4> QED BY <2>9, <4>1 DEF Result
    <3> QED BY <3>1, <3>2
  <2> QED BY <2>5, <2>11, <2>12, <2>13, <2>14
<1>6. ASSUME NEW i \in 1..Len(asked), ListedHeader(i) PROVE asked' \in Seq(Requests) /\ Goal
  <2>1. asked[i] \notin Landing
    BY <1>6 DEF ListedHeader, Landing
  <2>2. active' = active /\ here' = active /\ astray' = astray /\ asked' = Drop(asked, i)
    BY <1>6 DEF ListedHeader, server
  <2> QED BY <1>1, <1>3, <2>1, <2>2
<1>7. ASSUME NEW calls0 \in Seq(Requests), Has(asked, Landing) => Has(calls0, Landing),
             NEW w \in Workspaces \cup {None},
             NEW part \in {"switch", "create"}, ChangeTo(w, part, calls0)
      PROVE  asked' \in Seq(Requests) /\ (Has(asked, Landing) => Has(asked', Landing))
  <2>1. CASE w = here
    BY <1>7, <2>1 DEF ChangeTo
  <2>2. CASE w # here
    <3> DEFINE c == Ask("activate", w, part)
    <3>1. c \in Requests
      BY AskIsOne DEF Writes
    <3>2. asked' = Append(calls0, c)
      BY <1>7, <2>2 DEF ChangeTo
    <3> HIDE DEF c
    <3> QED BY <1>7, <3>1, <3>2, Appended, HasAppended
  <2> QED BY <2>1, <2>2
<1>8. ASSUME NEW i \in 1..Len(asked), Created(i) PROVE asked' \in Seq(Requests) /\ Goal
  <2>1. asked[i] \notin Landing /\ asked[i] \in Requests
    BY <1>8 DEF Created, Landing
  <2>2. /\ active' = active /\ here' = here /\ astray' = astray
        /\ ChangeTo(asked[i].w, "create", Drop(asked, i))
    BY <1>8 DEF Created, server
  <2>3. Drop(asked, i) \in Seq(Requests) /\ (Has(asked, Landing) => Has(Drop(asked, i), Landing))
    BY <2>1, Dropped, HasDropped
  <2>4. asked[i].w \in Workspaces \cup {None}
    BY <2>1 DEF Requests
  <2> QED BY <1>1, <1>7, <2>2, <2>3, <2>4
<1>9. ASSUME NEW i \in 1..Len(asked), HeaderFails(i) PROVE asked' \in Seq(Requests) /\ Goal
  <2> DEFINE c == asked[i]
             L == [c EXCEPT !.heard = FALSE]
             lost == c.op \in Writes /\ c.state = "sent"
  <2>1. /\ c \in Requests /\ active' = active /\ here' = here
        /\ asked' = IF lost THEN [asked EXCEPT ![i].heard = FALSE] ELSE Drop(asked, i)
        /\ astray' = (astray \/ (c.state = "done" /\ c.op # "create"))
    BY <1>9 DEF HeaderFails, server
  <2>2. L \in Requests
    BY <2>1 DEF Requests
  <2>3. CASE lost
    <3>1. asked' = [asked EXCEPT ![i] = L]
      BY <2>1, <2>3
    <3>2. c \notin Landing
      BY <2>3 DEF Landing
    <3> HIDE DEF L
    <3> QED BY <1>1, <1>4, <2>1, <2>2, <3>1, <3>2
  <2>4. CASE ~lost
    <3>1. asked' = Drop(asked, i)
      BY <2>1, <2>4
    <3>2. c \in Landing => astray'
      BY <2>1 DEF Landing
    <3> QED BY <1>1, <1>3, <2>1, <3>1, <3>2
  <2> QED BY <2>3, <2>4
<1>10. ASSUME NEW w \in Workspaces, SwitchTo(w) PROVE asked' \in Seq(Requests) /\ Goal
  <2>1. active' = active /\ here' = here /\ astray' = astray /\ ChangeTo(w, "switch", asked)
    BY <1>10 DEF SwitchTo, server
  <2> QED BY <1>1, <1>7, <2>1
<1>11. ASSUME NEW w \in Workspaces, SubmitWorkspace(w) \/ DeleteWorkspace(w)
       PROVE  asked' \in Seq(Requests) /\ Goal
  <2>1. active' = active /\ here' = here /\ astray' = astray
    BY <1>11 DEF SubmitWorkspace, DeleteWorkspace, server
  <2>2. PICK c \in Requests : asked' = Append(asked, c)
    <3>1. Ask("create", w, "create") \in Requests /\ Ask("delete", w, "delete") \in Requests
      BY AskIsOne DEF Writes
    <3> QED BY <1>11, <3>1 DEF SubmitWorkspace, DeleteWorkspace, Send
  <2> QED BY <1>1, <1>2, <2>1, <2>2
<1> QED
  BY <1>5, <1>6, <1>8, <1>9, <1>10, <1>11 DEF HeaderUser, HeaderAnswer

(* A page that was just opened shows nothing.                              *)
LEMMA PlaceStart == Init => PlaceInv
<1> SUFFICES ASSUME Init PROVE PlaceInv
  OBVIOUS
<1>1. asked \in Seq(Requests)
  <2>1. Ask("list", None, "mount") \in Requests
    BY AskIsOne
  <2> QED BY <2>1 DEF Init, HeaderInit
<1>2. here \in {None, active}
  BY DEF Init, HeaderInit
<1>3. MemHere
  BY DEF Init, MemoryInit, MemHere, NoDetails, NoDetail, NoList, Granted
<1>4. TraceHere /\ DreamHere
  BY DEF Init, TraceInit, DreamingInit, TraceHere, DreamHere
<1> QED BY <1>1, <1>2, <1>3, <1>4 DEF PlaceInv

(* With the invariants of the parts, that of the workspace is inductive.   *)
LEMMA PlaceKept == MemInv /\ DreamInv /\ PlaceInv /\ [Next]_vars => PlaceInv'
<1> SUFFICES ASSUME MemInv, DreamInv, PlaceInv, [Next]_vars PROVE PlaceInv'
  OBVIOUS
<1>1. asked \in Seq(Requests)
  BY DEF PlaceInv
<1>2. ASSUME active' = active, MemHere /\ TraceHere /\ DreamHere
      PROVE  MemHere' /\ TraceHere' /\ DreamHere'
  BY <1>2, MemoryHere, TraceHereKept, DreamHereKept
<1>3. CASE HeaderUser \/ HeaderAnswer
  <2>1. asked' \in Seq(Requests)
    BY <1>1, <1>3, HeaderStep DEF PlaceInv
  <2>2. \/ astray'
        \/ Has(asked', Landing)
        \/ /\ ~astray /\ ~Has(asked, Landing)
           /\ active' = active /\ here' \in {None, active'}
    BY <1>1, <1>3, HeaderStep DEF PlaceInv
  <2> QED BY <1>2, <2>1, <2>2 DEF PlaceInv
<1>4. CASE UNCHANGED headerVars
  BY <1>1, <1>2, <1>4 DEF PlaceInv, headerVars
<1>5. CASE Reload /\ Mounted /\ Unfollowed /\ BalthasarMounted
  <2>1. here' = None /\ asked' = Append(Orphans, Ask("list", None, "mount"))
    BY <1>5 DEF Reload, Moved, Fresh
  <2>2. asked' \in Seq(Requests)
    <3> DEFINE c == Ask("list", None, "mount")
    <3>1. c \in Requests /\ Orphans \in Seq(Requests)
      BY <1>1, AskIsOne, OrphansTyped
    <3> HIDE DEF c
    <3>2. Append(Orphans, c) \in Seq(Requests)
      BY <3>1
    <3> QED BY <2>1, <3>2 DEF c
  <2>3. MemHere'
    BY <1>5 DEF Mounted, MemHere, NoDetails, NoDetail, NoList, Granted
  <2>4. TraceHere' /\ DreamHere'
    BY <1>5 DEF Unfollowed, BalthasarMounted, Remounted, TraceHere, DreamHere, NewLoad
  <2> QED BY <2>1, <2>2, <2>3, <2>4 DEF PlaceInv
<1>6. CASE HeaderMountedAgain
  <2>1. /\ here' = None /\ active' = active /\ astray' = astray
        /\ asked' = Append(Kept(asked, Underway), Ask("list", None, "mount"))
    BY <1>6 DEF HeaderMountedAgain, Fresh, server
  <2>2. asked' \in Seq(Requests)
    <3> DEFINE c == Ask("list", None, "mount")
               k == Kept(asked, Underway)
    <3>1. c \in Requests /\ k \in Seq(Requests)
      BY <1>1, AskIsOne, KeptTyped
    <3> HIDE DEF c, k
    <3>2. Append(k, c) \in Seq(Requests)
      BY <3>1
    <3> QED BY <2>1, <3>2 DEF c, k
  <2>3. ~Has(asked, Landing)
    BY <1>1, <1>6 DEF HeaderMountedAgain, Has, Landing
  <2> QED BY <1>2, <2>1, <2>2, <2>3 DEF PlaceInv
<1> QED BY <1>3, <1>4, <1>5, <1>6, HeaderMove

(* Everything on the page is of the workspace its header names, and that   *)
(* is the active one, unless a change of the workspace was served and its  *)
(* answer is on its way, was lost, or had no page to go to                 *)
(* (SiteHeader.tsx).                                                       *)
THEOREM ShowsOneWorkspace == Spec => []OneWorkspace
<1>1. PlaceInv => OneWorkspace
  <2> SUFFICES ASSUME PlaceInv PROVE OneWorkspace
    OBVIOUS
  <2>1. CASE Has(asked, Landing)
    <3>1. \E i \in DOMAIN asked : asked[i].heard /\ asked[i].state = "done"
      BY <2>1 DEF Has, Landing, PlaceInv
    <3> QED BY <3>1 DEF OneWorkspace
  <2>2. CASE here \in {None, active} /\ MemHere /\ TraceHere /\ DreamHere
    BY <2>2 DEF MemHere, TraceHere, DreamHere, OneWorkspace
  <2>3. CASE astray
    BY <2>3 DEF OneWorkspace
  <2> QED BY <2>1, <2>2, <2>3 DEF PlaceInv
<1> QED BY <1>1, MemoryStart, MemoryKept, DreamStart, DreamKept, PlaceStart, PlaceKept, PTL DEF Spec

(* ------------------------------ the domains ---------------------------- *)
(* What the types ask for beyond the invariants above: a form that is      *)
(* closed is empty,                                                        *)
ModelsFormed ==
    /\ settings = NoRole => role = NoRole /\ draft = NoRole
    /\ models \in Roles \cup {NoRole} /\ discovering \in Roles \cup {NoRole}

(* reports are shown with a graph,                                         *)
DreamFormed ==
    /\ wasActive \in BOOLEAN /\ busy \in BOOLEAN
    /\ starting \in {"no", "asked", "done", "refused", "status"}
    /\ data = Nowhere => reports = Nowhere
    /\ mode \in Modes

(* and the scene of a history is that of an event.                         *)
TraceFormed ==
    /\ polling \in BOOLEAN
    /\ wanted # Nothing => wanted = [x |-> wanted.x, after |-> wanted.after]
    /\ replay # Nothing => replay \in [x : Explorations, seq : 1..MaxEvents]

LEMMA ModelsForm == ModelsInv /\ ModelsFormed /\ [Next]_vars => ModelsFormed'
<1> SUFFICES ASSUME ModelsInv, ModelsFormed, ModelsUser \/ ModelsAnswers \/ Leaves
             PROVE  ModelsFormed'
  <2>1. CASE UNCHANGED modelVars
    BY <2>1 DEF modelVars, formVars, ModelsFormed
  <2> QED BY <2>1, ModelsMove
<1> USE DEF ModelsInv, ModelsTyped, ModelsFormed
<1>1. CASE OpenModels \/ CloseModels \/ Leaves
  BY <1>1 DEF OpenModels, CloseModels, Leaves, Shut
<1>2. CASE ChangeBinding \/ Discover \/ Save
  BY <1>2 DEF ChangeBinding, Discover, Save
<1>3. ASSUME NEW r \in Roles, ChangeRole(r) PROVE ModelsFormed'
  BY <1>3 DEF ChangeRole
<1>4. CASE ModelsListed
  <2>1. settings' = routes /\ settings' # NoRole /\ UNCHANGED <<models, discovering>>
    BY <1>4, ModelsAssumption DEF ModelsListed
  <2> QED BY <2>1
<1>5. CASE Discovered
  BY <1>5 DEF Discovered
<1>6. CASE SaveServed \/ OrphanServed \/ SaveFails
  BY <1>6 DEF SaveServed, OrphanServed, SaveFails, formVars
<1>7. CASE Saved
  <2>1. settings # NoRole /\ settings \in [Roles -> Roles] /\ saving \in Updates
    BY <1>7 DEF Saved
  <2>2. saving.config \in Roles
    BY <2>1 DEF Updates
  <2>3. settings' \in [Roles -> Roles] /\ UNCHANGED <<models, discovering>>
    BY <1>7, <2>1, <2>2 DEF Saved
  <2> QED BY <2>3, ModelsAssumption
<1> QED BY <1>1, <1>2, <1>3, <1>4, <1>5, <1>6, <1>7 DEF ModelsUser, ModelsAnswers

LEMMA DreamForm == DreamInv /\ DreamFormed /\ [Next]_vars => DreamFormed'
<1> SUFFICES ASSUME DreamInv, DreamFormed, [Next]_vars
             PROVE  DreamFormed'
  OBVIOUS
<1> DEFINE Rest == UNCHANGED <<wasActive, busy, data, reports, mode>>
<1>1. ASSUME Rest, starting' \in {"no", "asked", "done", "refused", "status"}
      PROVE  DreamFormed'
  BY <1>1 DEF DreamFormed
<1>2. starting \in {"no", "asked", "done", "refused", "status"}
  BY DEF DreamFormed
<1>3. CASE UNCHANGED <<dreamServer, balthasar, tab>>
  BY <1>1, <1>2, <1>3 DEF balthasar, statusVars, graphVars
<1>4. CASE BalthasarUser
  BY <1>1, <1>2, <1>4 DEF BalthasarUser, RefreshGraph, Refresh, QueryChanges, DreamNow, statusVars,
                          graphVars
<1>5. CASE BalthasarLook
  <2>1. ASSUME NEW m \in Modes, ChangeMode(m) PROVE DreamFormed'
    BY <2>1 DEF ChangeMode, DreamFormed, statusVars
  <2>2. ASSUME NEW n, Select(n) PROVE DreamFormed'
    BY <1>1, <1>2, <2>2 DEF Select, statusVars
  <2> QED BY <1>5, <2>1, <2>2 DEF BalthasarLook
<1>6. CASE AskStatus
  BY <1>1, <1>2, <1>6 DEF AskStatus, graphVars
<1>7. CASE BalthasarMounted
  BY <1>7 DEF BalthasarMounted, Remounted, DreamFormed, Modes
<1>13. CASE BalthasarKept
  BY <1>13 DEF BalthasarKept, Remounted, DreamFormed
<1>8. ASSUME NEW dreams \in BOOLEAN, BalthasarAnswers(dreams) PROVE DreamFormed'
  <2>1. CASE GraphReads(dreams) \/ ReportsRead(dreams) \/ LoadFailed
    BY <1>1, <1>2, <2>1 DEF GraphReads, ReportsRead, LoadFailed, statusVars
  <2>2. CASE LoadDone
    BY <2>2 DEF LoadDone, DreamFormed, statusVars
  <2>3. CASE StartAnswers \/ StartFails
    BY <1>1, <1>2, <2>3 DEF StartAnswers, StartFails, graphVars
  <2>4. ASSUME NEW i \in DOMAIN polls, StatusReads(i, dreams) \/ StatusFails(i)
        PROVE  DreamFormed'
    BY <1>1, <1>2, <2>4 DEF StatusReads, StatusFails, Polled, graphVars
  <2>5. ASSUME NEW i \in DOMAIN polls, StatusAnswers(i) PROVE DreamFormed'
    <3>1. polls[i] \in Poll1
      BY DEF DreamInv, DreamTyped
    <3>2. polls[i].active \in BOOLEAN
      BY <3>1 DEF Poll1
    <3>3. /\ wasActive' = polls[i].active /\ busy' = polls[i].active
          /\ starting' \in {"no", starting} /\ UNCHANGED <<data, reports, mode>>
      BY <2>5 DEF StatusAnswers, Polled, Refresh, graphVars
    <3> QED BY <3>2, <3>3 DEF DreamFormed
  <2> QED BY <1>8, <2>1, <2>2, <2>3, <2>4, <2>5 DEF BalthasarAnswers
<1>9. ASSUME NEW dreams \in BOOLEAN, StartServed(dreams) PROVE DreamFormed'
  BY <1>1, <1>9 DEF StartServed, graphVars
<1>10. CASE RunSucceeds \/ RunFails \/ AnotherStarts
  BY <1>1, <1>2, <1>10 DEF RunSucceeds, RunFails, AnotherStarts, Offered, balthasar, statusVars,
                           graphVars
<1>11. ASSUME NEW t \in Tabs, BalthasarTab(t) PROVE DreamFormed'
  BY <1>1, <1>2, <1>11 DEF BalthasarTab, statusVars
<1>12. (active = Default) \in BOOLEAN
  OBVIOUS
<1> QED
  BY <1>3, <1>4, <1>5, <1>6, <1>7, <1>8, <1>9, <1>10, <1>11, <1>12, <1>13, DreamMove

(* What the events of a trace build                                        *)
Framed(f) ==
    \A c \in DOMAIN f :
        c \in Calls /\ f[c] \in [status : {"initialized", "expanding", "complete", "failed"},
                                 from : 1..MaxEvents, at : 1..MaxEvents]

LEMMA OneFramed ==
    ASSUME NEW f, Framed(f), NEW e \in Events
    PROVE  Framed(Reduced(f, e))
<1>1. e.call \in Calls /\ e.seq \in 1..MaxEvents
  BY DEF Events
<1>2. Status(e.type) \in {"initialized", "expanding", "complete", "failed"}
  BY DEF Events, Status
<1>3. ASSUME Begins(e) \/ e.call \in DOMAIN f
      PROVE  Framed(Reduced(f, e))
  <2> DEFINE from == IF Begins(e) THEN e.seq ELSE f[e.call].from
             g == Frame(f, e)
  <2>1. from \in 1..MaxEvents
    BY <1>1, <1>3 DEF Framed
  <2>2. g = [status |-> Status(e.type), at |-> e.seq, from |-> from]
    BY DEF Frame
  <2> HIDE DEF from, g
  <2>3. g \in [status : {"initialized", "expanding", "complete", "failed"},
               from : 1..MaxEvents, at : 1..MaxEvents]
    BY <1>1, <1>2, <2>1, <2>2
  <2>4. Reduced(f, e) = [c \in DOMAIN f \cup {e.call} |-> IF c = e.call THEN g ELSE f[c]]
    BY <1>3 DEF Reduced, g
  <2> QED BY <1>1, <2>3, <2>4 DEF Framed
<1> QED BY <1>3 DEF Reduced

LEMMA AllFramed ==
    ASSUME NEW es \in Seq(Events)
    PROVE  Framed(ReducedAll(<<>>, es))
<1> DEFINE n == Len(es)
<1>0. n \in Nat /\ n \in 0..n /\ \A k \in 1..n : es[k] \in Events
  OBVIOUS
<1>1. PICK r : Fold(r, n, <<>>, es) /\ ReducedAll(<<>>, es) = r[n]
  BY ReducedAllIs
<1> HIDE DEF n
<1> DEFINE T == {k \in 0..n : ~Framed(r[k])}
<1>2. T = {}
  <2> SUFFICES ASSUME T # {} PROVE FALSE
    OBVIOUS
  <2>1. PICK k \in T : \A j \in T : ~(j < k)
    <3>1. T \in SUBSET Nat OBVIOUS
    <3> QED BY <3>1, Least
  <2>2. k # 0
    <3> SUFFICES ASSUME k = 0 PROVE FALSE OBVIOUS
    <3>1. r[0] = <<>>
      BY <1>0, <1>1 DEF Fold
    <3> QED BY <2>1, <3>1 DEF Framed
  <2>3. k - 1 \in 0..n /\ k - 1 < k /\ k \in 1..n
    BY <1>0, <2>1, <2>2
  <2>4. r[k] = Reduced(r[k - 1], es[k])
    BY <1>1, <2>3, <2>2 DEF Fold
  <2>5. Framed(r[k - 1])
    BY <2>1, <2>3
  <2>6. Framed(r[k])
    BY <1>0, <2>3, <2>4, <2>5, OneFramed
  <2> QED BY <2>1, <2>6 DEF T
<1> QED BY <1>0, <1>1, <1>2

LEMMA FramesAre ==
    ASSUME TraceInv
    PROVE  Framed(frames) /\ (current = Nothing => DOMAIN frames = {})
<1>1. events \in Seq(Events) /\ frames = ReducedAll(<<>>, events)
  BY PrefixTyped DEF TraceInv, Follows
<1>2. ASSUME current = Nothing PROVE DOMAIN frames = {}
  <2>1. events = <<>>
    BY <1>2 DEF TraceInv, Follows
  <2>2. frames = <<>>
    BY <1>1, <2>1, ReducedNone
  <2> QED BY <2>2
<1> QED BY <1>1, <1>2, AllFramed

LEMMA TraceForm == TraceInv /\ TraceFormed /\ [Next]_vars => TraceFormed'
<1> SUFFICES ASSUME TraceInv, TraceFormed, [Next]_vars
             PROVE  TraceFormed'
  OBVIOUS
<1>1. ASSUME UNCHANGED melchior PROVE TraceFormed'
  BY <1>1 DEF melchior, TraceFormed
<1>2. ASSUME NEW c, Replay(c) PROVE TraceFormed'
  <2>1. c \in DOMAIN frames /\ replay' = [x |-> current, seq |-> frames[c].at]
    BY <1>2 DEF Replay
  <2>2. frames[c].at \in 1..MaxEvents /\ current # Nothing
    BY <2>1, FramesAre DEF Framed
  <2>3. current \in Explorations
    BY <2>2 DEF TraceInv, Follows
  <2> QED BY <1>2, <2>1, <2>2, <2>3 DEF Replay, TraceFormed
<1>3. CASE ReturnToLive
  BY <1>3 DEF ReturnToLive, TraceFormed
<1>4. CASE MelchiorTab
  BY <1>4 DEF MelchiorTab, TraceFormed
<1>5. CASE AskTraces \/ AskEvents \/ PollFails
  BY <1>5 DEF AskTraces, AskEvents, PollFails, TraceFormed
<1>6. ASSUME NEW list, TracesAnswer(list) PROVE TraceFormed'
  BY <1>6 DEF TracesAnswer, Follow, TraceFormed
<1>7. ASSUME NEW of, EventsAnswer(of) PROVE TraceFormed'
  BY <1>7 DEF EventsAnswer, TraceFormed
<1>8. CASE \/ Unfollowed /\ wanted' = Nothing /\ replay' = Nothing /\ polling' = FALSE
           \/ FollowedOn
  BY <1>8 DEF TraceFormed, FollowedOn
<1> QED BY <1>1, <1>2, <1>3, <1>4, <1>5, <1>6, <1>7, <1>8, TraceMove DEF Poll

(* Every write names a workspace, and one that exists is active.           *)
GoodAsks == {c \in Requests : c.op \in Writes => c.w \in Workspaces}

HeaderFormed ==
    /\ exists \subseteq Workspaces /\ Default \in exists /\ active \in exists
    /\ items \subseteq Workspaces /\ here \in Workspaces \cup {None}
    /\ switching \in BOOLEAN /\ submitting \in BOOLEAN /\ deleting \in BOOLEAN
    /\ astray \in BOOLEAN
    /\ asked \in Seq(GoodAsks)

LEMMA AskIsGood ==
    ASSUME NEW op \in Writes, NEW w \in Workspaces,
           NEW part \in {"mount", "switch", "create", "delete"}
    PROVE  Ask(op, w, part) \in GoodAsks
BY AskIsOne DEF GoodAsks, Ask

LEMMA ListIsGood == Ask("list", None, "mount") \in GoodAsks
<1>1. Ask("list", None, "mount") \in Requests
  BY AskIsOne
<1> QED BY <1>1 DEF GoodAsks, Ask, Writes

(* A request that is answered, refused or no longer heard names what it    *)
(* named.                                                                  *)
LEMMA StaysGood ==
    ASSUME NEW c \in GoodAsks
    PROVE  /\ \A s \in {"sent", "done", "refused"} : [c EXCEPT !.state = s] \in GoodAsks
           /\ [c EXCEPT !.heard = FALSE] \in GoodAsks
<1>1. c \in Requests /\ (c.op \in Writes => c.w \in Workspaces)
  BY DEF GoodAsks
<1>2. ASSUME NEW s \in {"sent", "done", "refused"}
      PROVE  [c EXCEPT !.state = s] \in GoodAsks
  <2> DEFINE d == [c EXCEPT !.state = s]
  <2>1. d \in Requests /\ d.op = c.op /\ d.w = c.w
    BY <1>1 DEF Requests
  <2> HIDE DEF d
  <2>2. d \in GoodAsks
    BY <1>1, <2>1 DEF GoodAsks
  <2> QED BY <2>2 DEF d
<1>3. [c EXCEPT !.heard = FALSE] \in GoodAsks
  <2> DEFINE d == [c EXCEPT !.heard = FALSE]
  <2>1. d \in Requests /\ d.op = c.op /\ d.w = c.w
    BY <1>1 DEF Requests
  <2> HIDE DEF d
  <2>2. d \in GoodAsks
    BY <1>1, <2>1 DEF GoodAsks
  <2> QED BY <2>2 DEF d
<1> QED BY <1>2, <1>3

LEMMA OrphansGood ==
    ASSUME asked \in Seq(GoodAsks)
    PROVE  Orphans \in Seq(GoodAsks)
<1> DEFINE s == [i \in DOMAIN asked |-> [asked[i] EXCEPT !.heard = FALSE]]
<1>1. DOMAIN asked = 1..Len(asked) /\ Len(asked) \in Nat
  OBVIOUS
<1>2. \A i \in 1..Len(asked) : [asked[i] EXCEPT !.heard = FALSE] \in GoodAsks
  <2> SUFFICES ASSUME NEW i \in 1..Len(asked) PROVE [asked[i] EXCEPT !.heard = FALSE] \in GoodAsks
    OBVIOUS
  <2>1. asked[i] \in GoodAsks
    OBVIOUS
  <2> QED BY <2>1, StaysGood
<1>3. s \in Seq(GoodAsks)
  BY <1>1, <1>2
<1> HIDE DEF s
<1>4. Kept(s, Underway) \in Seq(GoodAsks)
  BY <1>3, KeptTyped
<1> QED BY <1>4 DEF Orphans, s

LEMMA HeaderForms ==
    ASSUME HeaderFormed, HeaderUser \/ HeaderAnswer \/ Reload \/ HeaderMountedAgain
    PROVE  HeaderFormed'
<1> USE DEF HeaderFormed
<1>1. ASSUME NEW c \in GoodAsks, asked' = Append(asked, c)
      PROVE  asked' \in Seq(GoodAsks)
  BY <1>1, Appended
<1>2. ASSUME NEW i \in 1..Len(asked)
      PROVE  Drop(asked, i) \in Seq(GoodAsks) /\ asked[i] \in GoodAsks
  BY <1>2, Dropped
<1>3. ASSUME NEW i \in 1..Len(asked), NEW c \in GoodAsks, asked' = [asked EXCEPT ![i] = c]
      PROVE  asked' \in Seq(GoodAsks)
  BY <1>3
<1>4. ASSUME NEW s \in Seq(GoodAsks), NEW w \in Workspaces, NEW part \in {"switch", "create"},
             ChangeTo(w, part, s)
      PROVE  asked' \in Seq(GoodAsks) /\ switching' \in BOOLEAN /\ submitting' \in BOOLEAN
  <2>1. CASE w = here
    BY <1>4, <2>1 DEF ChangeTo
  <2>2. CASE w # here
    <3> DEFINE c == Ask("activate", w, part)
    <3>1. c \in GoodAsks
      BY AskIsGood DEF Writes
    <3>2. asked' = Append(s, c) /\ switching' = TRUE /\ submitting' = submitting
      BY <1>4, <2>2 DEF ChangeTo
    <3> HIDE DEF c
    <3> QED BY <3>1, <3>2, Appended
  <2> QED BY <2>1, <2>2
<1>5. ASSUME NEW i \in 1..Len(asked), Serve(i) PROVE HeaderFormed'
  <2> DEFINE c == asked[i]
             D == [c EXCEPT !.state = "done"]
             R == [c EXCEPT !.state = "refused"]
  <2>1. c \in GoodAsks /\ D \in GoodAsks /\ R \in GoodAsks /\ c.w \in Workspaces
    <3>1. c \in GoodAsks /\ c.op \in Writes
      BY <1>2, <1>5 DEF Serve
    <3>2. c.w \in Workspaces
      BY <3>1 DEF GoodAsks
    <3> QED BY <3>1, <3>2, StaysGood
  <2>2. \/ asked' = [asked EXCEPT ![i] = D] \/ asked' = [asked EXCEPT ![i] = R]
        \/ asked' = Drop(asked, i)
    BY <1>5 DEF Serve
  <2> HIDE DEF D, R
  <2>3. asked' \in Seq(GoodAsks)
    BY <1>2, <1>3, <2>1, <2>2
  <2>4. /\ exists' \subseteq Workspaces /\ Default \in exists' /\ active' \in exists'
        /\ astray' \in BOOLEAN
    <3>1. \/ UNCHANGED <<exists, active, astray>>
          \/ exists' = exists \cup {c.w} /\ UNCHANGED <<active, astray>>
          \/ /\ c.w \in exists /\ active' = c.w /\ UNCHANGED exists
             /\ astray' = (astray \/ ~c.heard)
          \/ /\ c.w \in exists \ {Default} /\ exists' = exists \ {c.w}
             /\ active' = IF active = c.w THEN Default ELSE active
             /\ astray' = (astray \/ (~c.heard /\ active = c.w))
      BY <1>5 DEF Serve, server
    <3>2. UNCHANGED astray \/ astray' = (astray \/ ~c.heard)
             \/ astray' = (astray \/ (~c.heard /\ active = c.w))
      BY <3>1
    <3>3. astray' \in BOOLEAN
      BY <3>2
    <3> QED BY <2>1, <3>1, <3>3
  <2> QED BY <1>5, <2>3, <2>4 DEF Serve, headerPage
<1>6. ASSUME NEW i \in 1..Len(asked), ListedHeader(i) PROVE HeaderFormed'
  BY <1>2, <1>6 DEF ListedHeader, server
<1>7. ASSUME NEW i \in 1..Len(asked), Created(i) PROVE HeaderFormed'
  <2>1. asked[i].w \in Workspaces
    BY <1>2, <1>7 DEF Created, GoodAsks, Writes
  <2>2. /\ items' = items \cup {asked[i].w} /\ ChangeTo(asked[i].w, "create", Drop(asked, i))
        /\ UNCHANGED <<server, here, deleting, astray>>
    BY <1>7 DEF Created
  <2>3. asked' \in Seq(GoodAsks) /\ switching' \in BOOLEAN /\ submitting' \in BOOLEAN
    BY <1>2, <1>4, <2>1, <2>2
  <2> QED BY <2>1, <2>2, <2>3 DEF server
<1>8. ASSUME NEW i \in 1..Len(asked), HeaderFails(i) PROVE HeaderFormed'
  <2> DEFINE L == [asked[i] EXCEPT !.heard = FALSE]
  <2>1. L \in GoodAsks
    BY <1>2, StaysGood
  <2>2. /\ asked' = [asked EXCEPT ![i] = L] \/ asked' = Drop(asked, i)
        /\ switching' = (switching /\ asked[i].op # "activate")
        /\ submitting' = (submitting /\ asked[i].part # "create")
        /\ deleting' = (deleting /\ asked[i].op # "delete")
        /\ astray' = (astray \/ (asked[i].state = "done" /\ asked[i].op # "create"))
        /\ UNCHANGED <<server, items, here>>
    BY <1>8 DEF HeaderFails
  <2> HIDE DEF L
  <2>3. asked' \in Seq(GoodAsks)
    BY <1>2, <1>3, <2>1, <2>2
  <2>4. /\ switching' \in BOOLEAN /\ submitting' \in BOOLEAN /\ deleting' \in BOOLEAN
        /\ astray' \in BOOLEAN
    BY <2>2
  <2> QED BY <2>2, <2>3, <2>4 DEF server
<1>9. ASSUME NEW w \in Workspaces, SwitchTo(w) PROVE HeaderFormed'
  <2>1. asked' \in Seq(GoodAsks) /\ switching' \in BOOLEAN /\ submitting' \in BOOLEAN
    BY <1>4, <1>9 DEF SwitchTo
  <2> QED BY <1>9, <2>1 DEF SwitchTo, server
<1>10. ASSUME NEW w \in Workspaces, SubmitWorkspace(w) \/ DeleteWorkspace(w) PROVE HeaderFormed'
  <2>1. PICK c \in GoodAsks : asked' = Append(asked, c)
    <3>1. Ask("create", w, "create") \in GoodAsks /\ Ask("delete", w, "delete") \in GoodAsks
      BY AskIsGood DEF Writes
    <3> QED BY <1>10, <3>1 DEF SubmitWorkspace, DeleteWorkspace, Send
  <2>2. asked' \in Seq(GoodAsks)
    BY <1>1, <2>1
  <2> QED BY <1>10, <2>2 DEF SubmitWorkspace, DeleteWorkspace, server
<1>11. ASSUME NEW i \in DOMAIN asked, Moved(i) PROVE HeaderFormed'
  <2> DEFINE c == Ask("list", None, "mount")
  <2>1. c \in GoodAsks /\ Orphans \in Seq(GoodAsks)
    BY ListIsGood, OrphansGood
  <2>2. asked' = Append(Orphans, c)
    BY <1>11 DEF Moved, Fresh
  <2> HIDE DEF c
  <2>3. asked' \in Seq(GoodAsks)
    BY <2>1, <2>2, Appended
  <2> QED BY <1>11, <2>3 DEF Moved, Fresh, server
<1>12. DOMAIN asked = 1..Len(asked)
  OBVIOUS
<1>13. CASE HeaderMountedAgain
  <2> DEFINE c == Ask("list", None, "mount")
             k == Kept(asked, Underway)
  <2>1. c \in GoodAsks /\ k \in Seq(GoodAsks)
    BY ListIsGood, KeptTyped
  <2>2. asked' = Append(k, c)
    BY <1>13 DEF HeaderMountedAgain, Fresh
  <2> HIDE DEF c, k
  <2>3. asked' \in Seq(GoodAsks)
    BY <2>1, <2>2, Appended
  <2> QED BY <1>13, <2>3 DEF HeaderMountedAgain, Fresh, server
<1> QED
  BY <1>5, <1>6, <1>7, <1>8, <1>9, <1>10, <1>11, <1>12, <1>13
     DEF HeaderUser, HeaderAnswer, Reload

LEMMA HeaderForm == HeaderFormed /\ [Next]_vars => HeaderFormed'
<1>1. HeaderFormed /\ UNCHANGED headerVars => HeaderFormed'
  BY DEF HeaderFormed, headerVars
<1> QED BY <1>1, HeaderMove, HeaderForms

(* A flag says that a request is under way, and there is never another one *)
(* of its kind.                                                            *)
Once(s, good) == \A i, j \in 1..Len(s) : s[i] \in good /\ s[j] \in good => i = j
Flags(flag, s, good) == flag \in BOOLEAN /\ Once(s, good) /\ (flag <=> Has(s, good))

LEMMA FlagsDropped ==
    ASSUME NEW S, NEW s \in Seq(S), NEW i \in 1..Len(s), NEW good, NEW flag,
           Flags(flag, s, good)
    PROVE  Flags(flag /\ s[i] \notin good, Drop(s, i), good)
<1> DEFINE d == Drop(s, i)
           n == Len(s)
           At(j) == IF j < i THEN j ELSE j + 1
<1>1. /\ Len(d) = n - 1 /\ n \in Nat /\ i \in 1..n
      /\ \A j \in 1..(n - 1) : d[j] = IF j < i THEN s[j] ELSE s[j + 1]
  <2>1. /\ Len(d) = Len(s) - 1
        /\ \A j \in 1..(Len(s) - 1) : Drop(s, i)[j] = IF j < i THEN s[j] ELSE s[j + 1]
    BY Dropped
  <2> QED BY <2>1
<1>0. \A j, k \in 1..n : s[j] \in good /\ s[k] \in good => j = k
  BY DEF Flags, Once
<1> HIDE DEF d, n
<1>2. ASSUME NEW j \in 1..(n - 1)
      PROVE  At(j) \in 1..n /\ At(j) # i /\ d[j] = s[At(j)]
  BY <1>1
<1>3. ASSUME NEW j \in 1..(n - 1), NEW k \in 1..(n - 1), At(j) = At(k)
      PROVE  j = k
  BY <1>3
<1>4. Once(d, good)
  <2> SUFFICES ASSUME NEW j \in 1..(n - 1), NEW k \in 1..(n - 1), d[j] \in good, d[k] \in good
               PROVE  j = k
    BY <1>1 DEF Once
  <2>1. At(j) = At(k)
    <3>1. /\ At(j) \in 1..n /\ d[j] = s[At(j)]
          /\ At(k) \in 1..n /\ d[k] = s[At(k)]
      BY <1>2
    <3> HIDE DEF At
    <3> QED BY <1>0, <3>1
  <2> QED BY <1>3, <2>1
<1>5. ASSUME Has(d, good)
      PROVE  flag /\ s[i] \notin good
  <2>1. PICK j \in 1..(n - 1) : d[j] \in good
    BY <1>1, <1>5 DEF Has
  <2>2. At(j) \in 1..n /\ At(j) # i /\ s[At(j)] \in good
    BY <1>2, <2>1
  <2> HIDE DEF At
  <2>3. Has(s, good)
    BY <2>2 DEF Has, n
  <2>4. s[i] \notin good
    BY <1>0, <1>1, <2>2
  <2> QED BY <2>3, <2>4 DEF Flags
<1>6. ASSUME flag, s[i] \notin good
      PROVE  Has(d, good)
  BY <1>6, HasDropped DEF Flags, d
<1> QED BY <1>4, <1>5, <1>6 DEF Flags, d

LEMMA FlagsAppended ==
    ASSUME NEW S, NEW s \in Seq(S), NEW e \in S, NEW good, NEW flag,
           Flags(flag, s, good), e \in good => ~flag
    PROVE  Flags(flag \/ e \in good, Append(s, e), good)
<1> DEFINE a == Append(s, e)
           n == Len(s)
<1>1. /\ n \in Nat /\ Len(a) = n + 1 /\ a[n + 1] = e /\ \A j \in 1..n : a[j] = s[j]
  BY Appended
<1>2. Has(a, good) <=> Has(s, good) \/ e \in good
  BY HasAppended
<1>0. /\ \A j, k \in 1..n : s[j] \in good /\ s[k] \in good => j = k
      /\ e \in good => \A j \in 1..n : s[j] \notin good
  BY DEF Flags, Once, Has
<1> HIDE DEF a, n
<1>3. \A j \in 1..(n + 1) : j = n + 1 \/ j \in 1..n
  BY <1>1
<1>4. Once(a, good)
  BY <1>0, <1>1, <1>3 DEF Once
<1> QED BY <1>2, <1>4 DEF Flags, a

LEMMA FlagsChanged ==
    ASSUME NEW S, NEW s \in Seq(S), NEW i \in 1..Len(s), NEW e \in S, NEW good, NEW flag,
           Flags(flag, s, good), s[i] \in good <=> e \in good
    PROVE  Flags(flag, [s EXCEPT ![i] = e], good)
<1> DEFINE d == [s EXCEPT ![i] = e]
<1>1. Len(d) = Len(s) /\ \A j \in 1..Len(s) : d[j] \in good <=> s[j] \in good
  OBVIOUS
<1> HIDE DEF d
<1> QED BY <1>1 DEF Flags, Once, Has, d

(* The requests that load a list, and those of each decision               *)
Loading == {c \in CallSet : c.op \in {"overview", "list"}}
ForConflict == {c \in CallSet : c.for = "conflict"}
ForAlias == {c \in CallSet : c.for = "alias"}

(* A request that names a registry names a record of it.                   *)
Naming == {c \in CallSet : c.kind # None => c.id \in Of(c.kind)}

(* The spinner and the two buttons are busy for requests under way.        *)
CallsFormed ==
    /\ calls \in Seq(Naming)
    /\ loading \in BOOLEAN /\ (loading => Has(calls, Loading))
    /\ Flags(resolving, calls, ForConflict)
    /\ Flags(assigning, calls, ForAlias)

ListsFormed ==
    /\ due \in BOOLEAN /\ late \in BOOLEAN
    /\ \A k \in Kinds : lists[k].at # None => lists[k].at.view = k

LEMMA DropForms ==
    ASSUME CallsFormed, NEW i \in 1..Len(calls), calls' = Drop(calls, i),
           resolving' = (resolving /\ calls[i].for # "conflict"),
           assigning' = (assigning /\ calls[i].for # "alias"),
           \/ loading' = FALSE
           \/ loading' = loading /\ calls[i].op \notin {"overview", "list"}
    PROVE  CallsFormed'
<1>1. calls \in Seq(Naming) /\ calls[i] \in CallSet /\ loading' \in BOOLEAN
  <2>1. calls \in Seq(Naming) /\ loading \in BOOLEAN
    BY DEF CallsFormed
  <2>2. calls[i] \in Naming
    BY <2>1
  <2>3. calls[i] \in CallSet
    BY <2>2 DEF Naming
  <2> QED BY <2>1, <2>3
<1>2. /\ calls[i] \in ForConflict <=> calls[i].for = "conflict"
      /\ calls[i] \in ForAlias <=> calls[i].for = "alias"
      /\ calls[i] \in Loading <=> calls[i].op \in {"overview", "list"}
  BY <1>1 DEF ForConflict, ForAlias, Loading
<1>3. calls' \in Seq(Naming)
  BY <1>1, Dropped
<1>4. Flags(resolving', calls', ForConflict)
  <2>1. Flags(resolving /\ calls[i] \notin ForConflict, Drop(calls, i), ForConflict)
    BY <1>1, FlagsDropped DEF CallsFormed
  <2>2. resolving' = (resolving /\ calls[i] \notin ForConflict)
    BY <1>2
  <2> QED BY <2>1, <2>2
<1>5. Flags(assigning', calls', ForAlias)
  <2>1. Flags(assigning /\ calls[i] \notin ForAlias, Drop(calls, i), ForAlias)
    BY <1>1, FlagsDropped DEF CallsFormed
  <2>2. assigning' = (assigning /\ calls[i] \notin ForAlias)
    BY <1>2
  <2> QED BY <2>1, <2>2
<1>6. loading' => Has(calls', Loading)
  BY <1>1, <1>2, HasDropped DEF CallsFormed
<1> QED BY <1>1, <1>3, <1>4, <1>5, <1>6 DEF CallsFormed, Loading, ForConflict, ForAlias, Naming,
    CallSet, Ats, Ids

LEMMA AppendForms ==
    ASSUME CallsFormed, NEW c \in Naming, calls' = Append(calls, c),
           c.for = "conflict" => ~resolving, c.for = "alias" => ~assigning,
           resolving' = (resolving \/ c.for = "conflict"),
           assigning' = (assigning \/ c.for = "alias"),
           loading' = loading \/ (loading' = TRUE /\ c.op \in {"overview", "list"})
    PROVE  CallsFormed'
<1>1. calls \in Seq(Naming) /\ c \in CallSet /\ loading' \in BOOLEAN
  BY DEF CallsFormed, Naming
<1>2. /\ c \in ForConflict <=> c.for = "conflict"
      /\ c \in ForAlias <=> c.for = "alias"
      /\ c \in Loading <=> c.op \in {"overview", "list"}
  BY <1>1 DEF ForConflict, ForAlias, Loading
<1>3. calls' \in Seq(Naming)
  BY <1>1, Appended
<1>4. Flags(resolving', calls', ForConflict)
  <2>1. Flags(resolving \/ c \in ForConflict, Append(calls, c), ForConflict)
    BY <1>1, <1>2, FlagsAppended DEF CallsFormed
  <2>2. resolving' = (resolving \/ c \in ForConflict)
    BY <1>2
  <2> QED BY <2>1, <2>2
<1>5. Flags(assigning', calls', ForAlias)
  <2>1. Flags(assigning \/ c \in ForAlias, Append(calls, c), ForAlias)
    BY <1>1, <1>2, FlagsAppended DEF CallsFormed
  <2>2. assigning' = (assigning \/ c \in ForAlias)
    BY <1>2
  <2> QED BY <2>1, <2>2
<1>6. loading' => Has(calls', Loading)
  <2>1. Has(calls', Loading) <=> Has(calls, Loading) \/ c \in Loading
    BY <1>1, HasAppended
  <2> QED BY <1>2, <2>1 DEF CallsFormed
<1> QED BY <1>1, <1>3, <1>4, <1>5, <1>6 DEF CallsFormed, Loading, ForConflict, ForAlias, Naming,
    CallSet, Ats, Ids

LEMMA ChangeForms ==
    ASSUME CallsFormed, NEW i \in 1..Len(calls), NEW d \in Naming,
           calls' = [calls EXCEPT ![i] = d], d.for = calls[i].for,
           calls[i].op \in {"overview", "list"} => d.op \in {"overview", "list"},
           UNCHANGED <<loading, resolving, assigning>>
    PROVE  CallsFormed'
<1>1. calls \in Seq(Naming) /\ calls[i] \in CallSet /\ d \in CallSet
  BY DEF CallsFormed, Naming
<1>2. /\ calls[i] \in ForConflict <=> d \in ForConflict
      /\ calls[i] \in ForAlias <=> d \in ForAlias
      /\ calls[i] \in Loading => d \in Loading
  BY <1>1 DEF ForConflict, ForAlias, Loading
<1>3. calls' \in Seq(Naming)
  BY <1>1
<1>4. Flags(resolving', calls', ForConflict)
  BY <1>1, <1>2, FlagsChanged DEF CallsFormed
<1>5. Flags(assigning', calls', ForAlias)
  BY <1>1, <1>2, FlagsChanged DEF CallsFormed
<1>6. loading' => Has(calls', Loading)
  BY <1>1, <1>2, HasChanged DEF CallsFormed
<1> QED BY <1>1, <1>3, <1>4, <1>5, <1>6 DEF CallsFormed, Loading, ForConflict, ForAlias, Naming,
    CallSet, Ats, Ids

(* A handler that reads its list again stays the one it was.               *)
LEMMA AgainForms ==
    ASSUME MemTyped, CallsFormed, NEW i \in 1..Len(calls), calls[i].at \in Ats,
           calls[i].for = "conflict", ReadAgain(i), UNCHANGED <<resolving, assigning>>
    PROVE  CallsFormed'
<1> DEFINE c == Overview(calls[i].at, "conflict")
           d == Drop(calls, i)
<1>1. /\ c \in CallSet /\ c.for = "conflict" /\ c.op = "overview" /\ c.kind = None
  BY DEF Overview, Call, CallSet
<1>2. calls' = Append(d, c) /\ loading' = TRUE
  BY DEF ReadAgain
<1>3. calls \in Seq(Naming) /\ calls[i] \in CallSet
  BY DEF CallsFormed, Naming
<1>4. /\ calls[i] \in ForConflict /\ calls[i] \notin ForAlias
      /\ c \in ForConflict /\ c \notin ForAlias /\ c \in Loading /\ c \in Naming
  BY <1>1, <1>3 DEF ForConflict, ForAlias, Loading, Naming
<1>5. d \in Seq(Naming)
  BY <1>3, Dropped
<1>6. Flags(FALSE, d, ForConflict) /\ resolving
  <2>1. Flags(resolving /\ calls[i] \notin ForConflict, d, ForConflict)
    BY <1>3, FlagsDropped DEF CallsFormed
  <2>2. (resolving /\ calls[i] \notin ForConflict) = FALSE
    BY <1>4
  <2>3. resolving
    BY <1>4 DEF CallsFormed, Flags, Has
  <2> QED BY <2>1, <2>2, <2>3
<1>7. Flags(assigning, d, ForAlias)
  <2>1. Flags(assigning /\ calls[i] \notin ForAlias, d, ForAlias)
    BY <1>3, FlagsDropped DEF CallsFormed
  <2>2. (assigning /\ calls[i] \notin ForAlias) = assigning
    BY <1>4 DEF CallsFormed, Flags
  <2> QED BY <2>1, <2>2
<1> HIDE DEF c, d
<1>8. Flags(resolving', calls', ForConflict)
  <2>1. Flags(FALSE \/ c \in ForConflict, Append(d, c), ForConflict)
    BY <1>4, <1>5, <1>6, FlagsAppended
  <2>2. resolving' = (FALSE \/ c \in ForConflict)
    BY <1>4, <1>6 DEF CallsFormed, Flags
  <2> QED BY <1>2, <2>1, <2>2
<1>9. Flags(assigning', calls', ForAlias)
  <2>1. Flags(assigning \/ c \in ForAlias, Append(d, c), ForAlias)
    BY <1>4, <1>5, <1>7, FlagsAppended
  <2>2. assigning' = (assigning \/ c \in ForAlias)
    BY <1>4 DEF CallsFormed, Flags
  <2> QED BY <1>2, <2>1, <2>2
<1>10. calls' \in Seq(Naming) /\ Has(calls', Loading)
  BY <1>2, <1>4, <1>5, Appended, HasAppended
<1> QED BY <1>2, <1>8, <1>9, <1>10 DEF CallsFormed, Loading, ForConflict, ForAlias, Naming,
    CallSet, Ats, Ids

(* The records of a call are those of its registry, for whoever it is.     *)
LEMMA StaysNaming ==
    ASSUME NEW c \in Naming, NEW op \in {"overview", "list", "detail", "decide", "checked",
                                         "decided", "refused", "assign", "assigned", "entities"}
    PROVE  [c EXCEPT !.op = op] \in Naming /\ [c EXCEPT !.op = op].op = op
           /\ [c EXCEPT !.op = op].for = c.for
<1> DEFINE d == [c EXCEPT !.op = op]
<1>1. c \in CallSet /\ (c.kind # None => c.id \in Of(c.kind))
  BY DEF Naming
<1>2. d.op = op /\ d.for = c.for /\ d.kind = c.kind /\ d.id = c.id
  BY <1>1 DEF CallSet
<1>4. d \in CallSet
  BY <1>1 DEF CallSet
<1> HIDE DEF d
<1>3. d \in Naming
  BY <1>1, <1>2, <1>4 DEF Naming
<1> QED BY <1>2, <1>3 DEF d

(* The answers, one after the other                                        *)
LEMMA AnswersForm ==
    ASSUME MemInv, CallsFormed, NEW i \in 1..Len(calls), MemoryAnswer(i)
    PROVE  CallsFormed'
<1> DEFINE c == calls[i]
<1>1. c \in Pool /\ c \in CallSet /\ GoodCall(c) /\ MemTyped /\ calls \in Seq(Pool)
  BY DEF MemInv, MemTyped, Pool
<1>2. /\ c \in Naming /\ loading \in BOOLEAN /\ resolving \in BOOLEAN /\ assigning \in BOOLEAN
  BY DEF CallsFormed, Flags
<1>3. CASE OverviewAnswers(i)
  <2>1. c.for # "alias" /\ UNCHANGED assigning
    BY <1>1, <1>3 DEF OverviewAnswers, GoodCall, Loaded, dialogs
  <2>2. ASSUME calls' = Drop(calls, i), Loaded(i) PROVE CallsFormed'
    BY <1>2, <2>1, <2>2, DropForms DEF Loaded
  <2>3. ASSUME calls' = [calls EXCEPT ![i].op = "list"], UNCHANGED <<loading, dialogs>>
        PROVE  CallsFormed'
    <3> DEFINE d == [c EXCEPT !.op = "list"]
    <3>1. d \in Naming /\ d.op = "list" /\ d.for = c.for
      BY <1>2, StaysNaming
    <3>2. calls' = [calls EXCEPT ![i] = d]
      BY <2>3
    <3> HIDE DEF d
    <3> QED BY <2>3, <3>1, <3>2, ChangeForms DEF dialogs
  <2> QED BY <1>3, <2>2, <2>3 DEF OverviewAnswers
<1>4. CASE ListAnswers(i) \/ LoadFails(i)
  <2>1. c.for # "alias" /\ calls' = Drop(calls, i) /\ Loaded(i)
    BY <1>1, <1>4 DEF ListAnswers, LoadFails, GoodCall
  <2> QED BY <1>2, <2>1, DropForms DEF Loaded
<1>5. CASE DetailAnswers(i) \/ DetailFails(i)
  <2>1. /\ c.op = "detail" /\ c.for = "page" /\ calls' = Drop(calls, i)
        /\ UNCHANGED <<loading, resolving, assigning>>
    BY <1>5 DEF DetailAnswers, DetailFails, panels, dialogs
  <2> QED BY <1>2, <2>1, DropForms
<1>6. CASE Decide(i) \/ Assign(i)
  <2>1. c.op \in {"decide", "checked", "assign"}
    BY <1>6 DEF Decide, Assign
  <2>2. UNCHANGED <<loading, resolving, assigning>>
    BY <1>6 DEF Decide, Assign, panels, dialogs
  <2>3. ASSUME NEW op \in {"checked", "decided", "refused", "assigned"},
               calls' = [calls EXCEPT ![i].op = op]
        PROVE  CallsFormed'
    <3> DEFINE d == [c EXCEPT !.op = op]
    <3>1. op \in {"overview", "list", "detail", "decide", "checked", "decided",
                  "refused", "assign", "assigned", "entities"}
          /\ op \notin {"overview", "list"}
      BY <2>3
    <3>2. d \in Naming /\ d.op = op /\ d.for = c.for
      BY <1>2, <3>1, StaysNaming
    <3>3. calls' = [calls EXCEPT ![i] = d]
      BY <2>3
    <3> HIDE DEF d
    <3>4. c.op \notin {"overview", "list"}
      BY <2>1
    <3> QED BY <2>2, <3>2, <3>3, <3>4, ChangeForms
  <2> QED BY <1>6, <2>3 DEF Decide, Assign
<1>7. CASE DecideAnswers(i)
  <2>1. c.op = "decided" /\ UNCHANGED <<resolving, assigning>>
    BY <1>7 DEF DecideAnswers
  <2>2. c.for = "conflict" /\ c.kind = "atoms" /\ c.sel \in Atoms \cup {None} /\ c.at \in Ats
    BY <1>1, <2>1 DEF GoodCall
  <2>3. ASSUME c.sel # None, UNCHANGED loading,
               calls' = [calls EXCEPT ![i].op = "detail", ![i].id = c.sel]
        PROVE  CallsFormed'
    <3> DEFINE d == [c EXCEPT !.op = "detail", !.id = c.sel]
    <3>1. c.sel \in Atoms /\ c.sel \in Ids /\ Of("atoms") = Atoms
      BY <2>2, <2>3, KindsAre
    <3>2. d \in CallSet /\ d.for = c.for /\ d.kind = "atoms" /\ d.id = c.sel
      BY <1>1, <2>2, <3>1 DEF CallSet
    <3>3. calls' = [calls EXCEPT ![i] = d]
      BY <2>3
    <3> HIDE DEF d
    <3>4. d \in Naming
      BY <3>1, <3>2 DEF Naming
    <3> QED BY <2>1, <2>3, <3>2, <3>3, <3>4, ChangeForms
  <2>4. ASSUME ReadAgain(i) PROVE CallsFormed'
    BY <1>1, <2>1, <2>2, <2>4, AgainForms
  <2> QED BY <1>7, <2>3, <2>4 DEF DecideAnswers
<1>8. CASE Reread(i)
  <2>1. c.op = "detail" /\ c.for = "conflict" /\ ReadAgain(i) /\ UNCHANGED <<resolving, assigning>>
    BY <1>8 DEF Reread
  <2>2. c.at \in Ats
    BY <1>1, <2>1 DEF GoodCall
  <2> QED BY <1>1, <2>1, <2>2, AgainForms
<1>9. CASE DecideFails(i)
  <2>1. /\ c.for = "conflict" /\ c.op \notin {"overview", "list"} /\ calls' = Drop(calls, i)
        /\ resolving' = FALSE /\ UNCHANGED <<loading, assigning>>
    BY <1>9 DEF DecideFails, panels
  <2> QED BY <1>2, <2>1, DropForms
<1>10. CASE AssignAnswers(i)
  <2> DEFINE at == [c.at EXCEPT !.view = "entities", !.filter = "all"]
             d == [c EXCEPT !.op = "entities", !.at = at]
  <2>1. /\ c.op = "assigned" /\ UNCHANGED <<loading, resolving, assigning>>
        /\ calls' = [calls EXCEPT ![i].op = "entities", ![i].at = at]
    BY <1>10 DEF AssignAnswers
  <2>2. c.at \in Ats
    BY <1>1, <2>1 DEF GoodCall
  <2>3. at \in Ats
    BY <2>2, KindsAre DEF Ats, Filters
  <2>4. calls' = [calls EXCEPT ![i] = d]
    BY <2>1
  <2> HIDE DEF at
  <2>5. d \in CallSet /\ d.for = c.for /\ d.kind = c.kind /\ d.id = c.id
    BY <1>1, <2>3 DEF CallSet
  <2> HIDE DEF d
  <2>6. d \in Naming
    BY <1>2, <2>5 DEF Naming
  <2> QED BY <2>1, <2>4, <2>5, <2>6, ChangeForms
<1>11. CASE EntitiesAnswer(i) \/ AssignFails(i)
  <2>1. calls' = Drop(calls, i) /\ assigning' = FALSE /\ UNCHANGED <<loading, resolving>>
    BY <1>11 DEF EntitiesAnswer, AssignFails, panels
  <2>2. c.for = "alias" /\ c.op \notin {"overview", "list"}
    BY <1>1, <1>11 DEF EntitiesAnswer, AssignFails, GoodCall
  <2> QED BY <1>2, <2>1, <2>2, DropForms
<1> QED
  BY <1>3, <1>4, <1>5, <1>6, <1>7, <1>8, <1>9, <1>10, <1>11 DEF MemoryAnswer

LEMMA LoadForms ==
    ASSUME MemTyped, CallsFormed, Load, UNCHANGED dialogs
    PROVE  CallsFormed'
<1> DEFINE c == Overview(Asked, "page")
<1>1. Asked \in Ats
  BY AskedTyped
<1>2. c \in CallSet /\ c.op = "overview" /\ c.for = "page" /\ c.kind = None
  BY <1>1 DEF Overview, Call, CallSet
<1>3. calls' = Append(calls, c) /\ loading' = TRUE
  BY DEF Load
<1> HIDE DEF c
<1>4. c \in Naming
  BY <1>2 DEF Naming
<1>5. UNCHANGED <<resolving, assigning>> /\ resolving \in BOOLEAN /\ assigning \in BOOLEAN
  BY DEF dialogs, CallsFormed, Flags
<1> QED BY <1>2, <1>3, <1>4, <1>5, AppendForms

LEMMA UserForms ==
    ASSUME MemInv, CallsFormed, Toolbar \/ Panels \/ Dialogs
    PROVE  CallsFormed'
<1>1. MemTyped /\ DialogPart /\ resolving \in BOOLEAN /\ assigning \in BOOLEAN
  BY DEF MemInv, CallsFormed, Flags
<1>2. ASSUME UNCHANGED <<calls, loading, resolving, assigning>> PROVE CallsFormed'
  BY <1>2 DEF CallsFormed, Flags, Has, Once
<1>3. CASE Toolbar
  <2>1. CASE RefreshList
    BY <1>1, <2>1, LoadForms DEF RefreshList
  <2>2. CASE ~RefreshList
    BY <1>2, <1>3, <2>2 DEF Toolbar, SwitchView, Turn, Type, Filter, panels, dialogs
  <2> QED BY <2>1, <2>2
<1>4. ASSUME NEW k \in Kinds, Close(k) PROVE CallsFormed'
  BY <1>2, <1>4 DEF Close, dialogs
<1>5. ASSUME NEW k \in Kinds, NEW id \in Of(k), OpenRow(k, id) \/ OpenLink(k, id)
      PROVE  CallsFormed'
  <2> DEFINE c == Call("detail", "page", None, k, id, None)
  <2>1. c \in CallSet /\ c.for = "page" /\ c.kind = k /\ c.id = id
    BY KindsAre DEF Call, CallSet
  <2>2. calls' = Append(calls, c) /\ UNCHANGED <<loading, resolving, assigning>>
    BY <1>5 DEF OpenRow, OpenLink, dialogs
  <2> HIDE DEF c
  <2>3. c \in Naming
    BY <2>1 DEF Naming
  <2> QED BY <1>1, <2>1, <2>2, <2>3, AppendForms
<1>6. CASE Dialogs
  <2>1. CASE ConfirmConflict
    <3> DEFINE c == Call("decide", "conflict", Asked, "atoms", conflict.winner, detail["atoms"].id)
    <3>1. conflict.winner \in Atoms /\ detail["atoms"].id \in Atoms \cup {None} /\ Asked \in Ats
      BY <1>1, <2>1, KindsAre, AskedTyped DEF ConfirmConflict, DialogPart
    <3>2. /\ c \in CallSet /\ c.for = "conflict" /\ c.kind = "atoms" /\ c.id = conflict.winner
      BY <3>1, KindsAre DEF Call, CallSet
    <3>3. /\ calls' = Append(calls, c) /\ resolving' = TRUE /\ ~resolving
          /\ UNCHANGED <<loading, assigning>>
      BY <2>1 DEF ConfirmConflict, panels
    <3> HIDE DEF c
    <3>4. c \in Naming
      BY <3>1, <3>2, KindsAre DEF Naming
    <3> QED BY <1>1, <3>2, <3>3, <3>4, AppendForms
  <2>2. CASE ConfirmAlias
    <3> DEFINE c == Call("assign", "alias", Asked, "entities", alias, None)
    <3>1. alias \in Entities /\ Asked \in Ats
      BY <1>1, <2>2, AskedTyped DEF ConfirmAlias, DialogPart
    <3>2. c \in CallSet /\ c.for = "alias" /\ c.kind = "entities" /\ c.id = alias
      BY <3>1, KindsAre DEF Call, CallSet
    <3>3. /\ calls' = Append(calls, c) /\ assigning' = TRUE /\ ~assigning
          /\ UNCHANGED <<loading, resolving>>
      BY <2>2 DEF ConfirmAlias, panels
    <3> HIDE DEF c
    <3>4. c \in Naming
      BY <3>1, <3>2, KindsAre DEF Naming
    <3> QED BY <1>1, <3>2, <3>3, <3>4, AppendForms
  <2>3. CASE ~ConfirmConflict /\ ~ConfirmAlias
    BY <1>2, <1>6, <2>3 DEF Dialogs, SelectWinner, SelectOwner, DismissConflict, DismissAlias, panels
  <2> QED BY <2>1, <2>2, <2>3
<1> QED BY <1>3, <1>4, <1>5, <1>6 DEF Panels

(* Nothing is under way.                                                   *)
LEMMA NoneUnderway ==
    /\ <<>> \in Seq(Naming)
    /\ \A good : Flags(FALSE, <<>>, good)
<1>1. <<>> \in Seq(Naming) /\ Len(<<>>) = 0
  <2> HIDE DEF Naming
  <2> QED OBVIOUS
<1>2. ASSUME NEW good PROVE Flags(FALSE, <<>>, good)
  BY <1>1 DEF Flags, Once, Has
<1> QED BY <1>1, <1>2

LEMMA CallsForm == MemInv /\ CallsFormed /\ [Next]_vars => CallsFormed'
<1> SUFFICES ASSUME MemInv, CallsFormed, [Next]_vars PROVE CallsFormed'
  OBVIOUS
<1>1. ASSUME NEW i \in DOMAIN calls, MemoryAnswer(i) PROVE CallsFormed'
  <2>1. i \in 1..Len(calls)
    BY DEF MemInv, MemTyped
  <2> QED BY <1>1, <2>1, AnswersForm
<1>2. ASSUME TimerFires PROVE CallsFormed'
  BY <1>2, LoadForms DEF TimerFires, MemInv
<1>3. ASSUME Mounted PROVE CallsFormed'
  <2>1. calls' = <<>> /\ loading' = FALSE /\ resolving' = FALSE /\ assigning' = FALSE
    BY <1>3 DEF Mounted
  <2> QED BY <2>1, NoneUnderway DEF CallsFormed
<1>4. ASSUME UNCHANGED memoryVars PROVE CallsFormed'
  BY <1>4 DEF memoryVars, panels, dialogs, CallsFormed, Flags, Has, Once
<1>5. ASSUME NEW i \in DOMAIN unheard, ServeUnheard(i) PROVE CallsFormed'
  BY <1>5 DEF ServeUnheard, panels, dialogs, CallsFormed, Flags, Has, Once
<1> QED BY <1>1, <1>2, <1>3, <1>4, <1>5, MemoryMove, UserForms

(* A list on display is one of its own registry.                           *)
LEMMA ListsForm == MemInv /\ ListsFormed /\ [Next]_vars => ListsFormed'
<1> SUFFICES ASSUME MemInv, ListsFormed, [Next]_vars PROVE ListsFormed'
  OBVIOUS
<1>0. MemTyped /\ DOMAIN lists = Kinds
  BY DEF MemInv, MemTyped
<1>1. ASSUME UNCHANGED lists, due' \in BOOLEAN, late' \in {TRUE, late} PROVE ListsFormed'
  BY <1>1 DEF ListsFormed
<1>2. Effects => due' \in BOOLEAN
  BY DEF Effects
<1>3. ASSUME NEW at, at.view \in Kinds, Shown(at), due' \in BOOLEAN PROVE ListsFormed'
  <2>1. lists' = [lists EXCEPT ![at.view] = [at |-> at, from |-> active]] /\ late' \in BOOLEAN
    BY <1>3 DEF Shown
  <2>2. ASSUME NEW k \in Kinds, lists'[k].at # None PROVE lists'[k].at.view = k
    <3>1. CASE k = at.view
      BY <1>0, <2>1, <3>1
    <3>2. CASE k # at.view
      BY <1>0, <2>1, <2>2, <3>2 DEF ListsFormed
    <3> QED BY <3>1, <3>2
  <2> QED BY <1>3, <2>1, <2>2 DEF ListsFormed
<1>4. ASSUME NEW i \in DOMAIN calls, MemoryAnswer(i), Effects PROVE ListsFormed'
  <2>1. GoodCall(calls[i])
    BY DEF MemInv, MemTyped, Pool
  <2>2. CASE ListAnswers(i) \/ EntitiesAnswer(i)
    <3>1. Shown(calls[i].at) /\ calls[i].op \in {"list", "entities"}
      BY <2>2 DEF ListAnswers, EntitiesAnswer
    <3>2. calls[i].at.view \in Kinds
      BY <2>1, <3>1, KindsAre DEF GoodCall
    <3> QED BY <1>2, <1>3, <1>4, <3>1, <3>2
  <2>3. CASE ~ListAnswers(i) /\ ~EntitiesAnswer(i)
    <3>1. UNCHANGED lists /\ late' \in {TRUE, late}
      BY <1>4, <2>3 DEF MemoryAnswer, OverviewAnswers, LoadFails, DetailAnswers, DetailFails,
         Decide, DecideAnswers, Reread, DecideFails, Assign, AssignAnswers, AssignFails, panels
    <3> QED BY <1>1, <1>2, <1>4, <3>1
  <2> QED BY <2>2, <2>3
<1>5. ASSUME Toolbar \/ Panels \/ Dialogs, Effects PROVE ListsFormed'
  <2>1. UNCHANGED <<lists, late>>
    BY <1>5 DEF Toolbar, SwitchView, Turn, Type, Filter, RefreshList, Panels, Close, OpenRow,
       OpenLink, Dialogs, SelectWinner, SelectOwner, DismissConflict, ConfirmConflict,
       DismissAlias, ConfirmAlias, panels
  <2> QED BY <1>1, <1>2, <1>5, <2>1
<1>6. ASSUME TimerFires PROVE ListsFormed'
  BY <1>1, <1>6 DEF TimerFires
<1>7. ASSUME Mounted PROVE ListsFormed'
  BY <1>7 DEF Mounted, ListsFormed, NoList
<1>8. ASSUME UNCHANGED memoryVars PROVE ListsFormed'
  BY <1>8 DEF memoryVars, panels, ListsFormed
<1>9. ASSUME NEW i \in DOMAIN unheard, ServeUnheard(i) PROVE ListsFormed'
  BY <1>9 DEF ServeUnheard, panels, ListsFormed
<1> QED BY <1>4, <1>5, <1>6, <1>7, <1>8, <1>9, MemoryMove

(* The invariant of the types                                              *)
ConsoleInv ==
    /\ ModelsInv /\ DreamInv /\ TraceInv /\ MemInv /\ UnheardTyped
    /\ ModelsFormed /\ DreamFormed /\ TraceFormed
    /\ HeaderFormed /\ CallsFormed /\ ListsFormed

(* It holds when the page is mounted for the first time.                   *)
LEMMA FormedStart ==
    ASSUME Init
    PROVE  ModelsFormed /\ DreamFormed /\ TraceFormed /\ HeaderFormed /\ CallsFormed /\ ListsFormed
<1>1. ModelsFormed
  BY DEF Init, ModelsInit, ModelsFormed
<1>2. DreamFormed
  BY DEF Init, DreamingInit, DreamFormed, Modes
<1>3. TraceFormed
  BY DEF Init, TraceInit, TraceFormed
<1>4. HeaderFormed
  <2>1. <<Ask("list", None, "mount")>> \in Seq(GoodAsks)
    BY ListIsGood
  <2> QED BY <2>1 DEF Init, HeaderInit, HeaderFormed
<1>5. CallsFormed
  BY NoneUnderway DEF Init, MemoryInit, CallsFormed
<1>6. ListsFormed
  BY DEF Init, MemoryInit, NoList, ListsFormed
<1> QED BY <1>1, <1>2, <1>3, <1>4, <1>5, <1>6

LEMMA HeaderTypes == HeaderFormed => HeaderTypeOK
<1> SUFFICES ASSUME HeaderFormed PROVE HeaderTypeOK
  OBVIOUS
<1>1. asked \in Seq(Requests)
  <2>1. asked \in Seq(GoodAsks) /\ GoodAsks \subseteq Requests
    BY DEF HeaderFormed, GoodAsks
  <2> QED BY <2>1
<1> QED BY <1>1 DEF HeaderFormed, HeaderTypeOK

LEMMA TraceTypes == TraceInv /\ TraceFormed => TraceTypeOK
<1> SUFFICES ASSUME TraceInv, TraceFormed PROVE TraceTypeOK
  OBVIOUS
<1>1. wanted \in [x : Explorations, after : Nat] \cup {Nothing}
  <2> SUFFICES ASSUME wanted # Nothing PROVE wanted \in [x : Explorations, after : Nat]
    OBVIOUS
  <2>1. wanted = [x |-> wanted.x, after |-> wanted.after]
    BY DEF TraceFormed
  <2>2. wanted.x \in Explorations /\ wanted.after \in Nat
    BY DEF TraceInv, Follows
  <2> QED BY <2>1, <2>2
<1>2. replay \in [x : Explorations, seq : 1..MaxEvents] \cup {Nothing} /\ polling \in BOOLEAN
  BY DEF TraceFormed
<1>3. events \in Seq(Events) /\ Framed(frames)
  BY PrefixTyped, FramesAre
<1> QED BY <1>1, <1>2, <1>3 DEF TraceInv, LogTyped, Follows, Framed, TraceTypeOK

LEMMA DreamTypes == DreamInv /\ DreamFormed => DreamingTypeOK /\ tab \in Tabs
BY DEF DreamInv, DreamTyped, DreamFormed, DreamingTypeOK

LEMMA ModelsTypes == ModelsInv /\ ModelsFormed => ModelsTypeOK
BY DEF ModelsInv, ModelsTyped, ModelsFormed, ModelsTypeOK

(* Every variable of the console has its type, a request of the memory tab *)
(* names a record of its registry, and each of its flags says whether a    *)
(* request of its kind is under way (MemoryWorkspace.tsx).                 *)
THEOREM ConsoleTyped == Spec => []TypeOK
<1>1. ConsoleInv => TypeOK
  <2> SUFFICES ASSUME ConsoleInv PROVE TypeOK
    OBVIOUS
  <2>1. HeaderTypeOK /\ TraceTypeOK /\ DreamingTypeOK /\ ModelsTypeOK /\ tab \in Tabs
    BY HeaderTypes, TraceTypes, DreamTypes, ModelsTypes DEF ConsoleInv
  <2>2. /\ view \in Kinds \cup {"ingest"} /\ page \in 1..Pages /\ query \in Queries
        /\ filter \in [Filtered -> Filters]
    BY DEF ConsoleInv, MemInv, MemTyped
  <2>3. {due, loading, late, resolving, assigning} \subseteq BOOLEAN
    BY DEF ConsoleInv, CallsFormed, ListsFormed, Flags
  <2>4. \A k \in Kinds : /\ lists[k].at # None => lists[k].at.view = k
                         /\ detail[k].id \in Of(k) \cup {None}
    BY DEF ConsoleInv, MemInv, DialogPart, ListsFormed
  <2>5. DOMAIN calls = 1..Len(calls)
    BY DEF ConsoleInv, CallsFormed
  <2>6. \A i \in DOMAIN calls : calls[i].kind # None => calls[i].id \in Of(calls[i].kind)
    <3>1. \A i \in 1..Len(calls) : calls[i] \in Naming
      BY DEF ConsoleInv, CallsFormed
    <3> QED BY <2>5, <3>1 DEF Naming
  <2>7. \A i \in 1..Len(calls) : calls[i] \in CallSet
    <3>1. \A i \in 1..Len(calls) : calls[i] \in Naming
      BY DEF ConsoleInv, CallsFormed
    <3> QED BY <3>1 DEF Naming
  <2>8. /\ Has(calls, Loading) <=> \E i \in DOMAIN calls : calls[i].op \in {"overview", "list"}
        /\ Has(calls, ForConflict) <=> \E i \in DOMAIN calls : calls[i].for = "conflict"
        /\ Has(calls, ForAlias) <=> \E i \in DOMAIN calls : calls[i].for = "alias"
    BY <2>5, <2>7 DEF Has, Loading, ForConflict, ForAlias
  <2>9. /\ loading => Has(calls, Loading)
        /\ resolving <=> Has(calls, ForConflict)
        /\ assigning <=> Has(calls, ForAlias)
    BY DEF ConsoleInv, CallsFormed, Flags
  <2>10. unheard \in Seq(Unheard)
    BY DEF ConsoleInv, UnheardTyped
  <2> QED BY <2>1, <2>2, <2>3, <2>4, <2>6, <2>8, <2>9, <2>10 DEF TypeOK
<1>2. Init => ConsoleInv
  <2>1. Init => UnheardTyped
    BY DEF Init, MemoryInit, UnheardTyped
  <2> QED BY <2>1, ModelsStart, DreamStart, TraceStart, MemoryStart, FormedStart DEF ConsoleInv
<1>3. ConsoleInv /\ [Next]_vars => ConsoleInv'
  BY ModelsKept, DreamKept, TraceKept, MemoryKept, UnheardKept, ModelsForm, DreamForm, TraceForm,
     HeaderForm, CallsForm, ListsForm DEF ConsoleInv
<1> QED BY <1>1, <1>2, <1>3, PTL DEF Spec

(* ------------------------- the documents tab --------------------------- *)
(* Its list and its upload dialog, whatever the filters, the page sizes,   *)
(* the drops and the bounds are.                                           *)
Timers == [query : ListQueries, by : Callers, stale : BOOLEAN]
Pollers == [query : ListQueries, by : Callers]
Waits == [what : {"scan", "delete", "clear", "clearing"}, query : ListQueries]
Lists == [query : ListQueries, total : 0 .. MaxTotal, by : Callers]

(* The parts of the invariant, for a query q: the loop's request a  *)
(* and its successor p, the timer t, the interval o.                       *)
Asks(a, q) == a.query = q \/ a.by = "late"
Loop(a, p, q) ==
    /\ a \in ListRequests \cup {NoRequest} /\ p \in ListRequests \cup {NoRequest}
    /\ a # NoRequest => IF a.stale THEN p # NoRequest ELSE Asks(a, q)
    /\ p # NoRequest => ~p.stale /\ Asks(p, q)
Timed(t, q) == t \in Timers \cup {NoRequest} /\ (t # NoRequest => t.stale \/ Asks(t, q))
Repeats(o, q) == o \in Pollers /\ Asks(o, q)

UploadsInv ==
    /\ UploadsTypeOK /\ batch \in Batches \cup {NoBatch}
    /\ Waiting # {} => batch # NoBatch
ListTyped ==
    /\ picked \in ListQueries /\ saved \in [Statuses -> ListPages] /\ shown \in Lists
    /\ probe \in ListQueries \cup {NoRequest} /\ dialog \in Waits \cup {NoRequest}
    /\ broken \in BOOLEAN /\ total \in [Statuses -> 0 .. MaxTotal]
ListInv ==
    /\ ListTyped
    /\ Loop(running, pending, picked) /\ Timed(timer, picked) /\ Repeats(poller, picked)
    /\ running = NoRequest /\ ~broken => Asks(shown, picked)

LEMMA ListInvIs == ListInvariant <=> UploadsInv /\ ListInv
BY DEF ListInvariant, DocumentsTypeOK, UploadsInv, ListInv, ListTyped, Loop, Timed, Repeats,
       Asks, Meant, Timers, Pollers, Waits, Lists

(* total_pages is a page, for a filter that matches something.             *)
LEMMA PagesFit ==
    ASSUME NEW n \in Nat \ {0}, NEW k \in Nat \ {0}
    PROVE  TotalPages(n, k) \in 1..n
<1> DEFINE p == (n + k - 1) \div k
<1>1. p \in Int /\ k * p <= n + k - 1 /\ n + k - 1 < k * p + k
  OBVIOUS
<1> HIDE DEF p
<1>2. p >= 1
  <2> SUFFICES ASSUME p <= 0 PROVE FALSE BY <1>1
  <2>1. k * p <= 0 BY <1>1
  <2> QED BY <1>1, <2>1
<1>3. p <= n
  <2> SUFFICES ASSUME p >= n + 1 PROVE FALSE BY <1>1
  <2>1. k * p >= k * (n + 1) BY <1>1
  <2>2. k * (n + 1) >= n + k BY <1>1
  <2> QED BY <1>1, <2>1, <2>2
<1> QED BY <1>1, <1>2, <1>3 DEF TotalPages, p

LEMMA OneIsPage == 1 \in ListPages
BY DocumentsAssumption DEF ListPages

LEMMA LeastSize == MinSize \in Sizes
<1> SUFFICES \E n \in Sizes : \A k \in Sizes : n <= k
  BY DEF MinSize
<1>1. Sizes \in SUBSET Nat /\ Sizes # {}
  BY DocumentsAssumption
<1>2. PICK n \in Sizes : \A k \in Sizes : ~(k < n)
  BY <1>1, Least
<1>3. \A k \in Sizes : n <= k
  BY <1>1, <1>2
<1> QED BY <1>3

(* Queries and requests                                                    *)
LEMMA QueryIs ==
    ASSUME NEW q \in ListQueries
    PROVE  /\ q.filter \in Statuses /\ q.order \in Orders
           /\ q.page \in ListPages /\ q.size \in Sizes
           /\ \A p \in ListPages : /\ [q EXCEPT !.page = p] \in ListQueries
                                    /\ [q EXCEPT !.page = p, !.size = q.size] = [q EXCEPT !.page = p]
           /\ \A p \in ListPages, n \in Sizes : [q EXCEPT !.page = p, !.size = n] \in ListQueries
BY DEF ListQueries

LEMMA RequestIs ==
    ASSUME NEW kind \in {"fetch", "manual"}, NEW q \in ListQueries, NEW by \in Callers
    PROVE  LET r == Request(kind, q, by)
           IN  r \in ListRequests /\ r # NoRequest /\ ~r.stale /\ r.query = q /\ r.by = by
<1> DEFINE r == Request(kind, q, by)
<1>1. r = [kind |-> kind, query |-> q, by |-> by, stale |-> FALSE, page |-> q.page]
  BY DEF Request
<1>2. q.page \in ListPages BY QueryIs
<1> HIDE DEF r
<1>3. r \in ListRequests BY <1>1, <1>2 DEF ListRequests
<1>4. r # NoRequest BY <1>3, DocumentsAssumption
<1> QED BY <1>1, <1>3, <1>4 DEF r

LEMMA StaleIs ==
    ASSUME NEW r \in ListRequests
    PROVE  Stale(r) \in ListRequests /\ Stale(r) # NoRequest /\ Stale(r).stale
BY DocumentsAssumption DEF Stale, ListRequests

LEMMA TimerStale ==
    ASSUME NEW t \in Timers \cup {NoRequest}, NEW q
    PROVE  Timed(Stale(t), q)
<1>1. CASE t = NoRequest BY <1>1 DEF Stale, Timed
<1>2. CASE t # NoRequest
  <2>1. Stale(t) = [t EXCEPT !.stale = TRUE] BY <1>2 DEF Stale
  <2>2. t \in Timers BY <1>2
  <2> QED BY <2>1, <2>2 DEF Timed, Timers
<1> QED BY <1>1, <1>2

(* The effects of a new query mark what is under way and ask for it.       *)
LEMMA EffectsKeep ==
    ASSUME NEW q \in ListQueries, NEW l \in ListRequests \cup {NoRequest},
           timer \in Timers \cup {NoRequest}, ListEffects(q, l)
    PROVE  /\ Loop(running', pending', q) /\ running' # NoRequest
           /\ Timed(timer', q) /\ Repeats(poller', q)
<1>1. Timed(timer', q)
  BY TimerStale DEF ListEffects
<1>2. Repeats(poller', q)
  BY DEF ListEffects, Repeats, Pollers, Asks, Callers
<1> DEFINE r == Request("fetch", q, "choice")
<1>3. r \in ListRequests /\ r # NoRequest /\ ~r.stale /\ r.query = q
  BY RequestIs DEF Callers
<1> HIDE DEF r
<1>4. CASE l = NoRequest
  <2>1. running' = r /\ pending' = NoRequest BY <1>4 DEF ListEffects, r
  <2> QED BY <1>1, <1>2, <1>3, <2>1 DEF Loop, Asks
<1>5. CASE l # NoRequest
  <2>1. running' = Stale(l) /\ pending' = r BY <1>5 DEF ListEffects, r
  <2>2. Stale(l) \in ListRequests /\ Stale(l) # NoRequest /\ Stale(l).stale
    BY <1>5, StaleIs
  <2> QED BY <1>1, <1>2, <1>3, <2>1, <2>2 DEF Loop, Asks
<1> QED BY <1>4, <1>5

LEMMA EnqueueKeeps ==
    ASSUME NEW q, NEW r \in ListRequests, ~r.stale, Asks(r, q),
           Loop(running, pending, q), Enqueue(r)
    PROVE  Loop(running', pending', q) /\ running' # NoRequest
<1>1. r # NoRequest BY DocumentsAssumption
<1>2. CASE running = NoRequest
  <2>1. running' = r /\ pending' = pending BY <1>2 DEF Enqueue
  <2> QED BY <1>1, <2>1 DEF Loop
<1>3. CASE running # NoRequest
  <2>1. running' = running /\ pending' = r BY <1>3 DEF Enqueue
  <2> QED BY <1>1, <1>3, <2>1 DEF Loop
<1> QED BY <1>2, <1>3

LEMMA ThrottledKeeps ==
    ASSUME NEW q, NEW a \in ListQueries, NEW by \in Callers,
           a = q \/ by = "late",
           Loop(running, pending, q), Timed(timer, q), Throttled(a, by)
    PROVE  /\ Loop(running', pending', q) /\ Timed(timer', q)
           /\ running' = NoRequest => running = NoRequest
<1>1. CASE Fire(a, by)
  <2> DEFINE r == Request("fetch", a, by)
  <2>1. r \in ListRequests /\ ~r.stale /\ r.query = a /\ r.by = by
    BY RequestIs
  <2>2. Enqueue(r) /\ timer' = timer BY <1>1 DEF Fire
  <2> HIDE DEF r
  <2>3. Asks(r, q) BY <2>1 DEF Asks
  <2> QED BY <2>1, <2>2, <2>3, EnqueueKeeps
<1>2. CASE /\ timer' = IF timer = NoRequest THEN [query |-> a, by |-> by, stale |-> FALSE] ELSE timer
           /\ UNCHANGED <<running, pending>>
  <2> DEFINE t == [query |-> a, by |-> by, stale |-> FALSE]
  <2>1. t \in Timers /\ Asks(t, q) BY DEF Timers, Asks
  <2> HIDE DEF t
  <2>2. timer' = t \/ timer' = timer BY <1>2 DEF t
  <2>3. Timed(timer', q) BY <2>1, <2>2 DEF Timed
  <2>4. running' = running /\ pending' = pending BY <1>2
  <2> QED BY <2>3, <2>4
<1> QED BY <1>1, <1>2 DEF Throttled, loopVars

(* The loop takes up what waits.                                           *)
LEMMA NextUp ==
    ASSUME NEW q, Loop(running, pending, q)
    PROVE  Loop(pending, NoRequest, q)
BY DEF Loop

LEMMA FinishKeeps ==
    ASSUME NEW q \in ListQueries, Finish(q),
           Loop(running, pending, picked), Timed(timer, picked)
    PROVE  /\ Loop(running', pending', q) /\ Timed(timer', q)
           /\ q # picked => running' # NoRequest
<1>1. CASE q = picked
  <2>1. running' = pending /\ pending' = NoRequest /\ timer' = timer
    BY <1>1 DEF Finish
  <2> QED BY <1>1, <2>1, NextUp
<1>2. CASE q # picked
  <2>1. ListEffects(q, pending) BY <1>2 DEF Finish
  <2>2. pending \in ListRequests \cup {NoRequest} /\ timer \in Timers \cup {NoRequest}
    BY DEF Loop, Timed
  <2> QED BY <2>1, <2>2, EffectsKeep
<1> QED BY <1>1, <1>2

LEMMA ShowKeeps ==
    ASSUME ListInv, running # NoRequest, ~running.stale,
           NEW to \in ListPages, Show(running, to)
    PROVE  /\ picked' \in ListQueries /\ shown' \in Lists /\ broken' \in BOOLEAN
           /\ Loop(running', pending', picked') /\ Timed(timer', picked')
           /\ Repeats(poller', picked')
           /\ running' = NoRequest /\ ~broken' => Asks(shown', picked')
<1> DEFINE q == [picked EXCEPT !.page = to, !.size = running.query.size]
           s == Showing(running, to)
<1>0. /\ running \in ListRequests /\ Asks(running, picked)
      /\ Loop(running, pending, picked) /\ Timed(timer, picked)
      /\ picked \in ListQueries /\ total \in [Statuses -> 0 .. MaxTotal]
  BY DEF ListInv, ListTyped, Loop
<1>1. running.query \in ListQueries /\ running.by \in Callers
  BY <1>0 DEF ListRequests
<1>2. running.query.filter \in Statuses /\ running.query.size \in Sizes
  BY <1>1, QueryIs
<1>3. q \in ListQueries BY <1>0, <1>2, QueryIs
<1>4. /\ shown' = s /\ broken' = FALSE /\ picked' = q /\ Finish(q)
      /\ poller' = [query |-> q, by |-> "poll"]
  BY DEF Show
<1>5. /\ s \in Lists /\ s.query = [running.query EXCEPT !.page = to] /\ s.by = running.by
  <2>1. [running.query EXCEPT !.page = to] \in ListQueries BY <1>1, QueryIs
  <2>2. total[running.query.filter] \in 0 .. MaxTotal BY <1>0, <1>2
  <2> QED BY <1>1, <2>1, <2>2 DEF Showing, Lists
<1>6. running.query = picked => q = [running.query EXCEPT !.page = to]
  BY <1>0, QueryIs
<1> HIDE DEF q, s
<1>7. Loop(running', pending', q) /\ Timed(timer', q)
  BY <1>0, <1>3, <1>4, FinishKeeps
<1>8. Repeats(poller', q)
  BY <1>3, <1>4 DEF Repeats, Pollers, Asks, Callers
<1>9. Asks(s, q)
  BY <1>0, <1>5, <1>6 DEF Asks
<1> QED BY <1>3, <1>4, <1>5, <1>7, <1>8, <1>9

(* ------------------- what each part of a step does --------------------- *)
(* A handler that only asks for the list again, for a query a.             *)
LEMMA AsksAgain ==
    ASSUME ListInv, NEW a \in ListQueries, NEW by \in Callers,
           a = picked \/ by = "late", Throttled(a, by),
           UNCHANGED <<picked, saved, shown, poller, broken>>,
           probe' \in ListQueries \cup {NoRequest}, dialog' \in Waits \cup {NoRequest},
           total' \in [Statuses -> 0 .. MaxTotal]
    PROVE  ListInv'
<1>1. Loop(running, pending, picked) /\ Timed(timer, picked) BY DEF ListInv
<1>2. /\ Loop(running', pending', picked) /\ Timed(timer', picked)
      /\ running' = NoRequest => running = NoRequest
  BY <1>1, ThrottledKeeps
<1> QED BY <1>2 DEF ListInv, ListTyped

(* A choice: a new query, and its effects                                  *)
LEMMA ChoosesAnew ==
    ASSUME ListInv, NEW q \in ListQueries,
           NEW pages \in [Statuses -> ListPages], Choose(q, pages)
    PROVE  ListInv'
<1>1. /\ picked' = q /\ saved' = pages /\ ListEffects(q, running)
      /\ UNCHANGED <<shown, probe, dialog, broken, total>>
  BY DEF Choose
<1>2. running \in ListRequests \cup {NoRequest} /\ timer \in Timers \cup {NoRequest}
  BY DEF ListInv, Loop, Timed
<1>3. /\ Loop(running', pending', q) /\ running' # NoRequest
      /\ Timed(timer', q) /\ Repeats(poller', q)
  BY <1>1, <1>2, EffectsKeep
<1> QED BY <1>1, <1>3 DEF ListInv, ListTyped

LEMMA ChoiceKeeps == ListInv /\ Choice => ListInv'
<1> SUFFICES ASSUME ListInv, Choice PROVE ListInv'
  OBVIOUS
<1>0. picked \in ListQueries /\ saved \in [Statuses -> ListPages] /\ 1 \in ListPages
  BY OneIsPage DEF ListInv, ListTyped
<1>1. /\ picked.filter \in Statuses /\ picked.page \in ListPages /\ picked.size \in Sizes
      /\ \A p \in ListPages : [picked EXCEPT !.page = p] \in ListQueries
  BY <1>0, QueryIs
<1>2. FirstPages \in [Statuses -> ListPages]
  BY <1>0 DEF FirstPages
<1>3. ASSUME NEW p \in ListPages, ChangePage(p) PROVE ListInv'
  <2>1. Choose([picked EXCEPT !.page = p], [saved EXCEPT ![picked.filter] = p])
    BY <1>3 DEF ChangePage
  <2>2. [saved EXCEPT ![picked.filter] = p] \in [Statuses -> ListPages]
    BY <1>0
  <2> QED BY <1>1, <2>1, <2>2, ChoosesAnew
<1>4. ASSUME NEW f \in Statuses, ChangeFilter(f) PROVE ListInv'
  <2>1. Choose([picked EXCEPT !.filter = f, !.page = saved[f]],
                    [saved EXCEPT ![picked.filter] = picked.page])
    BY <1>4 DEF ChangeFilter
  <2>2. [saved EXCEPT ![picked.filter] = picked.page] \in [Statuses -> ListPages]
    BY <1>0, <1>1
  <2>3. [picked EXCEPT !.filter = f, !.page = saved[f]] \in ListQueries
    BY <1>0 DEF ListQueries
  <2> QED BY <2>1, <2>2, <2>3, ChoosesAnew
<1>5. ASSUME NEW n \in Sizes, ChangeSize(n) PROVE ListInv'
  <2>1. Choose([picked EXCEPT !.size = n, !.page = 1], FirstPages)
    BY <1>5 DEF ChangeSize
  <2>2. [picked EXCEPT !.size = n, !.page = 1] \in ListQueries
    BY <1>0 DEF ListQueries
  <2> QED BY <1>2, <2>1, <2>2, ChoosesAnew
<1>6. ASSUME NEW o \in Orders, ChangeOrder(o) PROVE ListInv'
  <2>1. Choose([picked EXCEPT !.order = o, !.page = 1], FirstPages)
    BY <1>6 DEF ChangeOrder
  <2>2. [picked EXCEPT !.order = o, !.page = 1] \in ListQueries
    BY <1>0 DEF ListQueries
  <2> QED BY <1>2, <2>1, <2>2, ChoosesAnew
<1>7. ASSUME ManualRefresh PROVE ListInv'
  <2> DEFINE r == Request("manual", picked, "choice")
  <2>1. r \in ListRequests /\ r # NoRequest /\ ~r.stale /\ r.query = picked
    BY <1>0, RequestIs DEF Callers
  <2>2. /\ running' = r /\ pending' = pending
        /\ UNCHANGED <<picked, saved, shown, timer, poller, probe, dialog, broken, total>>
    BY <1>7 DEF ManualRefresh, lateVars
  <2> HIDE DEF r
  <2>3. Loop(running', pending', picked)
    BY <2>1, <2>2 DEF ListInv, Loop, Asks
  <2>4. running' # NoRequest BY <2>1, <2>2
  <2> QED BY <2>2, <2>3, <2>4 DEF ListInv, ListTyped
<1> QED BY <1>3, <1>4, <1>5, <1>6, <1>7 DEF Choice

(* An answer, whatever the loop is doing                                   *)
LEMMA AnswersShow ==
    ASSUME ListInv, Answer
    PROVE  ListInv'
<1>0. /\ Loop(running, pending, picked) /\ Timed(timer, picked) /\ Repeats(poller, picked)
      /\ ListTyped /\ 1 \in ListPages
  BY OneIsPage DEF ListInv
<1>1. ASSUME AnswerStale PROVE ListInv'
  <2>1. /\ running # NoRequest /\ running.stale /\ running' = pending /\ pending' = NoRequest
        /\ UNCHANGED <<picked, saved, shown, timer, poller, broken, probe, dialog, total>>
    BY <1>1 DEF AnswerStale, Unchanged
  <2>2. running' # NoRequest BY <1>0, <2>1 DEF Loop
  <2>3. Loop(running', pending', picked) BY <1>0, <2>1, NextUp
  <2> QED BY <2>1, <2>2, <2>3 DEF ListInv, ListTyped
<1>2. ASSUME AnswerBeyond PROVE ListInv'
  <2> DEFINE n == total[running.query.filter]
             p == TotalPages(n, running.query.size)
  <2>1. /\ running # NoRequest /\ ~running.stale /\ Beyond(running)
        /\ running' = [running EXCEPT !.page = p] /\ pending' = pending
        /\ UNCHANGED <<picked, saved, shown, timer, poller, broken, probe, dialog, total>>
    BY <1>2 DEF AnswerBeyond, Unchanged
  <2>2. running \in ListRequests BY <1>0, <2>1 DEF Loop
  <2>3. running.query \in ListQueries BY <2>2 DEF ListRequests
  <2>4. running.query.filter \in Statuses /\ running.query.size \in Nat \ {0}
    BY <2>3, QueryIs, DocumentsAssumption
  <2>5. n \in 0 .. MaxTotal /\ n > 0 BY <1>0, <2>1, <2>4 DEF ListTyped, Beyond
  <2> HIDE DEF n
  <2>6. p \in ListPages
    <3>1. MaxTotal \in Nat BY DocumentsAssumption
    <3>2. n \in Nat \ {0} /\ n <= MaxTotal BY <2>5, <3>1
    <3>3. p \in 1..n BY <2>4, <3>2, PagesFit
    <3> QED BY <3>1, <3>2, <3>3 DEF ListPages
  <2> HIDE DEF p
  <2>7. /\ running' \in ListRequests /\ ~running'.stale
        /\ running'.query = running.query /\ running'.by = running.by
    BY <2>1, <2>2, <2>6 DEF ListRequests
  <2>8. running' # NoRequest BY <2>7, DocumentsAssumption
  <2>9. Loop(running', pending', picked) BY <1>0, <2>1, <2>7, <2>8 DEF Loop, Asks
  <2> QED BY <2>1, <2>8, <2>9 DEF ListInv, ListTyped
<1>3. ASSUME AnswerFetch PROVE ListInv'
  <2>1. /\ running # NoRequest /\ ~running.stale /\ Show(running, running.page)
        /\ saved' = [saved EXCEPT ![running.query.filter] = running.page]
        /\ UNCHANGED <<probe, dialog, total>>
    BY <1>3 DEF AnswerFetch, Unchanged
  <2>2. running.page \in ListPages BY <1>0, <2>1 DEF Loop, ListRequests
  <2>3. saved' \in [Statuses -> ListPages] BY <1>0, <2>1, <2>2 DEF ListTyped
  <2>4. /\ picked' \in ListQueries /\ shown' \in Lists /\ broken' \in BOOLEAN
        /\ Loop(running', pending', picked') /\ Timed(timer', picked')
        /\ Repeats(poller', picked')
        /\ running' = NoRequest /\ ~broken' => Asks(shown', picked')
    BY <2>1, <2>2, ShowKeeps
  <2>5. ListTyped' BY <1>0, <2>1, <2>3, <2>4 DEF ListTyped
  <2> QED BY <2>4, <2>5 DEF ListInv
<1>4. ASSUME AnswerManual PROVE ListInv'
  <2>1. running # NoRequest /\ ~running.stale /\ UNCHANGED <<probe, dialog, total>>
    BY <1>4 DEF AnswerManual, Unchanged
  <2>2. CASE Shrinks(running)
    <3> DEFINE q == [picked EXCEPT !.page = 1, !.size = MinSize]
    <3>1. /\ picked' = q /\ saved' = FirstPages /\ ListEffects(q, pending)
          /\ shown' = shown /\ broken' = broken
      BY <1>4, <2>2 DEF AnswerManual
    <3>2. q \in ListQueries BY <1>0, QueryIs, LeastSize DEF ListTyped
    <3> HIDE DEF q
    <3>3. pending \in ListRequests \cup {NoRequest} /\ timer \in Timers \cup {NoRequest}
      BY <1>0 DEF Loop, Timed
    <3>4. /\ Loop(running', pending', q) /\ running' # NoRequest
          /\ Timed(timer', q) /\ Repeats(poller', q)
      BY <3>1, <3>2, <3>3, EffectsKeep
    <3>5. saved' \in [Statuses -> ListPages] BY <1>0, <3>1 DEF FirstPages
    <3>6. ListTyped' BY <1>0, <2>1, <3>1, <3>2, <3>5 DEF ListTyped
    <3> QED BY <3>1, <3>4, <3>6 DEF ListInv
  <2>3. CASE ~Shrinks(running)
    <3>1. Show(running, 1) /\ saved' = saved
      BY <1>4, <2>3 DEF AnswerManual
    <3>2. /\ picked' \in ListQueries /\ shown' \in Lists /\ broken' \in BOOLEAN
          /\ Loop(running', pending', picked') /\ Timed(timer', picked')
          /\ Repeats(poller', picked')
          /\ running' = NoRequest /\ ~broken' => Asks(shown', picked')
      BY <1>0, <2>1, <3>1, ShowKeeps
    <3>3. ListTyped' BY <1>0, <2>1, <3>1, <3>2 DEF ListTyped
    <3> QED BY <3>2, <3>3 DEF ListInv
  <2> QED BY <2>2, <2>3
<1>5. AnswerStale \/ AnswerBeyond \/ AnswerFetch \/ AnswerManual
  BY DEF Answer
<1> QED BY <1>1, <1>2, <1>3, <1>4, <1>5

LEMMA FailureKeeps == ListInv /\ RefreshFails => ListInv'
<1> SUFFICES ASSUME ListInv, RefreshFails PROVE ListInv'
  OBVIOUS
<1>1. /\ broken' = TRUE /\ running' = pending /\ pending' = NoRequest
      /\ UNCHANGED <<picked, saved, shown, timer, poller, probe, dialog, total>>
  BY DEF RefreshFails, Unchanged
<1>2. Loop(running', pending', picked) BY <1>1, NextUp DEF ListInv
<1> QED BY <1>1, <1>2 DEF ListInv, ListTyped

(* The throttle, the interval and the server's news                        *)
LEMMA ClockKeeps ==
    ASSUME ListInv,
           \/ ThrottleFires \/ PollList
           \/ \E f \in Statuses, n \in 0 .. MaxTotal : DocumentsChange(f, n)
    PROVE  ListInv'
<1>0. /\ Loop(running, pending, picked) /\ Timed(timer, picked) /\ Repeats(poller, picked)
      /\ ListTyped
  BY DEF ListInv
<1>1. ASSUME ThrottleFires PROVE ListInv'
  <2>1. /\ timer # NoRequest /\ timer' = NoRequest
        /\ UNCHANGED <<picked, saved, shown, poller, probe, dialog, broken, total>>
    BY <1>1 DEF ThrottleFires
  <2>2. Timed(timer', picked) BY <2>1 DEF Timed
  <2>3. CASE timer.stale
    <3>1. running' = running /\ pending' = pending
      BY <1>1, <2>3 DEF ThrottleFires, loopVars
    <3> QED BY <2>1, <2>2, <3>1 DEF ListInv, ListTyped
  <2>4. CASE ~timer.stale
    <3> DEFINE r == Request("fetch", timer.query, timer.by)
    <3>1. timer.query \in ListQueries /\ timer.by \in Callers /\ Asks(timer, picked)
      BY <1>0, <2>1, <2>4 DEF Timed, Timers
    <3>2. /\ r \in ListRequests /\ ~r.stale /\ r.query = timer.query /\ r.by = timer.by
      BY <3>1, RequestIs
    <3>3. Enqueue(r) BY <1>1, <2>4 DEF ThrottleFires
    <3> HIDE DEF r
    <3>4. Asks(r, picked) BY <3>1, <3>2 DEF Asks
    <3>5. Loop(running', pending', picked) /\ running' # NoRequest
      BY <1>0, <3>2, <3>3, <3>4, EnqueueKeeps
    <3> QED BY <2>1, <2>2, <3>5 DEF ListInv, ListTyped
  <2> QED BY <2>3, <2>4
<1>2. ASSUME PollList PROVE ListInv'
  <2>1. /\ Throttled(poller.query, poller.by)
        /\ UNCHANGED <<picked, saved, shown, poller, probe, dialog, broken, total>>
    BY <1>2 DEF PollList
  <2>2. /\ poller.query \in ListQueries /\ poller.by \in Callers
        /\ poller.query = picked \/ poller.by = "late"
    BY <1>0 DEF Repeats, Pollers, Asks
  <2> QED BY <1>0, <2>1, <2>2, AsksAgain DEF ListTyped
<1>3. ASSUME NEW f \in Statuses, NEW n \in 0 .. MaxTotal, DocumentsChange(f, n) PROVE ListInv'
  <2>1. /\ Throttled(picked, "poll") /\ total' = [total EXCEPT ![f] = n]
        /\ UNCHANGED <<picked, saved, shown, poller, probe, dialog, broken>>
    BY <1>3 DEF DocumentsChange
  <2>2. picked \in ListQueries /\ "poll" \in Callers BY <1>0 DEF ListTyped, Callers
  <2>3. total' \in [Statuses -> 0 .. MaxTotal] BY <1>0, <2>1 DEF ListTyped
  <2> QED BY <1>0, <2>1, <2>2, <2>3, AsksAgain DEF ListTyped
<1> QED BY <1>1, <1>2, <1>3

(* The late callbacks                                                      *)
LEMMA LateKeeps == ListInv /\ SlowSteps => ListInv'
<1> SUFFICES ASSUME ListInv, SlowSteps PROVE ListInv'
  OBVIOUS
<1>0. /\ Loop(running, pending, picked) /\ Timed(timer, picked) /\ Repeats(poller, picked)
      /\ ListTyped
  BY DEF ListInv
<1>1. dialog # NoRequest => dialog \in Waits /\ dialog.query \in ListQueries
  BY <1>0 DEF ListTyped, Waits
<1>2. "late" \in Callers BY DEF Callers
<1>3. ASSUME NEW what \in {"scan", "delete", "clear"}, StartSlow(what) PROVE ListInv'
  <2>1. /\ dialog' = [what |-> what, query |-> picked]
        /\ UNCHANGED <<picked, saved, shown, running, pending, timer, poller, probe, broken, total>>
    BY <1>3 DEF StartSlow, loopVars
  <2>2. dialog' \in Waits BY <1>0, <2>1 DEF Waits, ListTyped
  <2> QED BY <2>1, <2>2 DEF ListInv, ListTyped
<1>4. ASSUME SlowRefused PROVE ListInv'
  BY <1>4 DEF SlowRefused, loopVars, ListInv, ListTyped
<1>5. ASSUME ProbeStarts PROVE ListInv'
  BY <1>1, <1>5 DEF ProbeStarts, loopVars, ListInv, ListTyped
<1>6. ASSUME RefreshAfter PROVE ListInv'
  <2>1. /\ dialog # NoRequest /\ Throttled(dialog.query, "late") /\ dialog' = NoRequest
        /\ UNCHANGED <<picked, saved, shown, poller, probe, broken, total>>
    BY <1>6 DEF RefreshAfter
  <2> QED BY <1>0, <1>1, <1>2, <2>1, AsksAgain DEF ListTyped
<1>7. ASSUME ProbeTick PROVE ListInv'
  <2>1. /\ probe # NoRequest /\ Throttled(probe, "late")
        /\ UNCHANGED <<picked, saved, shown, poller, probe, dialog, broken, total>>
    BY <1>7 DEF ProbeTick
  <2>2. probe \in ListQueries BY <1>0, <2>1 DEF ListTyped
  <2> QED BY <1>0, <1>2, <2>1, <2>2, AsksAgain DEF ListTyped
<1>8. ASSUME ProbeEnds PROVE ListInv'
  BY <1>8 DEF ProbeEnds, loopVars, ListInv, ListTyped
<1>9. ASSUME DeletionStarted \/ ClearConfirmed PROVE ListInv'
  <2>1. /\ dialog # NoRequest /\ poller' = [query |-> dialog.query, by |-> "late"] /\ dialog' = NoRequest
        /\ UNCHANGED <<picked, saved, shown, running, pending, timer, probe, broken, total>>
    BY <1>9 DEF DeletionStarted, ClearConfirmed, loopVars
  <2>2. Repeats(poller', picked) BY <1>1, <1>2, <2>1 DEF Repeats, Pollers, Asks
  <2> QED BY <2>1, <2>2 DEF ListInv, ListTyped
<1>10. ASSUME Cleared PROVE ListInv'
  <2> DEFINE q == [picked EXCEPT !.page = dialog.query.page, !.size = dialog.query.size]
             r == Request("fetch", dialog.query, "late")
             l == IF running = NoRequest THEN r ELSE running
  <2>1. /\ dialog # NoRequest /\ total' = [f \in Statuses |-> 0] /\ picked' = q
        /\ dialog' = [dialog EXCEPT !.what = "clearing"]
        /\ UNCHANGED <<saved, shown, probe, broken>>
        /\ q = picked => /\ Enqueue(r) /\ timer' = timer
                         /\ poller' = [query |-> q, by |-> "poll"]
        /\ q # picked => ListEffects(q, l)
    BY <1>10 DEF Cleared
  <2>2. dialog.query.page \in ListPages /\ dialog.query.size \in Sizes
    BY <1>1, <2>1, QueryIs
  <2>3. q \in ListQueries BY <1>0, <2>2, QueryIs DEF ListTyped
  <2>4. r \in ListRequests /\ r # NoRequest /\ ~r.stale /\ r.by = "late"
    BY <1>1, <1>2, <2>1, RequestIs
  <2>5. l \in ListRequests \cup {NoRequest} BY <1>0, <2>4 DEF Loop
  <2> HIDE DEF q, r, l
  <2>6. /\ Loop(running', pending', q) /\ running' # NoRequest
        /\ Timed(timer', q) /\ Repeats(poller', q)
    <3>1. ASSUME q = picked
          PROVE  /\ Loop(running', pending', q) /\ running' # NoRequest
                 /\ Timed(timer', q) /\ Repeats(poller', q)
      <4>1. Asks(r, picked) BY <2>4 DEF Asks
      <4>2. Enqueue(r) /\ timer' = timer /\ poller' = [query |-> q, by |-> "poll"]
        BY <2>1, <3>1
      <4>3. Loop(running', pending', picked) /\ running' # NoRequest
        BY <1>0, <2>4, <4>1, <4>2, EnqueueKeeps
      <4>4. Repeats(poller', q) BY <2>3, <4>2 DEF Repeats, Pollers, Asks, Callers
      <4> QED BY <1>0, <3>1, <4>2, <4>3, <4>4
    <3>2. ASSUME q # picked
          PROVE  /\ Loop(running', pending', q) /\ running' # NoRequest
                 /\ Timed(timer', q) /\ Repeats(poller', q)
      <4>1. ListEffects(q, l) BY <2>1, <3>2
      <4>2. timer \in Timers \cup {NoRequest} BY <1>0 DEF Timed
      <4> QED BY <2>3, <2>5, <4>1, <4>2, EffectsKeep
    <3> QED BY <3>1, <3>2
  <2>7. dialog' \in Waits BY <1>1, <2>1 DEF Waits
  <2>8. total' \in [Statuses -> 0 .. MaxTotal]
    BY <2>1, DocumentsAssumption
  <2> QED BY SMTT(60), <1>0, <2>1, <2>3, <2>6, <2>7, <2>8 DEF ListInv, ListTyped
<1> QED BY <1>3, <1>4, <1>5, <1>6, <1>7, <1>8, <1>9, <1>10 DEF SlowSteps

(* A step of the list, and one of the uploads                              *)
LEMMA ListSteps == ListInv /\ ListNext => ListInv'
<1>1. ListNext =>
          \/ Choice \/ Answer \/ RefreshFails \/ SlowSteps
          \/ ThrottleFires \/ PollList
          \/ \E f \in Statuses, n \in 0 .. MaxTotal : DocumentsChange(f, n)
  BY DEF ListNext
<1> QED BY <1>1, ChoiceKeeps, AnswersShow, FailureKeeps, LateKeeps, ClockKeeps

LEMMA ListRests == ListInv /\ UNCHANGED listVars => ListInv'
BY DEF ListInv, ListTyped, listVars, loopVars, lateVars, countVars

LEMMA UploadsRest ==
    ASSUME UNCHANGED uploadVars
    PROVE  (UploadsInv => UploadsInv') /\ (VerdictsShown => VerdictsShown')
BY DEF UploadsInv, uploadVars, UploadsTypeOK, Waiting, VerdictsShown

(* The page's batch asks for the list with the callbacks of its drop.      *)
LEMMA UploadAsks ==
    ASSUME ListInv, UploadsInv, NEW i \in DOMAIN files, NEW taken \in BOOLEAN,
           UploadAnswers(i, taken)
    PROVE  ListInv'
<1>1. batch \in Batches
  <2>1. i \in Waiting
    BY DEF UploadAnswers, Uploaded, UploadTurn
  <2> QED BY <2>1 DEF UploadsInv
<1>2. batch.query \in ListQueries BY <1>1 DEF Batches
<1>3. /\ probe' = batch.query \/ probe' = probe
      /\ Throttled(batch.query, "late") \/ UNCHANGED <<running, pending, timer>>
      /\ UNCHANGED <<picked, saved, shown, poller, dialog, broken, total>>
  BY DEF UploadAnswers, loopVars
<1>4. probe' \in ListQueries \cup {NoRequest} BY <1>2, <1>3 DEF ListInv, ListTyped
<1>5. CASE Throttled(batch.query, "late")
  <2>1. "late" \in Callers /\ dialog' \in Waits \cup {NoRequest}
        /\ total' \in [Statuses -> 0 .. MaxTotal]
    BY <1>3 DEF Callers, ListInv, ListTyped
  <2> QED BY <1>2, <1>3, <1>4, <1>5, <2>1, AsksAgain
<1>6. CASE UNCHANGED <<running, pending, timer>>
  BY <1>3, <1>4, <1>6 DEF ListInv, ListTyped
<1> QED BY <1>3, <1>5, <1>6

Verdicts == {"waiting", "taken", "refused"}
CardSet == [name : Nat, listed : BOOLEAN, verdict : Verdicts]
Dropping == [name : Nat, fits : BOOLEAN]

(* Array.prototype.concat                                                  *)
LEMMA Concatenated ==
    ASSUME NEW S, NEW s \in Seq(S), NEW e \in Seq(S)
    PROVE  /\ s \o e \in Seq(S) /\ Len(s \o e) = Len(s) + Len(e)
           /\ \A k \in 1..Len(s) : (s \o e)[k] = s[k]
           /\ \A k \in 1..Len(e) : (s \o e)[Len(s) + k] = e[k]
<1> DEFINE n == Len(s)
           m == Len(e)
<1>1. /\ s \o e \in Seq(S) /\ Len(s \o e) = n + m
      /\ \A k \in 1..(n + m) : (s \o e)[k] = IF k <= n THEN s[k] ELSE e[k - n]
  BY ConcatProperties
<1>2. n \in Nat /\ m \in Nat OBVIOUS
<1> HIDE DEF n, m
<1>3. ASSUME NEW k \in 1..n PROVE (s \o e)[k] = s[k]
  <2>1. k \in 1..(n + m) /\ k <= n BY <1>2
  <2> QED BY <1>1, <2>1
<1>4. ASSUME NEW k \in 1..m PROVE (s \o e)[n + k] = e[k]
  <2>1. n + k \in 1..(n + m) /\ ~(n + k <= n) /\ (n + k) - n = k BY <1>2
  <2>2. (s \o e)[n + k] = e[(n + k) - n] BY <1>1, <2>1
  <2> QED BY <2>1, <2>2
<1> QED BY <1>1, <1>3, <1>4 DEF n, m

LEMMA CardsAre ==
    ASSUME NEW fs \in Seq(Dropping), NEW v \in Verdicts
    PROVE  /\ Cards(fs, v) \in Seq(CardSet) /\ Len(Cards(fs, v)) = Len(fs)
           /\ \A k \in 1..Len(fs) : /\ Cards(fs, v)[k].name = fs[k].name
                                    /\ Cards(fs, v)[k].verdict = v
<1> DEFINE c == Cards(fs, v)
<1>0. DOMAIN fs = 1..Len(fs) OBVIOUS
<1>1. c = [k \in 1..Len(fs) |-> [name |-> fs[k].name, listed |-> TRUE, verdict |-> v]]
  BY <1>0 DEF Cards, Card
<1>2. ASSUME NEW k \in 1..Len(fs) PROVE fs[k].name \in Nat
  <2>1. fs[k] \in Dropping OBVIOUS
  <2> QED BY <2>1 DEF Dropping
<1> HIDE DEF c
<1>3. c \in [1..Len(fs) -> CardSet]
  BY <1>1, <1>2 DEF CardSet, Verdicts
<1>4. c \in Seq(CardSet)
  BY <1>3
<1>5. Len(c) = Len(fs)
  BY <1>3
<1> QED BY <1>1, <1>4, <1>5 DEF c

(* What a drop appends: cards that wait, then cards that were refused.     *)
LEMMA DropAppends ==
    ASSUME UploadsInv, NEW d \in Drops, NEW q, DropBatch(d, q)
    PROVE  \E good, bad \in Seq(Dropping) :
              LET n == Len(files)
                  g == Len(good)
                  b == Len(bad)
              IN  /\ batch = NoBatch /\ Waiting = {} /\ fileTypes = "known" /\ fileTypes' = fileTypes
                  /\ files' \in Seq(CardSet) /\ Len(files') = n + g + b
                  /\ \A k \in 1..n : files'[k] = files[k]
                  /\ \A k \in 1..g : files'[n + k].name = good[k].name
                                     /\ files'[n + k].verdict = "waiting"
                  /\ \A k \in 1..b : files'[n + g + k].name = bad[k].name
                                     /\ files'[n + g + k].verdict = "refused"
                  /\ errors' = (errors \cup NamesOf(bad)) \ NamesOf(good)
                  /\ batch' = IF good = <<>> THEN NoBatch ELSE [query |-> q, taken |-> FALSE]
<1> DEFINE good == Kept(d, Droppable(TRUE))
           bad == Kept(d, Droppable(FALSE))
           G == Cards(good, "waiting")
           B == Cards(bad, "refused")
           n == Len(files)
           g == Len(good)
           b == Len(bad)
<1>1. d \in Seq(Dropping) BY UploadsAssumption DEF Dropping
<1>2. \A set : Kept(d, set) = Kept(d, set)
  BY DEF Kept, Kept
<1>3. good \in Seq(Dropping) /\ bad \in Seq(Dropping)
  BY <1>1, <1>2, KeptTyped
<1>4. /\ batch = NoBatch /\ fileTypes = "known" /\ fileTypes' = fileTypes
      /\ files' = (files \o G) \o B
      /\ errors' = (errors \cup NamesOf(bad)) \ NamesOf(good)
      /\ batch' = IF good = <<>> THEN NoBatch ELSE [query |-> q, taken |-> FALSE]
  BY DEF DropBatch, ErrorsAfter
<1>5. Waiting = {} BY <1>4 DEF UploadsInv
<1>6. files \in Seq(CardSet) BY DEF UploadsInv, UploadsTypeOK, CardSet, Verdicts
<1> HIDE DEF good, bad
<1>7. /\ G \in Seq(CardSet) /\ Len(G) = g
      /\ \A k \in 1..g : G[k].name = good[k].name /\ G[k].verdict = "waiting"
  BY <1>3, CardsAre DEF Verdicts
<1>8. /\ B \in Seq(CardSet) /\ Len(B) = b
      /\ \A k \in 1..b : B[k].name = bad[k].name /\ B[k].verdict = "refused"
  BY <1>3, CardsAre DEF Verdicts
<1>9. n \in Nat /\ g \in Nat /\ b \in Nat BY <1>3, <1>6
<1> HIDE DEF G, B, n, g, b
<1>10. /\ files \o G \in Seq(CardSet) /\ Len(files \o G) = n + g
       /\ \A k \in 1..n : (files \o G)[k] = files[k]
       /\ \A k \in 1..g : (files \o G)[n + k] = G[k]
  <2>1. /\ files \o G \in Seq(CardSet) /\ Len(files \o G) = Len(files) + Len(G)
        /\ \A k \in 1..Len(files) : (files \o G)[k] = files[k]
        /\ \A k \in 1..Len(G) : (files \o G)[Len(files) + k] = G[k]
    <3>1. files \in Seq(CardSet) /\ G \in Seq(CardSet) BY <1>6, <1>7
    <3>2. files \o G \in Seq(CardSet) /\ Len(files \o G) = Len(files) + Len(G)
      BY <3>1, Concatenated
    <3>3. \A k \in 1..Len(files) : (files \o G)[k] = files[k] BY <3>1, Concatenated
    <3>4. \A k \in 1..Len(G) : (files \o G)[Len(files) + k] = G[k] BY <3>1, Concatenated
    <3> QED BY <3>2, <3>3, <3>4
  <2> QED BY <2>1, <1>7 DEF n
<1> DEFINE F == files \o G
           m == n + g
<1>11. /\ F \o B \in Seq(CardSet) /\ Len(F \o B) = m + b
       /\ \A k \in 1..m : (F \o B)[k] = F[k]
       /\ \A k \in 1..b : (F \o B)[m + k] = B[k]
  <2>1. F \in Seq(CardSet) /\ Len(F) = m BY <1>10
  <2> HIDE DEF F, m
  <2>2. /\ F \o B \in Seq(CardSet) /\ Len(F \o B) = Len(F) + Len(B)
        /\ \A k \in 1..Len(F) : (F \o B)[k] = F[k]
        /\ \A k \in 1..Len(B) : (F \o B)[Len(F) + k] = B[k]
    <3>1. F \in Seq(CardSet) /\ B \in Seq(CardSet) BY <1>8, <2>1
    <3>2. F \o B \in Seq(CardSet) /\ Len(F \o B) = Len(F) + Len(B)
      BY <3>1, Concatenated
    <3>3. \A k \in 1..Len(F) : (F \o B)[k] = F[k] BY <3>1, Concatenated
    <3>4. \A k \in 1..Len(B) : (F \o B)[Len(F) + k] = B[k] BY <3>1, Concatenated
    <3> QED BY <3>2, <3>3, <3>4
  <2> QED BY <2>1, <2>2, <1>8
<1>12. files' = F \o B BY <1>4
<1> HIDE DEF F
<1>13. ASSUME NEW k \in 1..n PROVE files'[k] = files[k]
  <2>1. k \in 1..m BY <1>9
  <2>2. F[k] = files[k] BY <1>10 DEF F
  <2> QED BY <1>11, <1>12, <2>1, <2>2
<1>14. ASSUME NEW k \in 1..g PROVE files'[n + k] = G[k]
  <2>1. n + k \in 1..m BY <1>9
  <2>2. F[n + k] = G[k] BY <1>10 DEF F
  <2> QED BY <1>11, <1>12, <2>1, <2>2
<1>15. ASSUME NEW k \in 1..b PROVE files'[n + g + k] = B[k]
  BY <1>11, <1>12
<1>16. \A k \in 1..g : files'[n + k].name = good[k].name /\ files'[n + k].verdict = "waiting"
  BY <1>7, <1>14
<1>17. \A k \in 1..b : files'[n + g + k].name = bad[k].name /\ files'[n + g + k].verdict = "refused"
  BY <1>8, <1>15
<1>18. files' \in Seq(CardSet) /\ Len(files') = n + g + b
  BY <1>11, <1>12
<1> QED
  <2> DEFINE P(x, y) ==
          /\ batch = NoBatch /\ Waiting = {} /\ fileTypes = "known" /\ fileTypes' = fileTypes
          /\ files' \in Seq(CardSet) /\ Len(files') = Len(files) + Len(x) + Len(y)
          /\ \A k \in 1..Len(files) : files'[k] = files[k]
          /\ \A k \in 1..Len(x) : files'[Len(files) + k].name = x[k].name
                                  /\ files'[Len(files) + k].verdict = "waiting"
          /\ \A k \in 1..Len(y) : files'[Len(files) + Len(x) + k].name = y[k].name
                                  /\ files'[Len(files) + Len(x) + k].verdict = "refused"
          /\ errors' = (errors \cup NamesOf(y)) \ NamesOf(x)
          /\ batch' = IF x = <<>> THEN NoBatch ELSE [query |-> q, taken |-> FALSE]
  <2>1. P(good, bad) BY <1>4, <1>5, <1>13, <1>16, <1>17, <1>18 DEF n, g, b
  <2> HIDE DEF P
  <2>2. \E x, y \in Seq(Dropping) : P(x, y) BY <1>3, <2>1
  <2> QED BY <2>2 DEF P

LEMMA FilesAre ==
    ASSUME UploadsInv
    PROVE  /\ files \in Seq(CardSet) /\ Len(files) \in Nat /\ DOMAIN files = 1..Len(files)
           /\ errors \subseteq Nat /\ batch \in Batches \cup {NoBatch}
BY DEF UploadsInv, UploadsTypeOK, CardSet, Verdicts

(* The card at a place of a longer list: an old one, a new one that waits, *)
(* or a new one that was refused.                                          *)
Placed(i, n, g, b) ==
    \/ i \in 1..n
    \/ \E k \in 1..g : i = n + k
    \/ \E k \in 1..b : i = n + g + k

LEMMA PlaceOf ==
    ASSUME NEW n \in Nat, NEW g \in Nat, NEW b \in Nat, NEW i \in 1..(n + g + b)
    PROVE  Placed(i, n, g, b)
<1> USE DEF Placed
<1>1. CASE i <= n BY <1>1
<1>2. CASE i > n /\ i <= n + g
  <2>1. i - n \in 1..g /\ i = n + (i - n) BY <1>2
  <2> QED BY <2>1
<1>3. CASE i > n + g
  <2>1. i - (n + g) \in 1..b /\ i = n + g + (i - (n + g)) BY <1>3
  <2> QED BY <2>1
<1> QED BY <1>1, <1>2, <1>3

LEMMA DropKeeps ==
    ASSUME UploadsInv, NEW d \in Drops, NEW q \in ListQueries, DropBatch(d, q)
    PROVE  UploadsInv' /\ (VerdictsShown => VerdictsShown')
<1> DEFINE n == Len(files)
<1>1. PICK good, bad \in Seq(Dropping) :
          /\ batch = NoBatch /\ Waiting = {} /\ fileTypes = "known" /\ fileTypes' = fileTypes
          /\ files' \in Seq(CardSet) /\ Len(files') = n + Len(good) + Len(bad)
          /\ \A k \in 1..n : files'[k] = files[k]
          /\ \A k \in 1..Len(good) : files'[n + k].name = good[k].name
                                     /\ files'[n + k].verdict = "waiting"
          /\ \A k \in 1..Len(bad) : files'[n + Len(good) + k].name = bad[k].name
                                    /\ files'[n + Len(good) + k].verdict = "refused"
          /\ errors' = (errors \cup NamesOf(bad)) \ NamesOf(good)
          /\ batch' = IF good = <<>> THEN NoBatch ELSE [query |-> q, taken |-> FALSE]
  BY DropAppends
<1> DEFINE g == Len(good)
           b == Len(bad)
<1>2. /\ n \in Nat /\ g \in Nat /\ b \in Nat
      /\ DOMAIN files = 1..n /\ DOMAIN files' = 1..(n + g + b)
  BY <1>1, FilesAre
<1>3. /\ NamesOf(good) = {good[k].name : k \in 1..g}
      /\ NamesOf(bad) = {bad[k].name : k \in 1..b}
  BY DEF NamesOf
<1>4. errors' \subseteq Nat
  <2>1. ASSUME NEW k \in 1..b PROVE bad[k].name \in Nat
    <3>1. bad[k] \in Dropping BY <2>1
    <3> QED BY <3>1 DEF Dropping
  <2> QED BY SMTT(60), <1>1, <1>3, <2>1, FilesAre
<1>5. batch' \in Batches \cup {NoBatch}
  BY <1>1 DEF Batches
<1>6. good # <<>> => batch' # NoBatch
  <2> DEFINE t == [query |-> q, taken |-> FALSE]
  <2>1. t \in Batches BY DEF Batches
  <2>2. good # <<>> => batch' = t BY <1>1
  <2> HIDE DEF t
  <2> QED BY <2>1, <2>2, DocumentsAssumption
<1>7. good = <<>> => g = 0 OBVIOUS
<1> HIDE DEF n, g, b
<1>8. Waiting' # {} => batch' # NoBatch
  <2> SUFFICES ASSUME NEW i \in DOMAIN files', files'[i].verdict = "waiting" PROVE good # <<>>
    BY <1>6 DEF Waiting
  <2>1. i \in 1..(n + g + b) BY <1>2
  <2>2. CASE i \in 1..n
    <3>1. files[i].verdict = "waiting" BY <1>1, <2>2 DEF n
    <3> QED BY <1>1, <1>2, <2>2, <3>1 DEF Waiting
  <2>3. CASE \E k \in 1..g : i = n + k
    BY <1>7, <2>3
  <2>4. CASE \E k \in 1..b : i = n + g + k
    BY <1>1, <2>4 DEF n, g, b
  <2>5. \/ i \in 1..n
        \/ \E k \in 1..g : i = n + k
        \/ \E k \in 1..b : i = n + g + k
    <3>1. n \in Nat /\ g \in Nat /\ b \in Nat BY <1>2
    <3>2. Placed(i, n, g, b) BY <2>1, <3>1, PlaceOf
    <3> QED BY <3>2 DEF Placed
  <2> QED BY <2>2, <2>3, <2>4, <2>5
<1>9. UploadsInv'
  <2>1. UploadsTypeOK'
    <3>1. files' \in Seq([name : Nat, listed : BOOLEAN, verdict : {"waiting", "taken", "refused"}])
      BY <1>1 DEF CardSet, Verdicts
    <3> QED BY <1>1, <1>4, <3>1 DEF UploadsTypeOK
  <2> QED BY <1>5, <1>8, <2>1 DEF UploadsInv
<1>10. ASSUME VerdictsShown, NEW i \in DOMAIN files',
              \A j \in DOMAIN files' \ {i} : files'[j].name # files'[i].name
       PROVE  files'[i].name \in errors' <=> files'[i].verdict = "refused"
  <2>1. i \in 1..(n + g + b) BY <1>2
  <2>2. ASSUME NEW k \in 1..g, files'[i].name = good[k].name PROVE i = n + k
    <3>1. n + k \in 1..(n + g + b) BY <1>2
    <3>2. files'[n + k].name = files'[i].name BY <1>1, <2>2 DEF n, g
    <3> QED BY <1>2, <1>10, <3>1, <3>2
  <2>3. ASSUME NEW k \in 1..b, files'[i].name = bad[k].name PROVE i = n + g + k
    <3>1. n + g + k \in 1..(n + g + b) BY <1>2
    <3>2. files'[n + g + k].name = files'[i].name BY <1>1, <2>3 DEF n, g, b
    <3> QED BY <1>2, <1>10, <3>1, <3>2
  <2>4. CASE i \in 1..n
    <3>1. files'[i] = files[i] BY <1>1, <2>4 DEF n
    <3>2. files'[i].name \notin NamesOf(good)
      <4>1. ASSUME NEW k \in 1..g PROVE i # n + k BY <1>2, <2>4
      <4> QED BY <1>3, <2>2, <4>1
    <3>3. files'[i].name \notin NamesOf(bad)
      <4>1. ASSUME NEW k \in 1..b PROVE i # n + g + k BY <1>2, <2>4
      <4> QED BY <1>3, <2>3, <4>1
    <3>4. \A j \in DOMAIN files \ {i} : files[j].name # files[i].name
      <4> SUFFICES ASSUME NEW j \in DOMAIN files \ {i} PROVE files[j].name # files[i].name
        OBVIOUS
      <4>1. j \in 1..n /\ j \in 1..(n + g + b) /\ files'[j] = files[j] BY <1>1, <1>2 DEF n
      <4> QED BY <1>2, <1>10, <3>1, <4>1
    <3>5. files[i].name \in errors <=> files[i].verdict = "refused"
      BY <1>2, <1>10, <2>4, <3>4 DEF VerdictsShown
    <3> QED BY <1>1, <3>1, <3>2, <3>3, <3>5
  <2>5. ASSUME NEW k \in 1..g, i = n + k
        PROVE  files'[i].name \in errors' <=> files'[i].verdict = "refused"
    <3>1. files'[i].name = good[k].name /\ files'[i].verdict = "waiting"
      BY <1>1, <2>5 DEF n, g
    <3>2. files'[i].name \in NamesOf(good) BY <1>3, <3>1
    <3> QED BY <1>1, <3>1, <3>2
  <2>6. ASSUME NEW k \in 1..b, i = n + g + k
        PROVE  files'[i].name \in errors' <=> files'[i].verdict = "refused"
    <3>1. files'[i].name = bad[k].name /\ files'[i].verdict = "refused"
      BY <1>1, <2>6 DEF n, g, b
    <3>2. files'[i].name \in NamesOf(bad) BY <1>3, <3>1
    <3>3. files'[i].name \notin NamesOf(good)
      <4>1. ASSUME NEW m \in 1..g PROVE i # n + m BY <1>2, <2>6
      <4> QED BY <1>3, <2>2, <4>1
    <3> QED BY <1>1, <3>1, <3>2, <3>3
  <2>7. \/ i \in 1..n
        \/ \E k \in 1..g : i = n + k
        \/ \E k \in 1..b : i = n + g + k
    <3>1. n \in Nat /\ g \in Nat /\ b \in Nat BY <1>2
    <3>2. Placed(i, n, g, b) BY <2>1, <3>1, PlaceOf
    <3> QED BY <3>2 DEF Placed
  <2> QED BY <2>4, <2>5, <2>6, <2>7
<1>11. VerdictsShown => VerdictsShown'
  BY <1>10 DEF VerdictsShown
<1> QED BY <1>9, <1>11

(* A verdict arrives: the names stay, and so do the other verdicts.        *)
LEMMA UploadKeeps ==
    ASSUME UploadsInv, NEW i \in DOMAIN files, NEW taken \in BOOLEAN,
           Uploaded(i, taken)
    PROVE  UploadsInv' /\ (VerdictsShown => VerdictsShown')
<1> DEFINE v == IF taken THEN "taken" ELSE "refused"
           c == [files[i] EXCEPT !.verdict = v]
<1>0. /\ files \in Seq(CardSet) /\ DOMAIN files = 1..Len(files) /\ errors \subseteq Nat
  BY FilesAre
<1>1. /\ i \in Waiting /\ files[i].verdict = "waiting" /\ batch \in Batches
  BY DEF Uploaded, UploadTurn, Waiting, UploadsInv
<1>2. /\ files' = [files EXCEPT ![i] = c]
      /\ errors' = IF taken THEN errors ELSE errors \cup {files[i].name}
      /\ batch' = IF Waiting = {i} THEN NoBatch
                  ELSE [batch EXCEPT !.taken = batch.taken \/ taken]
      /\ fileTypes' = fileTypes
  BY DEF Uploaded
<1>3. files[i] \in CardSet BY <1>0
<1>4. c \in CardSet /\ c.name = files[i].name /\ c.verdict = v
  BY <1>3 DEF CardSet, Verdicts
<1> HIDE DEF c
<1>5. /\ files' \in Seq(CardSet) /\ DOMAIN files' = DOMAIN files /\ files'[i] = c
      /\ \A j \in DOMAIN files \ {i} : files'[j] = files[j]
  BY <1>0, <1>2, <1>4
<1>6. \A j \in DOMAIN files : files'[j].name = files[j].name
  BY <1>4, <1>5
<1>7. UploadsInv'
  <2>1. errors' \subseteq Nat BY <1>0, <1>2, <1>3 DEF CardSet
  <2>2. batch' \in Batches \cup {NoBatch}
    BY <1>1, <1>2 DEF Batches
  <2>3. Waiting' # {} => batch' # NoBatch
    <3> SUFFICES ASSUME NEW j \in DOMAIN files', files'[j].verdict = "waiting" PROVE batch' # NoBatch
      BY DEF Waiting
    <3>1. j # i BY <1>4, <1>5
    <3>2. j \in Waiting BY <1>5, <3>1 DEF Waiting
    <3>3. batch' = [batch EXCEPT !.taken = batch.taken \/ taken] BY <1>2, <3>1, <3>2
    <3>4. batch' \in Batches BY <1>1, <3>3 DEF Batches
    <3> QED BY <3>4, DocumentsAssumption
  <2>4. fileTypes # "idle" BY <1>0, <1>1 DEF UploadsInv, UploadsTypeOK
  <2>5. files' \in Seq([name : Nat, listed : BOOLEAN, verdict : {"waiting", "taken", "refused"}])
    BY <1>5 DEF CardSet, Verdicts
  <2>6. UploadsTypeOK'
    BY <1>2, <2>1, <2>4, <2>5 DEF UploadsInv, UploadsTypeOK
  <2> QED BY <2>2, <2>3, <2>6 DEF UploadsInv
<1>8. ASSUME VerdictsShown, NEW k \in DOMAIN files',
             \A j \in DOMAIN files' \ {k} : files'[j].name # files'[k].name
      PROVE  files'[k].name \in errors' <=> files'[k].verdict = "refused"
  <2>1. \A j \in DOMAIN files \ {k} : files[j].name # files[k].name
    BY <1>5, <1>6, <1>8
  <2>2. files[k].name \in errors <=> files[k].verdict = "refused"
    BY <1>5, <1>8, <2>1 DEF VerdictsShown
  <2>3. CASE k = i
    BY <1>1, <1>2, <1>4, <1>5, <2>2, <2>3
  <2>4. CASE k # i
    <3>1. files'[k] = files[k] /\ files[k].name # files[i].name BY <1>5, <2>1, <2>4
    <3> QED BY <1>2, <2>2, <3>1
  <2> QED BY <2>3, <2>4
<1>9. VerdictsShown => VerdictsShown'
  BY <1>8 DEF VerdictsShown
<1> QED BY <1>7, <1>9

(* The dialog                                                              *)
LEMMA UploadsDialog ==
    ASSUME UploadsInv, UploadsUser \/ TypesAnswer
    PROVE  UploadsInv' /\ (VerdictsShown => VerdictsShown')
<1>1. ASSUME OpenUploads \/ TypesAnswer
      PROVE  UploadsInv' /\ (VerdictsShown => VerdictsShown')
  <2>1. fileTypes' \in {"loading", "known"} /\ UNCHANGED <<files, errors, batch>>
    BY <1>1 DEF OpenUploads, TypesAnswer
  <2> QED BY <2>1 DEF UploadsInv, UploadsTypeOK, Waiting, VerdictsShown
<1>2. ASSUME CloseUploads PROVE UploadsInv' /\ VerdictsShown'
  <2>1. /\ fileTypes' = "idle" /\ files' = <<>> /\ errors' = {}
        /\ batch = NoBatch /\ batch' = batch
    BY <1>2 DEF CloseUploads
  <2>2. DOMAIN files' = {} BY <2>1
  <2>3. files' \in Seq([name : Nat, listed : BOOLEAN, verdict : {"waiting", "taken", "refused"}])
    BY <2>1
  <2>4. UploadsTypeOK' BY <2>1, <2>3 DEF UploadsTypeOK
  <2> QED BY <2>1, <2>2, <2>4 DEF UploadsInv, Waiting, VerdictsShown
<1>3. ASSUME NEW i \in DOMAIN files, RemoveCard(i)
      PROVE  UploadsInv' /\ (VerdictsShown => VerdictsShown')
  <2> DEFINE c == [files[i] EXCEPT !.listed = FALSE]
  <2>1. files' = [files EXCEPT ![i] = c] /\ UNCHANGED <<fileTypes, errors, batch>>
    BY <1>3 DEF RemoveCard
  <2>2. files \in Seq(CardSet) /\ DOMAIN files = 1..Len(files) /\ errors \subseteq Nat
    BY FilesAre
  <2>3. files[i] \in CardSet BY <2>2
  <2>4. c \in CardSet /\ c.name = files[i].name /\ c.verdict = files[i].verdict
    BY <2>3 DEF CardSet
  <2> HIDE DEF c
  <2>5. /\ files' \in Seq(CardSet) /\ DOMAIN files' = DOMAIN files
        /\ \A j \in DOMAIN files : /\ files'[j].name = files[j].name
                                   /\ files'[j].verdict = files[j].verdict
    BY <2>1, <2>2, <2>4
  <2>6. files' \in Seq([name : Nat, listed : BOOLEAN, verdict : {"waiting", "taken", "refused"}])
    BY <2>5 DEF CardSet, Verdicts
  <2>7. Waiting' = Waiting BY <2>5 DEF Waiting
  <2>8. fileTypes # "idle" BY DEF UploadsInv, UploadsTypeOK
  <2>9. UploadsTypeOK' BY <2>1, <2>2, <2>6, <2>8 DEF UploadsInv, UploadsTypeOK
  <2> QED BY <2>1, <2>5, <2>7, <2>9 DEF UploadsInv, VerdictsShown
<1>4. UploadsUser => OpenUploads \/ CloseUploads \/ \E i \in DOMAIN files : RemoveCard(i)
  BY DEF UploadsUser
<1> QED BY <1>1, <1>2, <1>3, <1>4

(* The whole tab                                                           *)
LEMMA DocsStart == DocumentsInit => UploadsInv /\ ListInv /\ VerdictsShown
<1> SUFFICES ASSUME DocumentsInit PROVE UploadsInv /\ ListInv /\ VerdictsShown
  OBVIOUS
<1>1. fileTypes = "idle" /\ files = <<>> /\ errors = {} /\ batch = NoBatch
  BY DEF DocumentsInit, UploadsInit
<1>2. DOMAIN files = {} BY <1>1
<1>3. UploadsInv /\ VerdictsShown
  BY <1>1, <1>2 DEF UploadsInv, UploadsTypeOK, Waiting, VerdictsShown
<1>4. PICK n \in Sizes : picked = [filter |-> All, order |-> Newest, page |-> 1, size |-> n]
  BY DEF DocumentsInit
<1>5. picked \in ListQueries
  BY <1>4, OneIsPage, DocumentsAssumption DEF ListQueries
<1> DEFINE r == Request("fetch", picked, "choice")
<1>6. r \in ListRequests /\ r # NoRequest /\ ~r.stale /\ r.query = picked
  BY <1>5, RequestIs DEF Callers
<1>7. /\ running = r /\ pending = NoRequest /\ timer = NoRequest /\ probe = NoRequest /\ dialog = NoRequest
      /\ saved = FirstPages /\ shown = [query |-> picked, total |-> 0, by |-> "choice"]
      /\ poller = [query |-> picked, by |-> "poll"] /\ broken = FALSE
      /\ total \in [Statuses -> {MaxTotal}]
  BY DEF DocumentsInit
<1> HIDE DEF r
<1>8. MaxTotal \in Nat BY DocumentsAssumption
<1>9. saved \in [Statuses -> ListPages] BY <1>7, OneIsPage DEF FirstPages
<1>10. total \in [Statuses -> 0 .. MaxTotal] BY <1>7, <1>8
<1>11. shown \in Lists BY <1>5, <1>7, <1>8 DEF Lists, Callers
<1>12. ListTyped BY <1>5, <1>7, <1>9, <1>10, <1>11 DEF ListTyped
<1>13. Loop(running, pending, picked) BY <1>6, <1>7 DEF Loop, Asks
<1>14. Repeats(poller, picked) BY <1>5, <1>7 DEF Repeats, Pollers, Asks, Callers
<1> QED BY <1>3, <1>6, <1>7, <1>12, <1>13, <1>14 DEF ListInv, Timed

LEMMA DocsKept ==
    ASSUME UploadsInv, ListInv, [DocumentsNext]_docVars
    PROVE  UploadsInv' /\ ListInv' /\ (VerdictsShown => VerdictsShown')
<1>1. ASSUME UNCHANGED docVars
      PROVE  UploadsInv' /\ ListInv' /\ (VerdictsShown => VerdictsShown')
  <2>1. UNCHANGED listVars /\ UNCHANGED uploadVars BY <1>1 DEF docVars
  <2> QED BY <2>1, ListRests, UploadsRest
<1>2. ASSUME ListNext, UploadsStay
      PROVE  UploadsInv' /\ ListInv' /\ (VerdictsShown => VerdictsShown')
  <2>1. UNCHANGED uploadVars BY <1>2 DEF UploadsStay
  <2> QED BY <1>2, <2>1, ListSteps, UploadsRest
<1>3. ASSUME NEW d \in Drops, DropFiles(d)
      PROVE  UploadsInv' /\ ListInv' /\ (VerdictsShown => VerdictsShown')
  <2>1. DropBatch(d, picked) /\ UNCHANGED listVars BY <1>3 DEF DropFiles
  <2>2. picked \in ListQueries BY DEF ListInv, ListTyped
  <2> QED BY <2>1, <2>2, DropKeeps, ListRests
<1>4. ASSUME NEW i \in DOMAIN files, NEW taken \in BOOLEAN, UploadAnswers(i, taken)
      PROVE  UploadsInv' /\ ListInv' /\ (VerdictsShown => VerdictsShown')
  <2>1. Uploaded(i, taken) BY <1>4 DEF UploadAnswers
  <2>2. ListInv' BY <1>4, UploadAsks
  <2> QED BY <2>1, <2>2, UploadKeeps
<1>5. ASSUME UploadsUser \/ TypesAnswer, UNCHANGED listVars
      PROVE  UploadsInv' /\ ListInv' /\ (VerdictsShown => VerdictsShown')
  BY <1>5, UploadsDialog, ListRests
<1>6. DocumentsNext =>
         \/ ListNext /\ UploadsStay
         \/ \E d \in Drops : DropFiles(d)
         \/ \E i \in DOMAIN files, taken \in BOOLEAN : UploadAnswers(i, taken)
         \/ (UploadsUser \/ TypesAnswer) /\ UNCHANGED listVars
  BY DEF DocumentsNext, Uploading
<1> QED BY <1>1, <1>2, <1>3, <1>4, <1>5, <1>6

(* The documents list and what is under way for it keep the types and the  *)
(* ties of ListInvariant, for any filters, sizes, drops and bounds.        *)
THEOREM DocumentsInvariant == DocumentsSpec => []ListInvariant
<1>1. DocumentsInit => UploadsInv /\ ListInv
  BY DocsStart
<1>2. UploadsInv /\ ListInv /\ [DocumentsNext]_docVars => (UploadsInv /\ ListInv)'
  BY DocsKept
<1>3. UploadsInv /\ ListInv => ListInvariant
  BY ListInvIs
<1> QED BY <1>1, <1>2, <1>3, PTL DEF DocumentsSpec

(* When the refresh loop of DocumentManager.tsx rests and did not fail,    *)
(* the list on display is the chosen one, unless a late callback asked.    *)
THEOREM ShowsTheChosenList == DocumentsSpec => []OnlyLateMisleads
<1>1. ListInvariant => OnlyLateMisleads
  BY DEF ListInvariant, OnlyLateMisleads, Meant
<1>2. DocumentsSpec => []ListInvariant
  BY DocumentsInvariant
<1> QED BY <1>1, <1>2, PTL

(* The upload dialog shows an error on the cards that were refused and on  *)
(* no others, but for files that share a name.                             *)
THEOREM CardsTellVerdicts == DocumentsSpec => []VerdictsShown
<1> DEFINE Inv == UploadsInv /\ ListInv /\ VerdictsShown
<1>1. DocumentsInit => Inv
  BY DocsStart
<1>2. Inv /\ [DocumentsNext]_docVars => Inv'
  BY DocsKept
<1>3. Inv => VerdictsShown
  OBVIOUS
<1> QED BY <1>1, <1>2, <1>3, PTL DEF DocumentsSpec
=============================================================================
