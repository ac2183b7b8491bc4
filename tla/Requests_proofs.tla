---------------------------- MODULE Requests_proofs ----------------------------
(***************************************************************************)
(* Proofs about Requests, for any prompts, options and answers: what every *)
(* codec sends, and what a call, an answer and storage do to a prompt.     *)
(***************************************************************************)
EXTENDS Requests, WellFoundedInduction, SequenceTheorems, TLAPS

-----------------------------------------------------------------------------
(***************************************************************************)
(* Induction over data.  A set of numbers that has 0 and every successor   *)
(* has all, because what it lacks would have a least member.               *)
(***************************************************************************)

LessThan == {pair \in Nat \X Nat : pair[1] < pair[2]}

(* The order of the natural numbers.                                       *)
LEMMA LessThanWellFounded == IsWellFoundedOn(LessThan, Nat)
  BY NatLessThanWellFounded DEF OpToRel, LessThan

(* The induction the proofs below use: over a set, not an operator.        *)
LEMMA Induction ==
  ASSUME NEW T, 0 \in T, \A n \in Nat : n \in T => n + 1 \in T
  PROVE  Nat \subseteq T
<1> DEFINE U == Nat \ T
<1>1. SUFFICES ASSUME U # {} PROVE FALSE
  OBVIOUS
<1>2. PICK x \in U : \A y \in U : <<y, x>> \notin LessThan
  BY <1>1, LessThanWellFounded, WFMin
<1>3. \A y \in U : ~(y < x)
  BY <1>2 DEF LessThan
<1>4. x \in Nat /\ x # 0 /\ x - 1 \in Nat
  OBVIOUS
<1>5. x - 1 \in T
  BY <1>3, <1>4
<1>6. QED
  BY <1>4, <1>5

(***************************************************************************)
(* FlattenSeq, once and for all: the sequence has the elements of the      *)
(* sequences it is made of, each at its place, in the order of places.     *)
(***************************************************************************)

(* The elements of flat are those of s[1] .. s[n]: the k-th is the one at  *)
(* the place <<of[k], no[k]>>.                                             *)
IsFlat(flat, s, n, of, no) ==
  /\ of \in [DOMAIN flat -> 1..n]
  /\ no \in [DOMAIN flat -> Nat]
  /\ \A k \in DOMAIN flat : no[k] \in DOMAIN s[of[k]] /\ flat[k] = s[of[k]][no[k]]
  /\ \A k, m \in DOMAIN flat : k < m => of[k] < of[m] \/ (of[k] = of[m] /\ no[k] < no[m])
  /\ \A i \in 1..n : \A j \in DOMAIN s[i] : \E k \in DOMAIN flat : of[k] = i /\ no[k] = j

(* One more sequence put behind those that are flat already.               *)
LEMMA FlatNext ==
  ASSUME NEW S, NEW s \in Seq(Seq(S)), NEW n \in Nat, n + 1 \in DOMAIN s,
         NEW flat \in Seq(S), NEW of, NEW no, IsFlat(flat, s, n, of, no)
  PROVE  \E of2, no2 : IsFlat(flat \o s[n + 1], s, n + 1, of2, no2)
<1> DEFINE more == flat \o s[n + 1]
           L == Len(flat)
           of2 == [k \in DOMAIN more |-> IF k <= L THEN of[k] ELSE n + 1]
           no2 == [k \in DOMAIN more |-> IF k <= L THEN no[k] ELSE k - L]
<1>1. s[n + 1] \in Seq(S) /\ L \in Nat /\ DOMAIN flat = 1..L /\ Len(s[n + 1]) \in Nat
      /\ DOMAIN s[n + 1] = 1..Len(s[n + 1])
  OBVIOUS
<1>2. /\ more \in Seq(S)
      /\ DOMAIN more = 1..(L + Len(s[n + 1]))
      /\ \A k \in DOMAIN more : more[k] = IF k <= L THEN flat[k] ELSE s[n + 1][k - L]
  BY <1>1
<1> HIDE DEF more, L
<1>3. of2 \in [DOMAIN more -> 1..(n + 1)] /\ no2 \in [DOMAIN more -> Nat]
  BY <1>1, <1>2 DEF IsFlat
<1>4. ASSUME NEW k \in DOMAIN more PROVE no2[k] \in DOMAIN s[of2[k]] /\ more[k] = s[of2[k]][no2[k]]
  <2>1. CASE k <= L
    BY <2>1, <1>1, <1>2 DEF IsFlat
  <2>2. CASE ~(k <= L)
    BY <2>2, <1>1, <1>2
  <2>3. QED
    BY <2>1, <2>2
<1>5. ASSUME NEW k \in DOMAIN more, NEW m \in DOMAIN more, k < m
      PROVE of2[k] < of2[m] \/ (of2[k] = of2[m] /\ no2[k] < no2[m])
  <2>1. CASE m <= L
    <3>1. k \in DOMAIN flat /\ m \in DOMAIN flat
      BY <2>1, <1>1, <1>2, <1>5
    <3>2. QED
      BY <3>1, <2>1, <1>1, <1>2, <1>5 DEF IsFlat
  <2>2. CASE ~(m <= L) /\ k <= L
    <3>1. of[k] \in 1..n
      BY <2>2, <1>1, <1>2 DEF IsFlat
    <3>2. QED
      BY <3>1, <2>2, <1>1, <1>2
  <2>3. CASE ~(m <= L) /\ ~(k <= L)
    BY <2>3, <1>1, <1>2, <1>5
  <2>4. QED
    BY <2>1, <2>2, <2>3
<1>6. ASSUME NEW i \in 1..(n + 1), NEW j \in DOMAIN s[i] PROVE \E k \in DOMAIN more : of2[k] = i /\ no2[k] = j
  <2>1. CASE i = n + 1
    <3>1. j + L \in DOMAIN more /\ ~(j + L <= L)
      BY <2>1, <1>1, <1>2
    <3>2. of2[j + L] = i /\ no2[j + L] = j
      BY <3>1, <2>1, <1>1
    <3>3. QED
      BY <3>1, <3>2
  <2>2. CASE i # n + 1
    <3>1. i \in 1..n
      BY <2>2
    <3>2. PICK k \in DOMAIN flat : of[k] = i /\ no[k] = j
      BY <3>1 DEF IsFlat
    <3>3. QED
      BY <3>2, <1>1, <1>2
  <2>3. QED
    BY <2>1, <2>2
<1>7. IsFlat(more, s, n + 1, of2, no2)
  BY <1>3, <1>4, <1>5, <1>6 DEF IsFlat
<1>8. QED
  BY <1>7 DEF more

(* The recursive function that FlattenSeq is defined with exists.          *)
LEMMA FlattenUnfolds ==
  ASSUME NEW S, NEW s \in Seq(Seq(S)), s # <<>>
  PROVE  \E f : /\ f = [i \in 1..Len(s) |-> IF i = 1 THEN s[i] ELSE f[i - 1] \o s[i]]
                /\ FlattenSeq(s) = f[Len(s)]
<1> DEFINE Step(f, i) == IF i = 1 THEN s[i] ELSE f[i - 1] \o s[i]
           Is(n, f) == f = [i \in 1..n |-> Step(f, i)]
           T == {n \in Nat : \E f : Is(n, f)}
<1>1. 0 \in T
  <2>1. Is(0, [i \in 1..0 |-> <<>>])
    OBVIOUS
  <2>2. QED
    BY <2>1
<1>2. ASSUME NEW n \in Nat, n \in T PROVE n + 1 \in T
  <2>1. PICK f : Is(n, f)
    BY <1>2
  <2> DEFINE g == [i \in 1..(n + 1) |-> Step(f, i)]
  <2>2. ASSUME NEW i \in 1..n PROVE g[i] = f[i]
    <3> HIDE DEF Step
    <3>1. f[i] = Step(f, i)
      BY <2>1
    <3>2. g[i] = Step(f, i)
      OBVIOUS
    <3>3. QED
      BY <3>1, <3>2
  <2>3. ASSUME NEW i \in 1..(n + 1) PROVE Step(g, i) = Step(f, i)
    <3>1. i # 1 => i - 1 \in 1..n
      OBVIOUS
    <3> HIDE DEF g
    <3>2. QED
      BY <3>1, <2>2
  <2>4. Is(n + 1, g)
    <3> HIDE DEF Step
    <3>1. [i \in 1..(n + 1) |-> Step(g, i)] = [i \in 1..(n + 1) |-> Step(f, i)]
      BY <2>3
    <3>2. QED
      BY <3>1
  <2>5. QED
    <3> HIDE DEF g, Is
    <3>1. QED
      BY <2>4
<1>3. Len(s) \in T
  <2> HIDE DEF T
  <2>1. QED
    BY <1>1, <1>2, Induction
<1> DEFINE h == CHOOSE f : Is(Len(s), f)
<1>4. Is(Len(s), h)
  BY <1>3
<1>5. FlattenSeq(s) = h[Len(s)]
  BY DEF FlattenSeq
<1>6. QED
  BY <1>4, <1>5

(* FlattenSeq returns a sequence, and it has the elements of all the       *)
(* sequences, one after the other.                                         *)
LEMMA FlattenIsFlat ==
  ASSUME NEW S, NEW s \in Seq(Seq(S))
  PROVE  /\ FlattenSeq(s) \in Seq(S)
         /\ \E of, no : IsFlat(FlattenSeq(s), s, Len(s), of, no)
<1>0. Len(s) \in Nat /\ DOMAIN s = 1..Len(s) /\ \A i \in 1..Len(s) : s[i] \in Seq(S)
  OBVIOUS
<1>1. CASE s = <<>>
  <2>1. FlattenSeq(s) = <<>> /\ Len(s) = 0
    BY <1>1 DEF FlattenSeq
  <2>2. IsFlat(<<>>, s, 0, <<>>, <<>>)
    BY DEF IsFlat
  <2>3. QED
    BY <2>1, <2>2
<1>2. CASE s # <<>>
  <2>1. PICK f : /\ f = [i \in 1..Len(s) |-> IF i = 1 THEN s[i] ELSE f[i - 1] \o s[i]]
                 /\ FlattenSeq(s) = f[Len(s)]
    BY <1>2, FlattenUnfolds
  <2>2. \A i \in 1..Len(s) : f[i] = IF i = 1 THEN s[i] ELSE f[i - 1] \o s[i]
    BY <2>1
  <2> DEFINE Good(n) == f[n] \in Seq(S) /\ \E of, no : IsFlat(f[n], s, n, of, no)
             T == {n \in Nat : n + 1 <= Len(s) => Good(n + 1)}
  <2>3. 0 \in T
    <3> SUFFICES ASSUME 1 <= Len(s) PROVE Good(1)
      OBVIOUS
    <3>1. f[1] = s[1] /\ s[1] \in Seq(S)
      BY <1>0, <2>2
    <3>2. IsFlat(s[1], s, 1, [k \in DOMAIN s[1] |-> 1], [k \in DOMAIN s[1] |-> k])
      BY <3>1 DEF IsFlat
    <3>3. QED
      BY <3>1, <3>2
  <2>4. ASSUME NEW n \in Nat, n \in T PROVE n + 1 \in T
    <3> DEFINE m == n + 1
    <3> SUFFICES ASSUME m + 1 <= Len(s) PROVE Good(m + 1)
      OBVIOUS
    <3>1. Good(m) /\ m \in Nat /\ m + 1 \in DOMAIN s
      BY <2>4, <1>0
    <3>2. f[m + 1] = f[m] \o s[m + 1]
      <4>1. m + 1 \in 1..Len(s) /\ m + 1 # 1 /\ (m + 1) - 1 = m
        BY <1>0
      <4>2. QED
        BY <2>2, <4>1
    <3>3. PICK of, no : IsFlat(f[m], s, m, of, no)
      BY <3>1
    <3> HIDE DEF m
    <3>4. \E of2, no2 : IsFlat(f[m] \o s[m + 1], s, m + 1, of2, no2)
      BY <3>1, <3>3, FlatNext
    <3>5. f[m] \o s[m + 1] \in Seq(S)
      BY <3>1, <1>0
    <3>6. QED
      BY <3>2, <3>4, <3>5
  <2>5. Nat \subseteq T
    <3> HIDE DEF T
    <3>1. QED
      BY <2>3, <2>4, Induction
  <2>6. Len(s) - 1 \in Nat /\ (Len(s) - 1) + 1 = Len(s)
    BY <1>0, <1>2
  <2>7. Good(Len(s))
    <3>1. Len(s) - 1 \in T
      BY <2>5, <2>6
    <3> HIDE DEF Good
    <3>2. QED
      BY <3>1, <2>6
  <2>8. QED
    BY <2>1, <2>7
<1>3. QED
  BY <1>1, <1>2

-----------------------------------------------------------------------------
(***************************************************************************)
(* Items in order.  F gives what becomes of the block at each place: one   *)
(* item that bears the place, or nothing.  The items of the places of D    *)
(* are there, no others, and they follow each other as R says; when R is   *)
(* irreflexive, each is there once.                                        *)
(***************************************************************************)

AllPlaces == Nat \X Nat
Kinds == {"error", "system", "developer", "text", "input_text", "string", "message", "image", "image_url",
          "input_image",
          "document", "input_file", "tool_use", "tool_call", "function_call", "thinking", "redacted_thinking",
          "tool_result", "tool", "function_call_output", "computer_call_output", "line"}
Forms == {"none", "text", "empty", "url", "data", "base64", "dataURL", "pdf", "args", "unwritable", "name", "tagged", "content",
          "json",
          "null", "string", "value", "loaded"}
Items == [kind : Kinds, at : AllPlaces, form : Forms, mark : BOOLEAN]

InOrder(items, D, F, R) ==
  /\ items \in Seq(Items)
  /\ \A n \in DOMAIN items : items[n].at \in D /\ F[items[n].at] = <<items[n]>>
  /\ \A at \in D : F[at] # <<>> => \E n \in DOMAIN items : items[n].at = at
  /\ \A n, k \in DOMAIN items : n < k => <<items[n].at, items[k].at>> \in R

(* Sequences in order that follow each other, flattened.                   *)
LEMMA RowsInOrder ==
  ASSUME NEW t \in Seq(Seq(Items)), NEW D, NEW F, NEW R, NEW all, all = UNION {D[i] : i \in DOMAIN t},
         \A i \in DOMAIN t : InOrder(t[i], D[i], F, R),
         \A i, k \in DOMAIN t : i < k => \A a \in D[i], b \in D[k] : <<a, b>> \in R
  PROVE  InOrder(FlattenSeq(t), all, F, R)
<1> DEFINE flat == FlattenSeq(t)
<1>1. flat \in Seq(Items)
  BY FlattenIsFlat
<1>2. PICK of, no : IsFlat(flat, t, Len(t), of, no)
  BY FlattenIsFlat
<1>3. DOMAIN t = 1..Len(t) /\ Len(t) \in Nat
  OBVIOUS
<1> HIDE DEF flat
<1>4. ASSUME NEW n \in DOMAIN flat
      PROVE  /\ of[n] \in DOMAIN t /\ no[n] \in DOMAIN t[of[n]]
             /\ flat[n] = t[of[n]][no[n]]
             /\ flat[n].at \in D[of[n]] /\ F[flat[n].at] = <<flat[n]>>
  <2>1. of[n] \in DOMAIN t /\ no[n] \in DOMAIN t[of[n]] /\ flat[n] = t[of[n]][no[n]]
    BY <1>2, <1>3 DEF IsFlat
  <2>2. InOrder(t[of[n]], D[of[n]], F, R)
    BY <2>1
  <2>3. QED
    BY <2>1, <2>2 DEF InOrder
<1>5. ASSUME NEW i \in DOMAIN t, NEW at \in D[i], F[at] # <<>> PROVE \E n \in DOMAIN flat : flat[n].at = at
  <2>1. PICK k \in DOMAIN t[i] : t[i][k].at = at
    BY <1>5 DEF InOrder
  <2>2. PICK n \in DOMAIN flat : of[n] = i /\ no[n] = k
    BY <1>2, <1>3 DEF IsFlat
  <2>3. QED
    BY <2>1, <2>2, <1>4
<1>6. ASSUME NEW n \in DOMAIN flat, NEW k \in DOMAIN flat, n < k PROVE <<flat[n].at, flat[k].at>> \in R
  <2>1. of[n] < of[k] \/ (of[n] = of[k] /\ no[n] < no[k])
    BY <1>2, <1>6 DEF IsFlat
  <2>2. CASE of[n] < of[k]
    BY <2>2, <1>4
  <2>3. CASE of[n] = of[k] /\ no[n] < no[k]
    BY <2>3, <1>4 DEF InOrder
  <2>4. QED
    BY <2>1, <2>2, <2>3
<1>7. ASSUME NEW n \in DOMAIN flat PROVE flat[n].at \in all /\ F[flat[n].at] = <<flat[n]>>
  <2>1. of[n] \in DOMAIN t /\ flat[n].at \in D[of[n]] /\ F[flat[n].at] = <<flat[n]>>
    BY <1>4
  <2>2. QED
    BY <2>1
<1>8. \A at \in all : F[at] # <<>> => \E n \in DOMAIN flat : flat[n].at = at
  BY <1>5
<1>9. QED
  BY <1>1, <1>6, <1>7, <1>8 DEF InOrder, flat

(* Two sequences in order, one after the other.                            *)
LEMMA ConcatInOrder ==
  ASSUME NEW s, NEW t, NEW D, NEW E, NEW F, NEW R,
         InOrder(s, D, F, R), InOrder(t, E, F, R),
         \A a \in D, b \in E : <<a, b>> \in R
  PROVE  InOrder(s \o t, D \cup E, F, R)
<1>1. s \in Seq(Items) /\ t \in Seq(Items)
  BY DEF InOrder
<1> DEFINE u == s \o t
<1>2. /\ u \in Seq(Items)
      /\ DOMAIN u = 1..(Len(s) + Len(t))
      /\ DOMAIN s = 1..Len(s) /\ DOMAIN t = 1..Len(t)
      /\ Len(s) \in Nat /\ Len(t) \in Nat
      /\ \A n \in DOMAIN u : u[n] = IF n <= Len(s) THEN s[n] ELSE t[n - Len(s)]
  BY <1>1
<1> HIDE DEF u
<1>3. ASSUME NEW n \in DOMAIN u
      PROVE  IF n <= Len(s) THEN n \in DOMAIN s /\ u[n] = s[n] /\ u[n].at \in D
             ELSE n - Len(s) \in DOMAIN t /\ u[n] = t[n - Len(s)] /\ u[n].at \in E
  <2>1. CASE n <= Len(s)
    <3>1. n \in DOMAIN s /\ u[n] = s[n]
      BY <2>1, <1>2
    <3>2. QED
      BY <2>1, <3>1 DEF InOrder
  <2>2. CASE ~(n <= Len(s))
    <3>1. n - Len(s) \in DOMAIN t /\ u[n] = t[n - Len(s)]
      BY <2>2, <1>2
    <3>2. QED
      BY <2>2, <3>1 DEF InOrder
  <2>3. QED
    BY <2>1, <2>2
<1>7. ASSUME NEW n \in DOMAIN u PROVE u[n].at \in D \cup E /\ F[u[n].at] = <<u[n]>>
  <2>1. CASE n <= Len(s)
    <3>1. n \in DOMAIN s /\ u[n] = s[n]
      BY <2>1, <1>3
    <3>2. QED
      BY <3>1 DEF InOrder
  <2>2. CASE ~(n <= Len(s))
    <3>1. n - Len(s) \in DOMAIN t /\ u[n] = t[n - Len(s)]
      BY <2>2, <1>3
    <3>2. QED
      BY <3>1 DEF InOrder
  <2>3. QED
    BY <2>1, <2>2
<1>4. ASSUME NEW at \in D \cup E, F[at] # <<>> PROVE \E n \in DOMAIN u : u[n].at = at
  <2>1. CASE at \in D
    BY <2>1, <1>2, <1>4 DEF InOrder
  <2>2. CASE at \in E
    <3>1. PICK n \in DOMAIN t : t[n].at = at
      BY <2>2, <1>4 DEF InOrder
    <3>2. n + Len(s) \in DOMAIN u /\ u[n + Len(s)] = t[n]
      BY <1>2
    <3>3. QED
      BY <3>1, <3>2
  <2>3. QED
    BY <2>1, <2>2
<1>5. ASSUME NEW n \in DOMAIN u, NEW k \in DOMAIN u, n < k PROVE <<u[n].at, u[k].at>> \in R
  <2>1. CASE k <= Len(s)
    <3>1. n <= Len(s)
      BY <2>1, <1>2, <1>5
    <3>2. QED
      BY <2>1, <3>1, <1>3, <1>5 DEF InOrder
  <2>2. CASE ~(n <= Len(s))
    <3>1. ~(k <= Len(s)) /\ n - Len(s) < k - Len(s)
      BY <2>2, <1>2, <1>5
    <3>2. QED
      BY <2>2, <3>1, <1>3, <1>5 DEF InOrder
  <2>3. CASE n <= Len(s) /\ ~(k <= Len(s))
    BY <2>3, <1>3
  <2>4. QED
    BY <2>1, <2>2, <2>3
<1>6. QED
  BY <1>2, <1>4, <1>5, <1>7 DEF InOrder, u

(* The items of one message: those of its blocks, one by one.              *)
LEMMA RowInOrder ==
  ASSUME NEW i \in Nat, NEW t, NEW N \in Nat, DOMAIN t = 1..N, t = [j \in 1..N |-> t[j]],
         NEW D \in SUBSET ({i} \X (1..N)), NEW F, NEW R,
         \A j \in 1..N : IF <<i, j>> \in D
                         THEN /\ t[j] = F[<<i, j>>]
                              /\ t[j] = <<>> \/ \E x \in Items : t[j] = <<x>> /\ x.at = <<i, j>>
                         ELSE t[j] = <<>>,
         \A j, k \in 1..N : j < k /\ <<i, j>> \in D /\ <<i, k>> \in D => <<<<i, j>>, <<i, k>>>> \in R
  PROVE  FlattenSeq(t) \in Seq(Items) /\ InOrder(FlattenSeq(t), D, F, R)
<1>1. t \in Seq(Seq(Items))
  <2>1. \A x \in Items : <<x>> \in Seq(Items)
    OBVIOUS
  <2>2. <<>> \in Seq(Items)
    OBVIOUS
  <2>3. ASSUME NEW j \in 1..N PROVE t[j] \in Seq(Items)
    BY <2>1, <2>2
  <2>4. QED
    BY <2>3
<1> DEFINE E == [j \in 1..N |-> D \cap {<<i, j>>}]
<1>2. ASSUME NEW j \in DOMAIN t PROVE InOrder(t[j], E[j], F, R)
  <2>1. E[j] = D \cap {<<i, j>>}
    OBVIOUS
  <2> HIDE DEF E
  <2>2. CASE t[j] = <<>>
    BY <2>1, <2>2 DEF InOrder
  <2>3. CASE t[j] # <<>>
    <3>1. <<i, j>> \in D /\ t[j] = F[<<i, j>>]
      BY <2>3
    <3>2. PICK x \in Items : t[j] = <<x>> /\ x.at = <<i, j>>
      BY <2>3
    <3>3. DOMAIN t[j] = {1} /\ t[j][1] = x /\ t[j] \in Seq(Items)
      BY <3>2
    <3>4. QED
      BY <2>1, <3>1, <3>2, <3>3 DEF InOrder
  <2>4. QED
    BY <2>2, <2>3
<1>3. \A j, k \in DOMAIN t : j < k => \A a \in E[j], b \in E[k] : <<a, b>> \in R
  OBVIOUS
<1>4. UNION {E[j] : j \in DOMAIN t} = D
  OBVIOUS
<1> HIDE DEF E
<1>5. InOrder(FlattenSeq(t), D, F, R)
  BY <1>1, <1>2, <1>3, <1>4, RowsInOrder
<1>6. QED
  BY <1>5 DEF InOrder

-----------------------------------------------------------------------------
(***************************************************************************)
(* What a provider makes of one block of a message: an item, an error, or  *)
(* nothing.                                                                *)
(***************************************************************************)

Roles == {"system", "user", "assistant", "tool"}
AllMessages ==
  {m \in [role : Roles, content : Seq(ContentBlocks \cup ToolResultBlocks), meta : Metas] : IsMessage(m)}
Prompts == Seq(AllMessages)

(* By provider, with the role of the message and the place of the block.   *)
OfAnthropic(role, b, at) ==
  CASE role = "system" -> Anthropic!EncodeSystemMessage(b, at)
    [] role = "user" -> Anthropic!EncodeUserContentBlock(b, at)
    [] role = "assistant" -> Anthropic!EncodeAssistantBlock(b, at)
    [] role = "tool" -> Anthropic!EncodeToolResult(b, at)

OfOpenAI(family, role, b, at) ==
  CASE role = "system" -> OpenAI!EncodeSystemMessage(family, at)
    [] role = "user" -> OpenAI!EncodeUserContentBlock(b, at)
    [] role = "assistant" -> OpenAI!EncodeAssistantBlock(b, at)
    [] role = "tool" -> OpenAI!EncodeToolResultBlock(b, at)

OfOpenRouter(role, b, at) ==
  CASE role = "system" -> OpenRouter!encodeSystemMessage(b, at)
    [] role = "user" -> OpenRouter!encodeUserContentBlock(b, at)
    [] role = "assistant" ->
         CASE b.type = "text" -> <<Item("text", at, "text", FALSE)>>
           [] b.type = "tool-call" -> <<OpenRouter!encodeToolCallBlock(b, at)>>
           [] OTHER -> <<Error(at)>>
    [] role = "tool" -> OpenRouter!encodeToolResult(b, at)

OfCompletion(role, b, at) ==
  CASE role = "system" -> OpenRouter!encodeSystemMessage(b, at)
    [] role = "tool" -> <<Error(at)>>
    [] role \in {"user", "assistant"} -> OpenRouter!gatherText(b, at)

OfClaude(m, b, at) ==
  CASE m.role = "system" -> <<Item("system", at, "text", FALSE)>>
    [] m.role = "tool" -> Cli!encodeToolResult(b, at)
    [] m.role \in {"user", "assistant"} ->
         IF Cli!isTextOnly(m.content) THEN Cli!extractText(b, at) ELSE Cli!encodeContentBlock(b, at)

OfCodex(role, b, at) ==
  CASE role = "system" -> <<Item("system", at, "text", FALSE)>>
    [] role = "tool" -> Cli!extractToolResult(b, at)
    [] role \in {"user", "assistant"} -> Cli!extractTextFromContent(b, at)

OfBlock(p, m, at) ==
  LET b == m.content[at[2]]
  IN CASE p = "anthropic" -> OfAnthropic(m.role, b, at)
       [] p \in OpenAI!Families -> OfOpenAI(p, m.role, b, at)
       [] p = "openrouter" -> OfOpenRouter(m.role, b, at)
       [] p = "completion" -> OfCompletion(m.role, b, at)
       [] p = "claude-code" -> OfClaude(m, b, at)
       [] p = "codex" -> OfCodex(m.role, b, at)

(* One item that bears the place, or nothing.                              *)
OneItem(items, at) == items = <<>> \/ (items = <<items[1]>> /\ items[1] \in Items /\ items[1].at = at)

(* The blocks of a message, by its role.                                   *)
LEMMA BlockTypes ==
  ASSUME NEW m \in AllMessages, NEW j \in DOMAIN m.content
  PROVE  /\ m.role = "system" => j = 1 /\ m.content[j] \in TextBlocks /\ m.content[j].meta = m.meta
         /\ m.role \in {"user", "assistant"} => m.content[j] \in ContentBlocks
         /\ m.role = "tool" => m.content[j] \in ToolResultBlocks
         /\ m.role \in Roles /\ j \in Nat /\ m.content \in Seq(ContentBlocks \cup ToolResultBlocks)
         /\ m.meta \in Metas
<1>1. m \in [role : Roles, content : Seq(ContentBlocks \cup ToolResultBlocks), meta : Metas] /\ IsMessage(m)
  BY DEF AllMessages
<1>2. m.role = "system" => j = 1 /\ m.content[j] \in TextBlocks /\ m.content[j].meta = m.meta
  BY <1>1 DEF IsMessage
<1>3. m.role \in {"user", "assistant"} => m.content[j] \in ContentBlocks
  BY <1>1 DEF IsMessage
<1>4. m.role = "tool" => m.content[j] \in ToolResultBlocks
  BY <1>1 DEF IsMessage
<1>5. QED
  BY <1>1, <1>2, <1>3, <1>4

(* The fields of a block, by its type.                                     *)
LEMMA ContentTypes ==
  ASSUME NEW b \in ContentBlocks
  PROVE  /\ b.type \in {"text", "image", "file", "tool-call", "reasoning", "source"} /\ b.meta \in Metas
         /\ b.type = "text" <=> b \in TextBlocks
         /\ b.type = "image" => b \in ImageBlocks /\ b.from \in {"url", "data", "emptyData", "none"}
         /\ b.type = "file" => /\ b \in FileBlocks /\ b.from \in {"url", "data", "emptyData", "none"}
                               /\ b.dotPdf \in BOOLEAN
         /\ b.type = "tool-call" => b \in ToolCallBlocks
         /\ b.type = "reasoning" => b \in ReasoningBlocks /\ b.some \in BOOLEAN
         /\ b.type = "source" => b \in SourceBlocks
BY DEF ContentBlocks, TextBlocks, ImageBlocks, FileBlocks, ToolCallBlocks, ReasoningBlocks, SourceBlocks, Sources

(* The Anthropic codec makes one item of a block (encode_prompt.go).       *)
LEMMA AnthropicShape ==
  ASSUME NEW m \in AllMessages, NEW at \in AllPlaces, at[2] \in DOMAIN m.content
  PROVE  OneItem(OfAnthropic(m.role, m.content[at[2]], at), at)
<1> DEFINE b == m.content[at[2]]
<1>1. CASE m.role = "system"
  BY <1>1 DEF OfAnthropic, Anthropic!EncodeSystemMessage, Anthropic!Item, OneItem, Items, Kinds, Forms,
     Anthropic!HasCacheControl
<1>2. CASE m.role = "user"
  <2>1. b \in ContentBlocks
    BY <1>2, BlockTypes
  <2> HIDE DEF b
  <2> USE DEF Anthropic!Item, Anthropic!Error, OneItem, Items, Kinds, Forms, Anthropic!HasCacheControl
  <2>2. OneItem(Anthropic!EncodeUserContentBlock(b, at), at)
    <3>1. CASE b.type = "image"
      BY <2>1, <3>1, ContentTypes DEF Anthropic!EncodeUserContentBlock, Anthropic!EncodeImageBlock
    <3>2. CASE b.type = "file"
      BY <2>1, <3>2, ContentTypes DEF Anthropic!EncodeUserContentBlock, Anthropic!EncodeFileBlock
    <3>3. CASE b.type \notin {"image", "file"}
      BY <3>3 DEF Anthropic!EncodeUserContentBlock, Anthropic!EncodeTextBlock
    <3>4. QED
      BY <3>1, <3>2, <3>3
  <2>3. QED
    BY <2>2, <1>2 DEF OfAnthropic, b
<1>3. CASE m.role = "assistant"
  <2>2. OneItem(Anthropic!EncodeAssistantBlock(b, at), at)
    <3> HIDE DEF b
    <3>1. QED
      BY DEF Anthropic!EncodeAssistantBlock, Anthropic!EncodeTextBlock, Anthropic!EncodeToolCallBlock,
         Anthropic!EncodeReasoningBlock, Anthropic!Written,
           Anthropic!Item, Anthropic!Error, OneItem, Items, Kinds, Forms, Anthropic!HasCacheControl
  <2>3. QED
    BY <2>2, <1>3 DEF OfAnthropic
<1>4. CASE m.role = "tool"
  <2>1. b \in ToolResultBlocks
    BY <1>4, BlockTypes
  <2>2. OneItem(Anthropic!EncodeToolResult(b, at), at)
    <3> HIDE DEF b
    <3>1. QED
      BY <2>1 DEF Anthropic!EncodeToolResult, Anthropic!encodeToolResultContent, Anthropic!encodeToolResultJSON,
         ToolResultBlocks,
           Anthropic!Item, Anthropic!Error, OneItem, Items, Kinds, Forms, Anthropic!HasCacheControl
  <2>3. QED
    BY <2>2, <1>4 DEF OfAnthropic
<1>5. QED
  BY <1>1, <1>2, <1>3, <1>4, BlockTypes DEF Roles

(* OpenAI: one item of a block, or none of a system message of o1-mini.    *)
LEMMA OpenAIShape ==
  ASSUME NEW f \in OpenAI!Families, NEW m \in AllMessages, NEW at \in AllPlaces, at[2] \in DOMAIN m.content
  PROVE  OneItem(OfOpenAI(f, m.role, m.content[at[2]], at), at)
<1> DEFINE b == m.content[at[2]]
<1> USE DEF OpenAI!Item, OpenAI!Error, OneItem, Items, Kinds, Forms
<1>1. CASE m.role = "system"
  <2>1. OneItem(OpenAI!EncodeSystemMessage(f, at), at)
    BY DEF OpenAI!EncodeSystemMessage, OpenAI!SystemMessageMode, OpenAI!Families
  <2>2. QED
    BY <2>1, <1>1 DEF OfOpenAI
<1>2. CASE m.role = "user"
  <2>1. b \in ContentBlocks
    BY <1>2, BlockTypes
  <2>2. OneItem(OpenAI!EncodeUserContentBlock(b, at), at)
    <3> HIDE DEF b
    <3>1. CASE b.type = "image"
      BY <2>1, <3>1, ContentTypes DEF OpenAI!EncodeUserContentBlock, OpenAI!EncodeImageBlock
    <3>2. CASE b.type = "file"
      BY <2>1, <3>2, ContentTypes DEF OpenAI!EncodeUserContentBlock, OpenAI!EncodeFileBlock
    <3>3. CASE b.type \notin {"image", "file"}
      BY <3>3 DEF OpenAI!EncodeUserContentBlock, OpenAI!EncodeInputTextBlock
    <3>4. QED
      BY <3>1, <3>2, <3>3
  <2>3. QED
    BY <2>2, <1>2 DEF OfOpenAI
<1>3. CASE m.role = "assistant"
  <2>1. OneItem(OpenAI!EncodeAssistantBlock(b, at), at)
    <3> HIDE DEF b
    <3>1. QED
      BY DEF OpenAI!EncodeAssistantBlock, OpenAI!EncodeOutputTextBlock, OpenAI!EncodeToolCallBlock, OpenAI!Written
  <2>2. QED
    BY <2>1, <1>3 DEF OfOpenAI
<1>4. CASE m.role = "tool"
  <2>1. b \in ToolResultBlocks
    BY <1>4, BlockTypes
  <2>2. OneItem(OpenAI!EncodeToolResultBlock(b, at), at)
    <3> HIDE DEF b
    <3>1. b.id \in BOOLEAN
      BY <2>1 DEF ToolResultBlocks
    <3>2. OneItem(<<OpenAI!encodeTextToolResult(b, at)>>, at)
      BY DEF OpenAI!encodeTextToolResult
    <3>3. OneItem(<<OpenAI!Screenshot(b, at)>>, at)
      BY DEF OpenAI!Screenshot
    <3>4. OneItem(<<OpenAI!encodeComputerToolResult(b, at)>>, at)
      <4> HIDE DEF OneItem
      <4>1. OneItem(<<OpenAI!Error(at)>>, at)
        BY DEF OneItem
      <4>2. QED
        BY <3>2, <3>3, <4>1 DEF OpenAI!encodeComputerToolResult
    <3>5. QED
      BY <3>1, <3>4 DEF OpenAI!EncodeToolResultBlock
  <2>3. QED
    BY <2>2, <1>4 DEF OfOpenAI
<1>5. QED
  BY <1>1, <1>2, <1>3, <1>4, BlockTypes DEF Roles

(* OpenRouter, by chat messages and by a completion prompt: one item.      *)
LEMMA OpenRouterShape ==
  ASSUME NEW m \in AllMessages, NEW at \in AllPlaces, at[2] \in DOMAIN m.content
  PROVE  /\ OneItem(OfOpenRouter(m.role, m.content[at[2]], at), at)
         /\ OneItem(OfCompletion(m.role, m.content[at[2]], at), at)
<1> DEFINE b == m.content[at[2]]
<1> USE DEF OpenRouter!Item, OpenRouter!Error, Item, Error, OneItem, Items, Kinds, Forms
<1>1. CASE m.role = "system"
  <2>1. OneItem(OpenRouter!encodeSystemMessage(b, at), at)
    BY DEF OpenRouter!encodeSystemMessage
  <2>2. QED
    BY <2>1, <1>1 DEF OfOpenRouter, OfCompletion
<1>2. CASE m.role \in {"user", "assistant"}
  <2>1. b \in ContentBlocks
    BY <1>2, BlockTypes
  <2>2. OneItem(OpenRouter!encodeUserContentBlock(b, at), at)
    <3> HIDE DEF b
    <3>1. CASE b.type = "image"
      BY <2>1, <3>1, ContentTypes DEF OpenRouter!encodeUserContentBlock, OpenRouter!encodeImageBlock
    <3>2. CASE b.type = "file"
      BY <2>1, <3>2, ContentTypes DEF OpenRouter!encodeUserContentBlock, OpenRouter!encodeFileBlock
    <3>3. CASE b.type \notin {"image", "file"}
      BY <3>3 DEF OpenRouter!encodeUserContentBlock
    <3>4. QED
      BY <3>1, <3>2, <3>3
  <2>3. OneItem(OpenRouter!gatherText(b, at), at)
    BY DEF OpenRouter!gatherText
  <2>4. m.role = "assistant" => OneItem(OfOpenRouter(m.role, b, at), at)
    BY DEF OfOpenRouter, OpenRouter!encodeToolCallBlock, OpenRouter!Written
  <2>5. QED
    BY <2>2, <2>3, <2>4, <1>2 DEF OfOpenRouter, OfCompletion
<1>3. CASE m.role = "tool"
  <2>1. OneItem(OpenRouter!encodeToolResult(b, at), at)
    BY DEF OpenRouter!encodeToolResult
  <2>2. QED
    BY <2>1, <1>3 DEF OfOpenRouter, OfCompletion
<1>4. QED
  BY <1>1, <1>2, <1>3, BlockTypes DEF Roles

(* The CLI providers: one item of a block, or none.                        *)
LEMMA CliShape ==
  ASSUME NEW m \in AllMessages, NEW at \in AllPlaces, at[2] \in DOMAIN m.content
  PROVE  /\ OneItem(OfClaude(m, m.content[at[2]], at), at)
         /\ OneItem(OfCodex(m.role, m.content[at[2]], at), at)
<1> DEFINE b == m.content[at[2]]
<1> USE DEF Cli!Item, Cli!Error, Cli!Written, Item, OneItem, Items, Kinds, Forms
<1>1. CASE m.role = "system"
  BY <1>1 DEF OfClaude, OfCodex
<1>2. CASE m.role \in {"user", "assistant"}
  <2>1. b \in ContentBlocks
    BY <1>2, BlockTypes
  <2>2. OneItem(Cli!extractText(b, at), at) /\ OneItem(Cli!encodeContentBlock(b, at), at)
    BY DEF Cli!extractText, Cli!encodeContentBlock
  <2>3. OneItem(Cli!extractTextFromContent(b, at), at)
    <3> HIDE DEF b
    <3>1. QED
      BY <2>1, ContentTypes DEF Cli!extractTextFromContent
  <2>4. QED
    BY <2>2, <2>3, <1>2 DEF OfClaude, OfCodex
<1>3. CASE m.role = "tool"
  <2>1. OneItem(Cli!encodeToolResult(b, at), at)
    BY DEF Cli!encodeToolResult
  <2>2. OneItem(Cli!extractToolResult(b, at), at)
    <3>1. b \in ToolResultBlocks
      BY <1>3, BlockTypes
    <3> HIDE DEF b
    <3>2. b.result \in Forms \cup {"nil"}
      BY <3>1 DEF ToolResultBlocks, Results
    <3>3. Cli!Printed(b.content) \in Forms
      BY DEF Cli!Printed
    <3>4. QED
      BY <3>2, <3>3 DEF Cli!extractToolResult
  <2>3. QED
    BY <2>1, <2>2, <1>3 DEF OfClaude, OfCodex
<1>4. QED
  BY <1>1, <1>2, <1>3, BlockTypes DEF Roles

(* A codec makes one item of a block, or none.                             *)
LEMMA BlockShape ==
  ASSUME NEW p \in Providers, NEW m \in AllMessages, NEW at \in AllPlaces, at[2] \in DOMAIN m.content
  PROVE  OneItem(OfBlock(p, m, at), at)
<1> DEFINE b == m.content[at[2]]
<1>1. CASE p \in OpenAI!Families
  <2>1. OfBlock(p, m, at) = OfOpenAI(p, m.role, b, at)
    BY <1>1 DEF OfBlock, OpenAI!Families
  <2>2. QED
    BY <2>1, <1>1, OpenAIShape
<1>2. CASE p \notin OpenAI!Families
  BY <1>2, AnthropicShape, OpenRouterShape, CliShape DEF OfBlock, Providers, OpenAI!Families
<1>3. QED
  BY <1>1, <1>2

-----------------------------------------------------------------------------
(***************************************************************************)
(* Anthropic's merging of messages: blocks change in their metadata only,  *)
(* and merging what has been merged changes nothing.                       *)
(***************************************************************************)

(* The prompt as a provider encodes it.                                    *)
Merged(p, q) == IF p = "anthropic" THEN Anthropic!mergeMessages(q) ELSE q

(* n is m, except that blocks without metadata may have taken that of m.   *)
MarkedLike(n, m) ==
  /\ n.role = m.role /\ n.meta = m.meta
  /\ DOMAIN n.content = DOMAIN m.content
  /\ \A j \in DOMAIN m.content :
       \/ n.content[j] = m.content[j]
       \/ /\ m.content[j].meta = "none" /\ m.content[j].type # "source"
          /\ n.content[j] = [m.content[j] EXCEPT !.meta = m.meta]

(* A block with other metadata is still a block of its type.               *)
LEMMA MarkedBlock ==
  ASSUME NEW b \in ContentBlocks \cup ToolResultBlocks, NEW meta \in Metas
  PROVE  /\ b \in ContentBlocks => [b EXCEPT !.meta = meta] \in ContentBlocks
         /\ b \in ToolResultBlocks => [b EXCEPT !.meta = meta] \in ToolResultBlocks
         /\ [b EXCEPT !.meta = meta].meta = meta /\ [b EXCEPT !.meta = meta].type = b.type
<1> DEFINE c == [b EXCEPT !.meta = meta]
<1>1. b \in TextBlocks => c \in TextBlocks /\ c.meta = meta /\ c.type = b.type
  BY DEF TextBlocks
<1>2. b \in ImageBlocks => c \in ImageBlocks /\ c.meta = meta /\ c.type = b.type
  BY DEF ImageBlocks
<1>3. b \in FileBlocks => c \in FileBlocks /\ c.meta = meta /\ c.type = b.type
  BY DEF FileBlocks
<1>4. b \in ToolCallBlocks => c \in ToolCallBlocks /\ c.meta = meta /\ c.type = b.type
  BY DEF ToolCallBlocks
<1>5. b \in ReasoningBlocks => c \in ReasoningBlocks /\ c.meta = meta /\ c.type = b.type
  BY DEF ReasoningBlocks
<1>6. b \in SourceBlocks => c \in SourceBlocks /\ c.meta = meta /\ c.type = b.type
  BY DEF SourceBlocks
<1>7. b \in ToolResultBlocks => c \in ToolResultBlocks /\ c.meta = meta /\ c.type = b.type
  BY DEF ToolResultBlocks
<1> HIDE DEF c
<1>8. QED
  BY <1>1, <1>2, <1>3, <1>4, <1>5, <1>6, <1>7 DEF ContentBlocks, c

(* A sequence with one element replaced is one.                            *)
LEMMA ReplaceInSeq ==
  ASSUME NEW S, NEW s \in Seq(S), NEW n \in DOMAIN s, NEW x \in S
  PROVE  [s EXCEPT ![n] = x] \in Seq(S)
  OBVIOUS

(* mergeMessageGroup writes metadata into the last block only, and the     *)
(* second time nothing.                                                    *)
LEMMA GroupMarks ==
  ASSUME NEW m \in AllMessages, m.role # "system"
  PROVE  /\ Anthropic!mergeMessageGroup(m) \in AllMessages
         /\ MarkedLike(Anthropic!mergeMessageGroup(m), m)
         /\ Anthropic!mergeMessageGroup(Anthropic!mergeMessageGroup(m)) = Anthropic!mergeMessageGroup(m)
<1> DEFINE g == Anthropic!mergeMessageGroup(m)
           N == Len(m.content)
           b == m.content[N]
           c == Anthropic!applyMetadataPrecedenceToBlock(b, m.meta)
<1>0. /\ m \in [role : Roles, content : Seq(ContentBlocks \cup ToolResultBlocks), meta : Metas] /\ IsMessage(m)
      /\ N \in Nat /\ DOMAIN m.content = 1..N
  BY DEF AllMessages
<1>1. CASE N = 0
  <2>1. g = m
    BY <1>1 DEF Anthropic!mergeMessageGroup
  <2>2. QED
    BY <2>1 DEF MarkedLike
<1>2. CASE N # 0
  <2>1. /\ g = [m EXCEPT !.content = [m.content EXCEPT ![N] = c]]
    BY <1>2, <1>0 DEF Anthropic!mergeMessageGroup
  <2>2. b \in ContentBlocks \cup ToolResultBlocks /\ N \in DOMAIN m.content
    BY <1>0, <1>2
  <2>3. \/ c = b /\ (m.meta = "none" \/ b.meta # "none" \/ b.type = "source")
        \/ b.meta = "none" /\ b.type # "source" /\ m.meta # "none" /\ c = [b EXCEPT !.meta = m.meta]
    BY DEF Anthropic!applyMetadataPrecedenceToBlock, Anthropic!IsZero
  <2>4. m.meta \in Metas
    BY <1>0
  <2> HIDE DEF b, c
  <2>5. /\ b \in ContentBlocks => c \in ContentBlocks
        /\ b \in ToolResultBlocks => c \in ToolResultBlocks
        /\ c = b \/ (c.meta = m.meta /\ c.type = b.type)
    <3>1. CASE c = b
      BY <3>1
    <3>2. CASE c = [b EXCEPT !.meta = m.meta]
      BY <3>2, <2>2, <2>4, MarkedBlock
    <3>3. QED
      BY <2>3, <3>1, <3>2
  <2>6. /\ g.role = m.role /\ g.meta = m.meta /\ DOMAIN g.content = DOMAIN m.content
        /\ g.content = [m.content EXCEPT ![N] = c]
    BY <2>1, <1>0
  <2>7. MarkedLike(g, m)
    BY <2>6, <2>3, <1>0 DEF MarkedLike, b
  <2>8. g \in AllMessages
    <3>1. CASE m.role \in {"user", "assistant"}
      <4>1. m.content \in Seq(ContentBlocks) /\ b \in ContentBlocks
        BY <3>1, <1>0, <2>2, BlockTypes DEF IsMessage, b
      <4>2. [m.content EXCEPT ![N] = c] \in Seq(ContentBlocks)
        BY <4>1, <2>2, <2>5, ReplaceInSeq
      <4>3. g \in [role : {"user", "assistant"}, content : Seq(ContentBlocks), meta : Metas]
        BY <4>2, <2>1, <1>0, <3>1
      <4>4. g \in [role : Roles, content : Seq(ContentBlocks \cup ToolResultBlocks), meta : Metas]
        BY <4>1, <2>1, <2>5, <1>0
      <4>5. QED
        BY <4>3, <4>4 DEF AllMessages, IsMessage
    <3>2. CASE m.role = "tool"
      <4>1. m.content \in Seq(ToolResultBlocks) /\ b \in ToolResultBlocks
        BY <3>2, <1>0, <2>2, BlockTypes DEF IsMessage, b
      <4>2. [m.content EXCEPT ![N] = c] \in Seq(ToolResultBlocks)
        BY <4>1, <2>2, <2>5, ReplaceInSeq
      <4>3. g \in [role : {"tool"}, content : Seq(ToolResultBlocks), meta : Metas]
        BY <4>2, <2>1, <1>0, <3>2
      <4>4. g \in [role : Roles, content : Seq(ContentBlocks \cup ToolResultBlocks), meta : Metas]
        BY <4>1, <2>1, <2>5, <1>0
      <4>5. QED
        BY <4>3, <4>4 DEF AllMessages, IsMessage
    <3>3. QED
      BY <3>1, <3>2, <1>0 DEF Roles
  <2>9. Anthropic!mergeMessageGroup(g) = g
    <3>1. Len(g.content) = N /\ g.content[N] = c
      BY <2>6, <1>0, <1>2
    <3>2. Anthropic!applyMetadataPrecedenceToBlock(c, g.meta) = c
      BY <2>3, <2>5, <2>6 DEF Anthropic!applyMetadataPrecedenceToBlock, Anthropic!IsZero
    <3>3. [g EXCEPT !.content[N] = c] = g
      BY <3>1, <2>1, <1>0, <1>2
    <3>4. QED
      BY <3>1, <3>2, <3>3, <1>2 DEF Anthropic!mergeMessageGroup
  <2>10. QED
    BY <2>7, <2>8, <2>9
<1>3. QED
  BY <1>1, <1>2

(* mergeMessages returns a prompt, and leaves the caller with a prompt,    *)
(* that differ from the given one in the metadata of blocks only.          *)
LEMMA MergeMarks ==
  ASSUME NEW q \in Prompts
  PROVE  /\ Anthropic!mergeMessages(q) \in Prompts
         /\ Anthropic!AfterMerge(q) \in Prompts
         /\ DOMAIN Anthropic!mergeMessages(q) = DOMAIN q
         /\ DOMAIN Anthropic!AfterMerge(q) = DOMAIN q
         /\ \A i \in DOMAIN q : MarkedLike(Anthropic!mergeMessages(q)[i], q[i])
         /\ \A i \in DOMAIN q : MarkedLike(Anthropic!AfterMerge(q)[i], q[i])
<1>0. Len(q) \in Nat /\ DOMAIN q = 1..Len(q) /\ \A i \in DOMAIN q : q[i] \in AllMessages
  BY DEF Prompts
<1>1. ASSUME NEW i \in DOMAIN q
      PROVE  /\ Anthropic!mergeMessages(q)[i] \in AllMessages /\ MarkedLike(Anthropic!mergeMessages(q)[i], q[i])
             /\ Anthropic!AfterMerge(q)[i] \in AllMessages /\ MarkedLike(Anthropic!AfterMerge(q)[i], q[i])
  <2>1. q[i].role = "system" => Anthropic!IsAlone(q, i)
    BY <1>0 DEF Anthropic!IsAlone, Anthropic!StartsGroup, Anthropic!IsSystem
  <2>2. Anthropic!mergeMessages(q)[i] = IF Anthropic!IsAlone(q, i) THEN q[i] ELSE Anthropic!mergeMessageGroup(q[i])
    BY DEF Anthropic!mergeMessages
  <2>3. Anthropic!AfterMerge(q)[i] = IF q[i].role = "tool" THEN q[i] ELSE Anthropic!mergeMessages(q)[i]
    BY DEF Anthropic!AfterMerge
  <2>4. MarkedLike(q[i], q[i])
    BY DEF MarkedLike
  <2>5. QED
    BY <2>1, <2>2, <2>3, <2>4, <1>0, GroupMarks
<1>2. DOMAIN Anthropic!mergeMessages(q) = DOMAIN q /\ DOMAIN Anthropic!AfterMerge(q) = DOMAIN q
  BY DEF Anthropic!mergeMessages, Anthropic!AfterMerge
<1>3. Anthropic!mergeMessages(q) \in Prompts
  BY <1>0, <1>1 DEF Prompts, Anthropic!mergeMessages
<1>4. Anthropic!AfterMerge(q) \in Prompts
  BY <1>0, <1>1 DEF Prompts, Anthropic!AfterMerge
<1>5. QED
  BY <1>1, <1>2, <1>3, <1>4

(* What Anthropic's codec makes of the prompt it has written to is what it *)
(* made of it before.                                                      *)
LEMMA MergeTwice ==
  ASSUME NEW q \in Prompts
  PROVE  Anthropic!mergeMessages(Anthropic!AfterMerge(q)) = Anthropic!mergeMessages(q)
<1> DEFINE r == Anthropic!AfterMerge(q)
<1>0. Len(q) \in Nat /\ DOMAIN q = 1..Len(q) /\ \A i \in DOMAIN q : q[i] \in AllMessages
  BY DEF Prompts
<1>1. /\ r \in Prompts /\ DOMAIN r = DOMAIN q /\ Len(r) = Len(q)
      /\ \A i \in DOMAIN q : r[i].role = q[i].role
  BY <1>0, MergeMarks DEF MarkedLike, Prompts
<1>2. ASSUME NEW i \in DOMAIN q PROVE Anthropic!mergeMessages(r)[i] = Anthropic!mergeMessages(q)[i]
  <2>1. Anthropic!IsAlone(r, i) <=> Anthropic!IsAlone(q, i)
    BY <1>0, <1>1 DEF Anthropic!IsAlone, Anthropic!StartsGroup, Anthropic!IsSystem
  <2>2. /\ Anthropic!mergeMessages(q)[i] = IF Anthropic!IsAlone(q, i) THEN q[i] ELSE Anthropic!mergeMessageGroup(q[i])
        /\ Anthropic!mergeMessages(r)[i] = IF Anthropic!IsAlone(r, i) THEN r[i] ELSE Anthropic!mergeMessageGroup(r[i])
    BY <1>1 DEF Anthropic!mergeMessages
  <2>3. r[i] = IF q[i].role = "tool" THEN q[i] ELSE Anthropic!mergeMessages(q)[i]
    BY DEF Anthropic!AfterMerge
  <2>4. q[i].role = "system" => Anthropic!IsAlone(q, i)
    BY <1>0 DEF Anthropic!IsAlone, Anthropic!StartsGroup, Anthropic!IsSystem
  <2> HIDE DEF r
  <2>5. QED
    BY <2>1, <2>2, <2>3, <2>4, <1>0, GroupMarks
<1>3. /\ Anthropic!mergeMessages(r) = [i \in DOMAIN q |-> Anthropic!mergeMessages(r)[i]]
      /\ Anthropic!mergeMessages(q) = [i \in DOMAIN q |-> Anthropic!mergeMessages(q)[i]]
  BY <1>1 DEF Anthropic!mergeMessages
<1>4. QED
  BY <1>2, <1>3

-----------------------------------------------------------------------------
(***************************************************************************)
(* The items of a request: for every provider, those of the prompt's       *)
(* blocks, in the order that IsAhead says.                                 *)
(***************************************************************************)

(* As IsAhead, but for the blocks that OpenRouter refuses: its errors come *)
(* with the calls.                                                         *)
IsLate(q, at) == q[at[1]].role = "assistant" /\ BlockAt(q, at).type # "text"

(* IsAhead, by the place alone: the order in which the codecs write.       *)
Precedes(p, q, a, b) ==
  CASE p \in {"anthropic", "claude-code", "codex"} /\ InSystem(q, a) # InSystem(q, b) -> InSystem(q, a)
    [] p = "openrouter" /\ a[1] = b[1] /\ IsLate(q, a) # IsLate(q, b) -> IsLate(q, b)
    [] OTHER -> Earlier(a, b)

Ahead(p, q) == {pair \in AllPlaces \X AllPlaces : Precedes(p, q, pair[1], pair[2])}
Row(q, i) == {i} \X DOMAIN q[i].content
OfAll(p, q) == [at \in Places(q) |-> OfBlock(p, q[at[1]], at)]

(* The parts of a prompt and of its places have their types.               *)
LEMMA PromptParts ==
  ASSUME NEW q \in Prompts
  PROVE  /\ Len(q) \in Nat /\ DOMAIN q = 1..Len(q)
         /\ \A i \in DOMAIN q : /\ i \in Nat /\ q[i] \in AllMessages /\ q[i].role \in Roles
                                /\ Len(q[i].content) \in Nat /\ DOMAIN q[i].content = 1..Len(q[i].content)
                                /\ Row(q, i) \subseteq AllPlaces
         /\ Places(q) = UNION {Row(q, i) : i \in DOMAIN q}
         /\ Places(q) \subseteq AllPlaces
         /\ \A at \in Places(q) : at[1] \in DOMAIN q /\ at[2] \in DOMAIN q[at[1]].content /\ at = <<at[1], at[2]>>
<1>1. Len(q) \in Nat /\ DOMAIN q = 1..Len(q) /\ \A i \in DOMAIN q : q[i] \in AllMessages
  BY DEF Prompts
<1>2. ASSUME NEW i \in DOMAIN q
      PROVE  /\ i \in Nat /\ q[i] \in AllMessages /\ q[i].role \in Roles
             /\ Len(q[i].content) \in Nat /\ DOMAIN q[i].content = 1..Len(q[i].content)
  BY <1>1 DEF AllMessages
<1>3. \A i \in DOMAIN q : Row(q, i) \subseteq AllPlaces
  BY <1>1, <1>2 DEF Row, AllPlaces
<1>4. Places(q) = UNION {Row(q, i) : i \in DOMAIN q}
  BY DEF Places, Row
<1>5. ASSUME NEW at \in Places(q)
      PROVE  at[1] \in DOMAIN q /\ at[2] \in DOMAIN q[at[1]].content /\ at = <<at[1], at[2]>> /\ at \in AllPlaces
  <2>1. PICK i \in DOMAIN q : at \in Row(q, i)
    BY <1>4
  <2>2. at \in AllPlaces
    BY <2>1, <1>3
  <2>3. QED
    BY <2>1, <2>2 DEF Row
<1>6. QED
  BY <1>1, <1>2, <1>3, <1>4, <1>5

(* The order of the places within a message, and between two messages.     *)
LEMMA RowAhead ==
  ASSUME NEW p \in Providers, NEW q \in Prompts, NEW i \in DOMAIN q,
         NEW j \in DOMAIN q[i].content, NEW k \in DOMAIN q[i].content, j < k,
         p = "openrouter" => (IsLate(q, <<i, j>>) <=> IsLate(q, <<i, k>>))
  PROVE  <<<<i, j>>, <<i, k>>>> \in Ahead(p, q)
<1>1. <<i, j>> \in AllPlaces /\ <<i, k>> \in AllPlaces
  BY PromptParts DEF AllPlaces
<1>2. Earlier(<<i, j>>, <<i, k>>)
  BY DEF Earlier
<1>3. InSystem(q, <<i, j>>) = InSystem(q, <<i, k>>)
  BY DEF InSystem
<1>4. p = "openrouter" => IsLate(q, <<i, j>>) = IsLate(q, <<i, k>>)
  BY DEF IsLate
<1> HIDE DEF InSystem, IsLate
<1>6. Precedes(p, q, <<i, j>>, <<i, k>>)
  BY <1>2, <1>3, <1>4 DEF Precedes
<1>5. QED
  BY <1>1, <1>6 DEF Ahead

(* An earlier message is ahead, except that OpenRouter does not mix two.   *)
LEMMA RowsAhead ==
  ASSUME NEW p \in Providers, NEW q \in Prompts, NEW i \in DOMAIN q, NEW k \in DOMAIN q,
         NEW a \in Row(q, i), NEW b \in Row(q, k),
         IF p \in {"anthropic", "claude-code", "codex"} /\ (IsSystem(q[i]) # IsSystem(q[k])) THEN IsSystem(q[i])
            ELSE i < k
  PROVE  <<a, b>> \in Ahead(p, q)
<1>1. a \in AllPlaces /\ b \in AllPlaces /\ a[1] = i /\ b[1] = k /\ i \in Nat /\ k \in Nat
  BY PromptParts DEF Row
<1>2. Precedes(p, q, a, b)
  BY <1>1 DEF Precedes, InSystem, Earlier
<1>3. QED
  BY <1>1, <1>2 DEF Ahead

(* A message that is encoded block by block, in order.                     *)
LEMMA MessageInOrder ==
  ASSUME NEW p \in Providers, NEW q \in Prompts, NEW i \in DOMAIN q,
         NEW D \in SUBSET Row(q, i), NEW t, t =
                   [j \in DOMAIN q[i].content |-> IF <<i, j>> \in D THEN OfBlock(p, q[i], <<i, j>>) ELSE <<>>],
         \A a, b \in D : p = "openrouter" => (IsLate(q, a) <=> IsLate(q, b))
  PROVE  InOrder(FlattenSeq(t), D, OfAll(p, q), Ahead(p, q))
<1> DEFINE N == Len(q[i].content)
<1>1. i \in Nat /\ N \in Nat /\ DOMAIN q[i].content = 1..N /\ Row(q, i) = {i} \X (1..N) /\ q[i] \in AllMessages
  BY PromptParts DEF Row
<1> HIDE DEF N
<1>2. ASSUME NEW j \in 1..N
      PROVE  IF <<i, j>> \in D
             THEN /\ t[j] = OfAll(p, q)[<<i, j>>]
                  /\ t[j] = <<>> \/ \E x \in Items : t[j] = <<x>> /\ x.at = <<i, j>>
             ELSE t[j] = <<>>
  <2>1. <<i, j>> \in Places(q) /\ <<i, j>> \in AllPlaces /\ j \in DOMAIN q[i].content
    BY <1>1, PromptParts DEF Row
  <2>2. t[j] = IF <<i, j>> \in D THEN OfBlock(p, q[i], <<i, j>>) ELSE <<>>
    BY <2>1
  <2>3. OneItem(OfBlock(p, q[i], <<i, j>>), <<i, j>>)
    BY <2>1, <1>1, BlockShape
  <2>4. OfAll(p, q)[<<i, j>>] = OfBlock(p, q[i], <<i, j>>)
    BY <2>1 DEF OfAll
  <2>5. QED
    BY <2>2, <2>3, <2>4 DEF OneItem
<1>3. \A j, k \in 1..N : j < k /\ <<i, j>> \in D /\ <<i, k>> \in D => <<<<i, j>>, <<i, k>>>> \in Ahead(p, q)
  BY <1>1, RowAhead
<1>4. DOMAIN t = 1..N /\ t = [j \in 1..N |-> t[j]] /\ D \in SUBSET ({i} \X (1..N))
  BY <1>1
<1>5. QED
  BY <1>1, <1>2, <1>3, <1>4, RowInOrder

(* The messages of M, and nothing of the others.                           *)
LEMMA MessagesInOrder ==
  ASSUME NEW p \in Providers, NEW q \in Prompts, NEW M \in SUBSET DOMAIN q,
         NEW t, t = [i \in DOMAIN q |-> t[i]],
         \A i \in DOMAIN q : IF i \in M THEN InOrder(t[i], Row(q, i), OfAll(p, q), Ahead(p, q)) ELSE t[i] = <<>>,
         p \in {"anthropic", "claude-code", "codex"} => \A i, k \in M : IsSystem(q[i]) <=> IsSystem(q[k])
  PROVE  InOrder(FlattenSeq(t), UNION {Row(q, i) : i \in M}, OfAll(p, q), Ahead(p, q))
<1> DEFINE D == [i \in DOMAIN q |-> IF i \in M THEN Row(q, i) ELSE {}]
           F == OfAll(p, q)
           R == Ahead(p, q)
           all == UNION {Row(q, i) : i \in M}
<1> HIDE DEF F, R
<1>1. Len(q) \in Nat /\ DOMAIN q = 1..Len(q)
  BY PromptParts
<1>2. \A i \in DOMAIN q : IF i \in M THEN InOrder(t[i], Row(q, i), F, R) ELSE t[i] = <<>>
  BY DEF F, R
<1>3. \A i \in DOMAIN q : t[i] \in Seq(Items)
  <2>1. <<>> \in Seq(Items)
    OBVIOUS
  <2>2. QED
    BY <1>2, <2>1 DEF InOrder
<1>4. t \in Seq(Seq(Items)) /\ DOMAIN t = DOMAIN q
  BY <1>1, <1>3
<1>5. ASSUME NEW i \in DOMAIN t PROVE InOrder(t[i], D[i], F, R)
  <2>1. CASE i \in M
    BY <2>1, <1>2, <1>4
  <2>2. CASE i \notin M
    <3>1. t[i] = <<>> /\ D[i] = {}
      BY <2>2, <1>2, <1>4
    <3>2. InOrder(<<>>, {}, F, R)
      BY DEF InOrder
    <3>3. QED
      BY <3>1, <3>2
  <2>3. QED
    BY <2>1, <2>2
<1>6. ASSUME NEW i \in DOMAIN t, NEW k \in DOMAIN t, i < k, NEW a \in D[i], NEW b \in D[k] PROVE <<a, b>> \in R
  <2>1. i \in M /\ k \in M /\ a \in Row(q, i) /\ b \in Row(q, k)
    BY <1>4
  <2>2. p \in {"anthropic", "claude-code", "codex"} => IsSystem(q[i]) = IsSystem(q[k])
    BY <2>1 DEF IsSystem
  <2>3. i \in DOMAIN q /\ k \in DOMAIN q
    BY <1>4
  <2>4. <<a, b>> \in Ahead(p, q)
    BY <2>1, <2>2, <2>3, <1>6, RowsAhead
  <2>5. QED
    BY <2>4 DEF R
<1>7. all = UNION {D[i] : i \in DOMAIN t}
  BY <1>4
<1> HIDE DEF D, all
<1>8. InOrder(FlattenSeq(t), all, F, R)
  BY <1>4, <1>5, <1>6, <1>7, RowsInOrder
<1>9. QED
  BY <1>8 DEF all, F, R

(* What becomes of the blocks of a message.                                *)
BlocksOf(p, q, i) == [j \in DOMAIN q[i].content |-> OfBlock(p, q[i], <<i, j>>)]

(* The blocks of a message that is encoded block by block.                 *)
LEMMA BlocksInOrder ==
  ASSUME NEW p \in Providers, NEW q \in Prompts, NEW i \in DOMAIN q, p = "openrouter" => q[i].role # "assistant"
  PROVE  InOrder(FlattenSeq(BlocksOf(p, q, i)), Row(q, i), OfAll(p, q), Ahead(p, q))
<1> DEFINE D == Row(q, i)
           t == [j \in DOMAIN q[i].content |-> IF <<i, j>> \in D THEN OfBlock(p, q[i], <<i, j>>) ELSE <<>>]
<1>1. t = BlocksOf(p, q, i)
  BY DEF BlocksOf, Row
<1>2. \A a, b \in D : p = "openrouter" => (IsLate(q, a) <=> IsLate(q, b))
  BY DEF IsLate, Row
<1> HIDE DEF D
<1>3. InOrder(FlattenSeq(t), D, OfAll(p, q), Ahead(p, q))
  BY <1>2, MessageInOrder DEF D
<1>4. QED
  BY <1>1, <1>3 DEF D

(* The instances share the operators of the library,                       *)
LEMMA SameFlatten ==
  ASSUME NEW s
  PROVE  /\ Anthropic!FlattenSeq(s) = FlattenSeq(s)
         /\ OpenAI!FlattenSeq(s) = FlattenSeq(s)
         /\ OpenRouter!FlattenSeq(s) = FlattenSeq(s)
         /\ Cli!FlattenSeq(s) = FlattenSeq(s)
BY DEF Anthropic!FlattenSeq, OpenAI!FlattenSeq, OpenRouter!FlattenSeq, Cli!FlattenSeq, FlattenSeq

(* and those of Messages.                                                  *)
LEMMA SameRequest ==
  ASSUME NEW items, NEW warned
  PROVE  /\ Anthropic!Request(items, warned) = Request(items, warned)
         /\ OpenAI!Request(items, warned) = Request(items, warned)
         /\ OpenRouter!Request(items, warned) = Request(items, warned)
         /\ Cli!Request(items, warned) = Request(items, warned)
BY DEF Anthropic!Request, OpenAI!Request, OpenRouter!Request, Cli!Request, Request,
       Anthropic!Refused, OpenAI!Refused, OpenRouter!Refused, Cli!Refused, Refused

(* The messages one after the other, each with its blocks.                 *)
LEMMA OpenAIEncodes ==
  ASSUME NEW f \in OpenAI!Families, NEW q \in Prompts
  PROVE  \E items : /\ OpenAI!EncodePrompt(f, q) = Request(items, OpenAI!RemovedSystems(f, q))
                    /\ InOrder(items, Places(q), OfAll(f, q), Ahead(f, q))
<1>0. f \in Providers /\ f \notin {"anthropic", "claude-code", "codex", "openrouter"}
  BY DEF Providers, OpenAI!Families
<1>1. ASSUME NEW i \in DOMAIN q PROVE OpenAI!encodeMessage(f, q, i) = FlattenSeq(BlocksOf(f, q, i))
  <2>1. BlocksOf(f, q, i) = [j \in DOMAIN q[i].content |-> OfOpenAI(f, q[i].role, q[i].content[j], <<i, j>>)]
    BY <1>0 DEF BlocksOf, OfBlock, OpenAI!Families
  <2>2. q[i].role \in Roles
    BY PromptParts
  <2>3. CASE q[i].role = "system"
    <3>1. BlocksOf(f, q, i) = [j \in DOMAIN q[i].content |-> OpenAI!EncodeSystemMessage(f, <<i, j>>)]
      BY <2>1, <2>3 DEF OfOpenAI
    <3>2. OpenAI!encodeMessage(f, q, i) =
              FlattenSeq([j \in DOMAIN q[i].content |-> OpenAI!EncodeSystemMessage(f, <<i, j>>)])
      BY <2>3, SameFlatten DEF OpenAI!encodeMessage, OpenAI!EachBlock
    <3>3. QED
      BY <3>1, <3>2
  <2>4. CASE q[i].role = "user"
    <3>1. BlocksOf(f, q, i) = [j \in DOMAIN q[i].content |-> OpenAI!EncodeUserContentBlock(q[i].content[j], <<i, j>>)]
      BY <2>1, <2>4 DEF OfOpenAI
    <3>2. OpenAI!encodeMessage(f, q, i) =
              FlattenSeq([j \in DOMAIN q[i].content |-> OpenAI!EncodeUserContentBlock(q[i].content[j], <<i, j>>)])
      BY <2>4, SameFlatten DEF OpenAI!encodeMessage, OpenAI!EachBlock
    <3>3. QED
      BY <3>1, <3>2
  <2>5. CASE q[i].role = "assistant"
    <3>1. BlocksOf(f, q, i) = [j \in DOMAIN q[i].content |-> OpenAI!EncodeAssistantBlock(q[i].content[j], <<i, j>>)]
      BY <2>1, <2>5 DEF OfOpenAI
    <3>2. OpenAI!encodeMessage(f, q, i) =
              FlattenSeq([j \in DOMAIN q[i].content |-> OpenAI!EncodeAssistantBlock(q[i].content[j], <<i, j>>)])
      BY <2>5, SameFlatten DEF OpenAI!encodeMessage, OpenAI!EachBlock
    <3>3. QED
      BY <3>1, <3>2
  <2>6. CASE q[i].role = "tool"
    <3>1. BlocksOf(f, q, i) = [j \in DOMAIN q[i].content |-> OpenAI!EncodeToolResultBlock(q[i].content[j], <<i, j>>)]
      BY <2>1, <2>6 DEF OfOpenAI
    <3>2. OpenAI!encodeMessage(f, q, i) =
              FlattenSeq([j \in DOMAIN q[i].content |-> OpenAI!EncodeToolResultBlock(q[i].content[j], <<i, j>>)])
      BY <2>6, SameFlatten DEF OpenAI!encodeMessage, OpenAI!EachBlock
    <3>3. QED
      BY <3>1, <3>2
  <2>7. QED
    BY <1>1, <2>2, <2>3, <2>4, <2>5, <2>6 DEF Roles, IsSystem
<1> DEFINE t == [i \in DOMAIN q |-> OpenAI!encodeMessage(f, q, i)]
<1>2. ASSUME NEW i \in DOMAIN q PROVE InOrder(t[i], Row(q, i), OfAll(f, q), Ahead(f, q))
  BY <1>0, <1>1, BlocksInOrder
<1>3. t = [i \in DOMAIN q |-> t[i]]
  OBVIOUS
<1>4. OpenAI!EncodePrompt(f, q) = Request(FlattenSeq(t), OpenAI!RemovedSystems(f, q))
  BY SameFlatten, SameRequest DEF OpenAI!EncodePrompt, OpenAI!EachMessage, OpenAI!AnyMessage
<1> HIDE DEF t
<1>5. InOrder(FlattenSeq(t), UNION {Row(q, i) : i \in DOMAIN q}, OfAll(f, q), Ahead(f, q))
  BY <1>0, <1>2, <1>3, MessagesInOrder
<1>6. QED
  BY <1>4, <1>5, PromptParts

(* An assistant message, whose calls come after its texts.                 *)
LEMMA ChatMessageInOrder ==
  ASSUME NEW q \in Prompts, NEW i \in DOMAIN q, q[i].role = "assistant"
  PROVE  InOrder(OpenRouter!encodeAssistantMessage(q, i), Row(q, i), OfAll("openrouter", q), Ahead("openrouter", q))
<1> DEFINE D == {at \in Row(q, i) : ~IsLate(q, at)}
           E == {at \in Row(q, i) : IsLate(q, at)}
           TextOf(b, at) == IF b.type = "text" THEN <<Item("text", at, "text", FALSE)>> ELSE <<>>
           CallOf(b, at) == CASE b.type = "text" -> <<>>
                              [] b.type = "tool-call" -> <<OpenRouter!encodeToolCallBlock(b, at)>>
                              [] OTHER -> <<Error(at)>>
           s == [j \in DOMAIN q[i].content |-> TextOf(q[i].content[j], <<i, j>>)]
           t == [j \in DOMAIN q[i].content |-> CallOf(q[i].content[j], <<i, j>>)]
<1>0. "openrouter" \in Providers
  BY DEF Providers
<1>1. OpenRouter!encodeAssistantMessage(q, i) = FlattenSeq(s) \o FlattenSeq(t)
  BY SameFlatten DEF OpenRouter!encodeAssistantMessage, OpenRouter!EachBlock, OpenRouter!Item, Item,
     OpenRouter!Error, Error
<1>2. ASSUME NEW j \in DOMAIN q[i].content
      PROVE  /\ TextOf(q[i].content[j], <<i, j>>) = IF <<i, j>> \in D THEN OfBlock("openrouter", q[i], <<i, j>>)
                                                       ELSE <<>>
             /\ CallOf(q[i].content[j], <<i, j>>) = IF <<i, j>> \in E THEN OfBlock("openrouter", q[i], <<i, j>>)
                                                       ELSE <<>>
  <2>1. /\ <<i, j>> \in Row(q, i)
        /\ IsLate(q, <<i, j>>) <=> q[i].content[j].type # "text"
    BY DEF Row, IsLate, BlockAt
  <2>2. OfBlock("openrouter", q[i], <<i, j>>) = OfOpenRouter("assistant", q[i].content[j], <<i, j>>)
    BY DEF OfBlock, OpenAI!Families
  <2>3. QED
    BY <2>1, <2>2 DEF OfOpenRouter
<1>3. /\ s = [j \in DOMAIN q[i].content |-> IF <<i, j>> \in D THEN OfBlock("openrouter", q[i], <<i, j>>) ELSE <<>>]
      /\ t = [j \in DOMAIN q[i].content |-> IF <<i, j>> \in E THEN OfBlock("openrouter", q[i], <<i, j>>) ELSE <<>>]
  <2> HIDE DEF TextOf, CallOf, D, E
  <2>1. QED
    BY <1>2
<1>4. D \in SUBSET Row(q, i) /\ E \in SUBSET Row(q, i) /\ D \cup E = Row(q, i)
  OBVIOUS
<1>5. (\A a, b \in D : IsLate(q, a) <=> IsLate(q, b)) /\ (\A a, b \in E : IsLate(q, a) <=> IsLate(q, b))
  OBVIOUS
<1>6. ASSUME NEW a \in D, NEW b \in E PROVE <<a, b>> \in Ahead("openrouter", q)
  <2>1. a[1] = b[1] /\ a \in AllPlaces /\ b \in AllPlaces /\ IsLate(q, a) # IsLate(q, b) /\ IsLate(q, b)
    BY PromptParts DEF Row, IsLate
  <2>2. Precedes("openrouter", q, a, b)
    BY <2>1 DEF Precedes
  <2>3. QED
    BY <2>1, <2>2 DEF Ahead
<1> HIDE DEF D, E, s, t
<1>7. InOrder(FlattenSeq(s), D, OfAll("openrouter", q), Ahead("openrouter", q))
  BY <1>0, <1>3, <1>4, <1>5, MessageInOrder
<1>8. InOrder(FlattenSeq(t), E, OfAll("openrouter", q), Ahead("openrouter", q))
  BY <1>0, <1>3, <1>4, <1>5, MessageInOrder
<1>9. InOrder(FlattenSeq(s) \o FlattenSeq(t), D \cup E, OfAll("openrouter", q), Ahead("openrouter", q))
  BY <1>6, <1>7, <1>8, ConcatInOrder
<1>10. QED
  BY <1>1, <1>4, <1>9

(* OpenRouter: the messages one after the other, the calls of each last.   *)
LEMMA OpenRouterEncodes ==
  ASSUME NEW q \in Prompts
  PROVE  \E items : /\ OpenRouter!EncodePrompt(q) = Request(items, {})
                    /\ InOrder(items, Places(q), OfAll("openrouter", q), Ahead("openrouter", q))
<1>0. "openrouter" \in Providers
  BY DEF Providers
<1>1. ASSUME NEW i \in DOMAIN q, q[i].role # "assistant"
      PROVE  OpenRouter!encodeMessage(q, i) = FlattenSeq(BlocksOf("openrouter", q, i))
  <2>1. BlocksOf("openrouter", q, i) =
            [j \in DOMAIN q[i].content |-> OfOpenRouter(q[i].role, q[i].content[j], <<i, j>>)]
    BY DEF BlocksOf, OfBlock, OpenAI!Families
  <2>2. q[i].role \in Roles
    BY PromptParts
  <2>3. CASE q[i].role = "system"
    <3>1. BlocksOf("openrouter", q, i) =
              [j \in DOMAIN q[i].content |-> OpenRouter!encodeSystemMessage(q[i].content[j], <<i, j>>)]
      BY <2>1, <2>3 DEF OfOpenRouter
    <3>2. OpenRouter!encodeMessage(q, i) =
              FlattenSeq([j \in DOMAIN q[i].content |-> OpenRouter!encodeSystemMessage(q[i].content[j], <<i, j>>)])
      BY <2>3, SameFlatten DEF OpenRouter!encodeMessage, OpenRouter!EachBlock
    <3>3. QED
      BY <3>1, <3>2
  <2>4. CASE q[i].role = "user"
    <3>1. BlocksOf("openrouter", q, i) =
              [j \in DOMAIN q[i].content |-> OpenRouter!encodeUserContentBlock(q[i].content[j], <<i, j>>)]
      BY <2>1, <2>4 DEF OfOpenRouter
    <3>2. OpenRouter!encodeMessage(q, i) =
              FlattenSeq([j \in DOMAIN q[i].content |-> OpenRouter!encodeUserContentBlock(q[i].content[j], <<i, j>>)])
      BY <2>4, SameFlatten DEF OpenRouter!encodeMessage, OpenRouter!EachBlock
    <3>3. QED
      BY <3>1, <3>2
  <2>5. CASE q[i].role = "tool"
    <3>1. BlocksOf("openrouter", q, i) =
              [j \in DOMAIN q[i].content |-> OpenRouter!encodeToolResult(q[i].content[j], <<i, j>>)]
      BY <2>1, <2>5 DEF OfOpenRouter
    <3>2. OpenRouter!encodeMessage(q, i) =
              FlattenSeq([j \in DOMAIN q[i].content |-> OpenRouter!encodeToolResult(q[i].content[j], <<i, j>>)])
      BY <2>5, SameFlatten DEF OpenRouter!encodeMessage, OpenRouter!EachBlock
    <3>3. QED
      BY <3>1, <3>2
  <2>6. QED
    BY <1>1, <2>2, <2>3, <2>4, <2>5 DEF Roles, IsSystem
<1> DEFINE t == [i \in DOMAIN q |-> OpenRouter!encodeMessage(q, i)]
<1>2. ASSUME NEW i \in DOMAIN q PROVE InOrder(t[i], Row(q, i), OfAll("openrouter", q), Ahead("openrouter", q))
  <2>1. CASE q[i].role = "assistant"
    BY <2>1, ChatMessageInOrder DEF OpenRouter!encodeMessage
  <2>2. CASE q[i].role # "assistant"
    BY <2>2, <1>0, <1>1, BlocksInOrder
  <2>3. QED
    BY <2>1, <2>2
<1>3. t = [i \in DOMAIN q |-> t[i]]
  OBVIOUS
<1>4. OpenRouter!EncodePrompt(q) = Request(FlattenSeq(t), {})
  BY SameFlatten, SameRequest DEF OpenRouter!EncodePrompt, OpenRouter!EachMessage, OpenRouter!AnyMessage
<1> HIDE DEF t
<1>5. InOrder(FlattenSeq(t), UNION {Row(q, i) : i \in DOMAIN q}, OfAll("openrouter", q), Ahead("openrouter", q))
  BY <1>0, <1>2, <1>3, MessagesInOrder
<1>6. QED
  BY <1>4, <1>5, PromptParts

(* A completion: no tool message, and the system message at the front.     *)
IsCompletable(q) == \A i \in DOMAIN q : q[i].role # "tool" /\ (IsSystem(q[i]) => i = 1)

(* The completion prompt: every text, one after the other.                 *)
LEMMA CompletionEncodes ==
  ASSUME NEW q \in Prompts, IsCompletable(q)
  PROVE  \E items : /\ OpenRouter!ConvertToOpenRouterCompletionPrompt(q) = Request(items, {})
                    /\ InOrder(items, Places(q), OfAll("completion", q), Ahead("completion", q))
<1>0. "completion" \in Providers
  BY DEF Providers
<1>1. ASSUME NEW i \in DOMAIN q PROVE OpenRouter!writeMessage(q, i) = FlattenSeq(BlocksOf("completion", q, i))
  <2>1. BlocksOf("completion", q, i) =
            [j \in DOMAIN q[i].content |-> OfCompletion(q[i].role, q[i].content[j], <<i, j>>)]
    BY DEF BlocksOf, OfBlock, OpenAI!Families
  <2>2. q[i].role \in Roles
    BY PromptParts
  <2>3. CASE q[i].role = "system"
    <3>1. BlocksOf("completion", q, i) =
              [j \in DOMAIN q[i].content |-> OpenRouter!encodeSystemMessage(q[i].content[j], <<i, j>>)]
      BY <2>1, <2>3 DEF OfCompletion
    <3>2. OpenRouter!writeMessage(q, i) =
              FlattenSeq([j \in DOMAIN q[i].content |-> OpenRouter!encodeSystemMessage(q[i].content[j], <<i, j>>)])
      BY <2>3, SameFlatten DEF OpenRouter!writeMessage, IsCompletable, OpenRouter!IsSystem, IsSystem,
         OpenRouter!EachBlock
    <3>3. QED
      BY <3>1, <3>2
  <2>4. CASE q[i].role = "user"
    <3>1. BlocksOf("completion", q, i) =
              [j \in DOMAIN q[i].content |-> OpenRouter!gatherText(q[i].content[j], <<i, j>>)]
      BY <2>1, <2>4 DEF OfCompletion
    <3>2. OpenRouter!writeMessage(q, i) =
              FlattenSeq([j \in DOMAIN q[i].content |-> OpenRouter!gatherText(q[i].content[j], <<i, j>>)])
      BY <2>4, SameFlatten DEF OpenRouter!writeMessage, OpenRouter!IsSystem, OpenRouter!EachBlock
    <3>3. QED
      BY <3>1, <3>2
  <2>5. CASE q[i].role = "assistant"
    <3>1. BlocksOf("completion", q, i) =
              [j \in DOMAIN q[i].content |-> OpenRouter!gatherText(q[i].content[j], <<i, j>>)]
      BY <2>1, <2>5 DEF OfCompletion
    <3>2. OpenRouter!writeMessage(q, i) =
              FlattenSeq([j \in DOMAIN q[i].content |-> OpenRouter!gatherText(q[i].content[j], <<i, j>>)])
      BY <2>5, SameFlatten DEF OpenRouter!writeMessage, OpenRouter!IsSystem, OpenRouter!EachBlock
    <3>3. QED
      BY <3>1, <3>2
  <2>6. QED
    BY <1>1, <2>2, <2>3, <2>4, <2>5 DEF Roles, IsCompletable
<1> DEFINE t == [i \in DOMAIN q |-> OpenRouter!writeMessage(q, i)]
<1>2. ASSUME NEW i \in DOMAIN q PROVE InOrder(t[i], Row(q, i), OfAll("completion", q), Ahead("completion", q))
  BY <1>0, <1>1, BlocksInOrder
<1>3. t = [i \in DOMAIN q |-> t[i]]
  OBVIOUS
<1>4. OpenRouter!ConvertToOpenRouterCompletionPrompt(q) = Request(FlattenSeq(t), {})
  BY SameFlatten, SameRequest DEF OpenRouter!ConvertToOpenRouterCompletionPrompt, OpenRouter!EachMessage,
     OpenRouter!AnyMessage
<1> HIDE DEF t
<1>5. InOrder(FlattenSeq(t), UNION {Row(q, i) : i \in DOMAIN q}, OfAll("completion", q), Ahead("completion", q))
  BY <1>0, <1>2, <1>3, MessagesInOrder
<1>6. QED
  BY <1>4, <1>5, PromptParts

(* The system first: the messages of either kind, in order.                *)
LEMMA SystemFirst ==
  ASSUME NEW p \in {"anthropic", "claude-code", "codex"}, NEW q \in Prompts, NEW x, NEW y,
         x = [i \in DOMAIN q |-> x[i]], y = [i \in DOMAIN q |-> y[i]],
         \A i \in DOMAIN q : IF IsSystem(q[i]) THEN InOrder(x[i], Row(q, i), OfAll(p, q), Ahead(p, q)) /\ y[i] = <<>>
                             ELSE x[i] = <<>> /\ InOrder(y[i], Row(q, i), OfAll(p, q), Ahead(p, q))
  PROVE  InOrder(FlattenSeq(x) \o FlattenSeq(y), Places(q), OfAll(p, q), Ahead(p, q))
<1> DEFINE M == {i \in DOMAIN q : IsSystem(q[i])}
           N == {i \in DOMAIN q : ~IsSystem(q[i])}
           D == UNION {Row(q, i) : i \in M}
           E == UNION {Row(q, i) : i \in N}
<1>0. p \in Providers
  BY DEF Providers
<1>1. M \in SUBSET DOMAIN q /\ N \in SUBSET DOMAIN q
  OBVIOUS
<1>2. /\ \A i \in DOMAIN q : IF i \in M THEN InOrder(x[i], Row(q, i), OfAll(p, q), Ahead(p, q)) ELSE x[i] = <<>>
      /\ \A i \in DOMAIN q : IF i \in N THEN InOrder(y[i], Row(q, i), OfAll(p, q), Ahead(p, q)) ELSE y[i] = <<>>
  OBVIOUS
<1>3. /\ \A i, k \in M : IsSystem(q[i]) <=> IsSystem(q[k])
      /\ \A i, k \in N : IsSystem(q[i]) <=> IsSystem(q[k])
  OBVIOUS
<1>4. ASSUME NEW a \in D, NEW b \in E PROVE <<a, b>> \in Ahead(p, q)
  <2>1. PICK i \in M : a \in Row(q, i)
    OBVIOUS
  <2>2. PICK k \in N : b \in Row(q, k)
    OBVIOUS
  <2>3. IsSystem(q[i]) # IsSystem(q[k]) /\ IsSystem(q[i])
    BY <2>1, <2>2 DEF IsSystem
  <2>4. QED
    BY <2>1, <2>2, <2>3, <1>0, RowsAhead
<1>5. D \cup E = Places(q)
  BY PromptParts
<1> HIDE DEF M, N, D, E
<1>6. InOrder(FlattenSeq(x), D, OfAll(p, q), Ahead(p, q))
  BY <1>0, <1>1, <1>2, <1>3, MessagesInOrder DEF D
<1>7. InOrder(FlattenSeq(y), E, OfAll(p, q), Ahead(p, q))
  BY <1>0, <1>1, <1>2, <1>3, MessagesInOrder DEF E
<1>8. QED
  BY <1>4, <1>5, <1>6, <1>7, ConcatInOrder

(* The messages are those that mergeMessages has made.                     *)
LEMMA AnthropicEncodes ==
  ASSUME NEW c \in Prompts, ~Anthropic!SystemIsSeparated(c)
  PROVE  \E items : /\ Anthropic!EncodePrompt(c) = Request(items, {})
                    /\ InOrder(items, Places(Merged("anthropic", c)), OfAll("anthropic", Merged("anthropic", c)),
                               Ahead("anthropic", Merged("anthropic", c)))
<1> DEFINE q == Anthropic!mergeMessages(c)
           x == [i \in DOMAIN q |-> IF IsSystem(q[i]) THEN Anthropic!processMessage(q, i) ELSE <<>>]
           y == [i \in DOMAIN q |-> IF NotSystem(q[i]) THEN Anthropic!processMessage(q, i) ELSE <<>>]
<1>0. q \in Prompts /\ "anthropic" \in Providers
  BY MergeMarks DEF Providers
<1>6. Anthropic!EncodePrompt(c) = Request(FlattenSeq(x) \o FlattenSeq(y), {})
  BY SameFlatten, SameRequest
     DEF Anthropic!EncodePrompt, Anthropic!EachMessage, Anthropic!IsSystem, IsSystem, Anthropic!NotSystem, NotSystem
<1> HIDE DEF q
<1>1. ASSUME NEW i \in DOMAIN q PROVE Anthropic!processMessage(q, i) = FlattenSeq(BlocksOf("anthropic", q, i))
  <2>1. BlocksOf("anthropic", q, i) =
            [j \in DOMAIN q[i].content |-> OfAnthropic(q[i].role, q[i].content[j], <<i, j>>)]
    BY DEF BlocksOf, OfBlock, OpenAI!Families
  <2>2. q[i].role \in Roles
    BY <1>0, PromptParts
  <2>3. CASE q[i].role = "system"
    <3>1. BlocksOf("anthropic", q, i) =
              [j \in DOMAIN q[i].content |-> Anthropic!EncodeSystemMessage(q[i].content[j], <<i, j>>)]
      BY <2>1, <2>3 DEF OfAnthropic
    <3>2. Anthropic!processMessage(q, i) =
              FlattenSeq([j \in DOMAIN q[i].content |-> Anthropic!EncodeSystemMessage(q[i].content[j], <<i, j>>)])
      BY <2>3, SameFlatten DEF Anthropic!processMessage, Anthropic!EachBlock
    <3>3. QED
      BY <3>1, <3>2
  <2>4. CASE q[i].role = "user"
    <3>1. BlocksOf("anthropic", q, i) =
              [j \in DOMAIN q[i].content |-> Anthropic!EncodeUserContentBlock(q[i].content[j], <<i, j>>)]
      BY <2>1, <2>4 DEF OfAnthropic
    <3>2. Anthropic!processMessage(q, i) =
              FlattenSeq([j \in DOMAIN q[i].content |-> Anthropic!EncodeUserContentBlock(q[i].content[j], <<i, j>>)])
      BY <2>4, SameFlatten DEF Anthropic!processMessage, Anthropic!EachBlock
    <3>3. QED
      BY <3>1, <3>2
  <2>5. CASE q[i].role = "assistant"
    <3>1. BlocksOf("anthropic", q, i) =
              [j \in DOMAIN q[i].content |-> Anthropic!EncodeAssistantBlock(q[i].content[j], <<i, j>>)]
      BY <2>1, <2>5 DEF OfAnthropic
    <3>2. Anthropic!processMessage(q, i) =
              FlattenSeq([j \in DOMAIN q[i].content |-> Anthropic!EncodeAssistantBlock(q[i].content[j], <<i, j>>)])
      BY <2>5, SameFlatten DEF Anthropic!processMessage, Anthropic!EachBlock
    <3>3. QED
      BY <3>1, <3>2
  <2>6. CASE q[i].role = "tool"
    <3>1. BlocksOf("anthropic", q, i) =
              [j \in DOMAIN q[i].content |-> Anthropic!EncodeToolResult(q[i].content[j], <<i, j>>)]
      BY <2>1, <2>6 DEF OfAnthropic
    <3>2. Anthropic!processMessage(q, i) =
              FlattenSeq([j \in DOMAIN q[i].content |-> Anthropic!EncodeToolResult(q[i].content[j], <<i, j>>)])
      BY <2>6, SameFlatten DEF Anthropic!processMessage, Anthropic!EachBlock
    <3>3. QED
      BY <3>1, <3>2
  <2>7. QED
    BY <1>1, <2>2, <2>3, <2>4, <2>5, <2>6 DEF Roles, IsSystem
<1>2. \A i \in DOMAIN q : IF IsSystem(q[i])
                          THEN InOrder(x[i], Row(q, i), OfAll("anthropic", q), Ahead("anthropic", q)) /\ y[i] = <<>>
                          ELSE x[i] = <<>> /\ InOrder(y[i], Row(q, i), OfAll("anthropic", q), Ahead("anthropic", q))
  BY <1>0, <1>1, BlocksInOrder DEF IsSystem, NotSystem
<1>3. x = [i \in DOMAIN q |-> x[i]] /\ y = [i \in DOMAIN q |-> y[i]]
  OBVIOUS
<1> HIDE DEF x, y
<1>4. InOrder(FlattenSeq(x) \o FlattenSeq(y), Places(q), OfAll("anthropic", q), Ahead("anthropic", q))
  BY <1>0, <1>2, <1>3, SystemFirst
<1>5. Merged("anthropic", c) = q
  BY DEF Merged, q
<1>7. QED
  BY <1>4, <1>5, <1>6

(* claude: the system, and then a message for each other one.              *)
LEMMA ClaudeEncodes ==
  ASSUME NEW q \in Prompts
  PROVE  \E items : /\ Cli!EncodeClaude(q) = Request(items, {})
                    /\ InOrder(items, Places(q), OfAll("claude-code", q), Ahead("claude-code", q))
<1> DEFINE Write(b, at) == <<Item("system", at, "text", FALSE)>>
           z == [i \in DOMAIN q |-> FlattenSeq([j \in DOMAIN q[i].content |-> Write(q[i].content[j], <<i, j>>)])]
           x == [i \in DOMAIN q |-> IF IsSystem(q[i]) THEN z[i] ELSE <<>>]
           y == [i \in DOMAIN q |-> IF NotSystem(q[i]) THEN Cli!EncodeMessage(q, i) ELSE <<>>]
<1>0. "claude-code" \in Providers
  BY DEF Providers
<1>1. ASSUME NEW i \in DOMAIN q, ~IsSystem(q[i])
      PROVE  Cli!EncodeMessage(q, i) = FlattenSeq(BlocksOf("claude-code", q, i))
  <2>1. BlocksOf("claude-code", q, i) = [j \in DOMAIN q[i].content |-> OfClaude(q[i], q[i].content[j], <<i, j>>)]
    BY DEF BlocksOf, OfBlock, OpenAI!Families
  <2>2. q[i].role \in Roles
    BY PromptParts
  <2>3. CASE q[i].role = "user"
    <3>1. BlocksOf("claude-code", q, i) =
              [j \in DOMAIN q[i].content |->
                 IF Cli!isTextOnly(q[i].content) THEN Cli!extractText(q[i].content[j], <<i, j>>)
                 ELSE Cli!encodeContentBlock(q[i].content[j], <<i, j>>)]
      BY <2>1, <2>3 DEF OfClaude
    <3>2. Cli!EncodeMessage(q, i) =
              FlattenSeq([j \in DOMAIN q[i].content |->
                 IF Cli!isTextOnly(q[i].content) THEN Cli!extractText(q[i].content[j], <<i, j>>)
                 ELSE Cli!encodeContentBlock(q[i].content[j], <<i, j>>)])
      BY <2>3, SameFlatten DEF Cli!EncodeMessage, Cli!encodeBlocks, Cli!EachBlock
    <3>3. QED
      BY <3>1, <3>2
  <2>4. CASE q[i].role = "assistant"
    <3>1. BlocksOf("claude-code", q, i) =
              [j \in DOMAIN q[i].content |->
                 IF Cli!isTextOnly(q[i].content) THEN Cli!extractText(q[i].content[j], <<i, j>>)
                 ELSE Cli!encodeContentBlock(q[i].content[j], <<i, j>>)]
      BY <2>1, <2>4 DEF OfClaude
    <3>2. Cli!EncodeMessage(q, i) =
              FlattenSeq([j \in DOMAIN q[i].content |->
                 IF Cli!isTextOnly(q[i].content) THEN Cli!extractText(q[i].content[j], <<i, j>>)
                 ELSE Cli!encodeContentBlock(q[i].content[j], <<i, j>>)])
      BY <2>4, SameFlatten DEF Cli!EncodeMessage, Cli!encodeBlocks, Cli!EachBlock
    <3>3. QED
      BY <3>1, <3>2
  <2>5. CASE q[i].role = "tool"
    <3>1. BlocksOf("claude-code", q, i) =
              [j \in DOMAIN q[i].content |-> Cli!encodeToolResult(q[i].content[j], <<i, j>>)]
      BY <2>1, <2>5 DEF OfClaude
    <3>2. Cli!EncodeMessage(q, i) =
              FlattenSeq([j \in DOMAIN q[i].content |-> Cli!encodeToolResult(q[i].content[j], <<i, j>>)])
      BY <2>5, SameFlatten DEF Cli!EncodeMessage, Cli!EachBlock
    <3>3. QED
      BY <3>1, <3>2
  <2>6. QED
    BY <1>1, <2>2, <2>3, <2>4, <2>5 DEF Roles, IsSystem
<1>7. ASSUME NEW i \in DOMAIN q, IsSystem(q[i]) PROVE z[i] = FlattenSeq(BlocksOf("claude-code", q, i))
  <2>1. BlocksOf("claude-code", q, i) = [j \in DOMAIN q[i].content |-> Write(q[i].content[j], <<i, j>>)]
    BY <1>7 DEF BlocksOf, OfBlock, OfClaude, OpenAI!Families, IsSystem
  <2>2. QED
    BY <2>1
<1>6. Cli!EncodeClaude(q) = Request(FlattenSeq(x) \o FlattenSeq(y), {})
  BY SameFlatten, SameRequest
     DEF Cli!EncodeClaude, Cli!ExtractSystemPrompt, Cli!EachMessage, Cli!EachBlock, Cli!IsSystem, IsSystem,
        Cli!NotSystem, NotSystem, Cli!Item, Item
<1> HIDE DEF z
<1>2. \A i \in DOMAIN q : IF IsSystem(q[i])
                          THEN InOrder(x[i], Row(q, i), OfAll("claude-code", q), Ahead("claude-code", q))
                          /\ y[i] = <<>>
                          ELSE x[i] = <<>>
                          /\ InOrder(y[i], Row(q, i), OfAll("claude-code", q), Ahead("claude-code", q))
  <2>1. ASSUME NEW i \in DOMAIN q
        PROVE  InOrder(FlattenSeq(BlocksOf("claude-code", q, i)), Row(q, i), OfAll("claude-code", q),
                  Ahead("claude-code", q))
    BY <1>0, BlocksInOrder
  <2>2. ASSUME NEW i \in DOMAIN q
        PROVE  IF IsSystem(q[i]) THEN x[i] = z[i] /\ y[i] = <<>> ELSE x[i] = <<>> /\ y[i] = Cli!EncodeMessage(q, i)
    BY DEF IsSystem, NotSystem
  <2> HIDE DEF x, y
  <2>3. QED
    BY <2>1, <2>2, <1>1, <1>7
<1>3. x = [i \in DOMAIN q |-> x[i]] /\ y = [i \in DOMAIN q |-> y[i]]
  OBVIOUS
<1> HIDE DEF x, y
<1>4. InOrder(FlattenSeq(x) \o FlattenSeq(y), Places(q), OfAll("claude-code", q), Ahead("claude-code", q))
  BY <1>2, <1>3, SystemFirst
<1>5. QED
  BY <1>4, <1>6

(* codex: the system, and then a line for each block.                      *)
LEMMA CodexEncodes ==
  ASSUME NEW q \in Prompts
  PROVE  \E items : /\ Cli!BuildPromptWithSystemSeparate(q) = Request(items, {})
                    /\ InOrder(items, Places(q), OfAll("codex", q), Ahead("codex", q))
<1> DEFINE Write(b, at) == <<Item("system", at, "text", FALSE)>>
           z == [i \in DOMAIN q |-> FlattenSeq([j \in DOMAIN q[i].content |-> Write(q[i].content[j], <<i, j>>)])]
           x == [i \in DOMAIN q |-> IF IsSystem(q[i]) THEN z[i] ELSE <<>>]
           y == [i \in DOMAIN q |-> IF NotSystem(q[i]) THEN Cli!BuildMessage(q, i) ELSE <<>>]
<1>0. "codex" \in Providers
  BY DEF Providers
<1>1. ASSUME NEW i \in DOMAIN q, ~IsSystem(q[i]) PROVE Cli!BuildMessage(q, i) = FlattenSeq(BlocksOf("codex", q, i))
  <2>1. BlocksOf("codex", q, i) = [j \in DOMAIN q[i].content |-> OfCodex(q[i].role, q[i].content[j], <<i, j>>)]
    BY DEF BlocksOf, OfBlock, OpenAI!Families
  <2>2. q[i].role \in Roles
    BY PromptParts
  <2>3. CASE q[i].role = "user"
    <3>1. BlocksOf("codex", q, i) =
              [j \in DOMAIN q[i].content |-> Cli!extractTextFromContent(q[i].content[j], <<i, j>>)]
      BY <2>1, <2>3 DEF OfCodex
    <3>2. Cli!BuildMessage(q, i) =
              FlattenSeq([j \in DOMAIN q[i].content |-> Cli!extractTextFromContent(q[i].content[j], <<i, j>>)])
      BY <2>3, SameFlatten DEF Cli!BuildMessage, Cli!EachBlock
    <3>3. QED
      BY <3>1, <3>2
  <2>4. CASE q[i].role = "assistant"
    <3>1. BlocksOf("codex", q, i) =
              [j \in DOMAIN q[i].content |-> Cli!extractTextFromContent(q[i].content[j], <<i, j>>)]
      BY <2>1, <2>4 DEF OfCodex
    <3>2. Cli!BuildMessage(q, i) =
              FlattenSeq([j \in DOMAIN q[i].content |-> Cli!extractTextFromContent(q[i].content[j], <<i, j>>)])
      BY <2>4, SameFlatten DEF Cli!BuildMessage, Cli!EachBlock
    <3>3. QED
      BY <3>1, <3>2
  <2>5. CASE q[i].role = "tool"
    <3>1. BlocksOf("codex", q, i) = [j \in DOMAIN q[i].content |-> Cli!extractToolResult(q[i].content[j], <<i, j>>)]
      BY <2>1, <2>5 DEF OfCodex
    <3>2. Cli!BuildMessage(q, i) =
              FlattenSeq([j \in DOMAIN q[i].content |-> Cli!extractToolResult(q[i].content[j], <<i, j>>)])
      BY <2>5, SameFlatten DEF Cli!BuildMessage, Cli!EachBlock
    <3>3. QED
      BY <3>1, <3>2
  <2>6. QED
    BY <1>1, <2>2, <2>3, <2>4, <2>5 DEF Roles, IsSystem
<1>7. ASSUME NEW i \in DOMAIN q, IsSystem(q[i]) PROVE z[i] = FlattenSeq(BlocksOf("codex", q, i))
  <2>1. BlocksOf("codex", q, i) = [j \in DOMAIN q[i].content |-> Write(q[i].content[j], <<i, j>>)]
    BY <1>7 DEF BlocksOf, OfBlock, OfCodex, OpenAI!Families, IsSystem
  <2>2. QED
    BY <2>1
<1>6. Cli!BuildPromptWithSystemSeparate(q) = Request(FlattenSeq(x) \o FlattenSeq(y), {})
  BY SameFlatten, SameRequest
     DEF Cli!BuildPromptWithSystemSeparate, Cli!ExtractSystemPrompt, Cli!EachMessage, Cli!EachBlock, Cli!IsSystem,
        IsSystem, Cli!NotSystem, NotSystem, Cli!Item, Item
<1> HIDE DEF z
<1>2. \A i \in DOMAIN q : IF IsSystem(q[i])
                          THEN InOrder(x[i], Row(q, i), OfAll("codex", q), Ahead("codex", q)) /\ y[i] = <<>>
                          ELSE x[i] = <<>> /\ InOrder(y[i], Row(q, i), OfAll("codex", q), Ahead("codex", q))
  <2>1. ASSUME NEW i \in DOMAIN q
        PROVE  InOrder(FlattenSeq(BlocksOf("codex", q, i)), Row(q, i), OfAll("codex", q), Ahead("codex", q))
    BY <1>0, BlocksInOrder
  <2>2. ASSUME NEW i \in DOMAIN q
        PROVE  IF IsSystem(q[i]) THEN x[i] = z[i] /\ y[i] = <<>> ELSE x[i] = <<>> /\ y[i] = Cli!BuildMessage(q, i)
    BY DEF IsSystem, NotSystem
  <2> HIDE DEF x, y
  <2>3. QED
    BY <2>1, <2>2, <1>1, <1>7
<1>3. x = [i \in DOMAIN q |-> x[i]] /\ y = [i \in DOMAIN q |-> y[i]]
  OBVIOUS
<1> HIDE DEF x, y
<1>4. InOrder(FlattenSeq(x) \o FlattenSeq(y), Places(q), OfAll("codex", q), Ahead("codex", q))
  BY <1>2, <1>3, SystemFirst
<1>5. QED
  BY <1>4, <1>6

(* A prompt with a message where a provider does not take it.              *)
Misplaced(p, q) ==
  \/ p = "anthropic" /\ Anthropic!SystemIsSeparated(q)
  \/ p = "completion" /\ ~IsCompletable(q)

(* The warnings that a request carries.                                    *)
Warned(p, q) == IF p \in OpenAI!Families THEN OpenAI!RemovedSystems(p, q) ELSE {}

(* Prompts with the same messages and blocks, but for what these hold.     *)
Alike(q, r) ==
  /\ DOMAIN q = DOMAIN r
  /\ \A i \in DOMAIN q : q[i].role = r[i].role /\ DOMAIN q[i].content = DOMAIN r[i].content
  /\ \A i \in DOMAIN q : \A j \in DOMAIN q[i].content : q[i].content[j].type = r[i].content[j].type

(* Prompts that are alike have the same places, order and refusals.        *)
LEMMA AlikeInOrder ==
  ASSUME NEW q \in Prompts, NEW r \in Prompts, Alike(q, r), NEW p \in Providers
  PROVE  /\ Places(q) = Places(r)
         /\ \A at \in Places(q) : q[at[1]].role = r[at[1]].role /\ BlockAt(q, at).type = BlockAt(r, at).type
         /\ \A a, b \in Places(q) : <<a, b>> \in Ahead(p, q) <=> <<a, b>> \in Ahead(p, r)
         /\ Misplaced(p, q) <=> Misplaced(p, r)
         /\ Warned(p, q) = Warned(p, r)
<1>1. Places(q) = Places(r)
  BY DEF Places, Alike
<1>2. \A at \in Places(q) : q[at[1]].role = r[at[1]].role /\ BlockAt(q, at).type = BlockAt(r, at).type
  BY PromptParts DEF Alike, BlockAt
<1>3. ASSUME NEW a \in Places(q), NEW b \in Places(q) PROVE <<a, b>> \in Ahead(p, q) <=> <<a, b>> \in Ahead(p, r)
  <2>1. /\ InSystem(q, a) = InSystem(r, a) /\ InSystem(q, b) = InSystem(r, b)
        /\ IsLate(q, a) = IsLate(r, a) /\ IsLate(q, b) = IsLate(r, b)
    BY <1>2 DEF InSystem, IsSystem, IsLate
  <2>2. Precedes(p, q, a, b) <=> Precedes(p, r, a, b)
    BY <2>1 DEF Precedes
  <2>3. QED
    BY <2>2 DEF Ahead
<1>4. \A i \in DOMAIN q : q[i].role = r[i].role
  BY DEF Alike
<1>5. DOMAIN q = DOMAIN r /\ DOMAIN q = 1..Len(q) /\ Len(q) \in Nat
  BY PromptParts DEF Alike
<1>6. Anthropic!SystemIsSeparated(q) <=> Anthropic!SystemIsSeparated(r)
  <2>1. \A i \in DOMAIN q : \A k \in 1..(i - 1) : k \in DOMAIN q
    BY <1>5
  <2>2. QED
    BY <2>1, <1>4, <1>5 DEF Anthropic!SystemIsSeparated, Anthropic!IsSystem
<1>7. IsCompletable(q) <=> IsCompletable(r)
  BY <1>4, <1>5 DEF IsCompletable, IsSystem
<1>8. \A f : OpenAI!RemovedSystems(f, q) = OpenAI!RemovedSystems(f, r)
  <2>1. \A f : {k \in DOMAIN q : OpenAI!IsSystem(q[k]) /\ OpenAI!SystemMessageMode(f) = "remove"}
               = {k \in DOMAIN r : OpenAI!IsSystem(r[k]) /\ OpenAI!SystemMessageMode(f) = "remove"}
    BY <1>4, <1>5 DEF OpenAI!IsSystem
  <2>2. QED
    BY <2>1 DEF OpenAI!RemovedSystems
<1>9. QED
  BY <1>1, <1>2, <1>3, <1>6, <1>7, <1>8 DEF Misplaced, Warned

(* Metadata does not make a difference there,                              *)
LEMMA MarkedAlike ==
  ASSUME NEW q \in Prompts, NEW r \in Prompts, DOMAIN r = DOMAIN q, \A i \in DOMAIN q : MarkedLike(r[i], q[i])
  PROVE  Alike(q, r) /\ Alike(r, q)
<1>1. ASSUME NEW i \in DOMAIN q, NEW j \in DOMAIN q[i].content
      PROVE  q[i].content[j].type = r[i].content[j].type
  <2>1. q[i] \in AllMessages
    BY DEF Prompts
  <2>2. q[i].content[j] \in ContentBlocks \cup ToolResultBlocks /\ q[i].meta \in Metas
    BY <2>1 DEF AllMessages
  <2>3. \/ r[i].content[j] = q[i].content[j]
        \/ r[i].content[j] = [q[i].content[j] EXCEPT !.meta = q[i].meta]
    BY DEF MarkedLike
  <2>4. [q[i].content[j] EXCEPT !.meta = q[i].meta].type = q[i].content[j].type
    BY <2>2, MarkedBlock
  <2>5. QED
    BY <2>3, <2>4
<1>2. \A i \in DOMAIN q : q[i].role = r[i].role /\ DOMAIN q[i].content = DOMAIN r[i].content
  BY DEF MarkedLike
<1>3. QED
  BY <1>1, <1>2 DEF Alike

(* and so merging does not.                                                *)
LEMMA MergedAlike ==
  ASSUME NEW p \in Providers, NEW q \in Prompts
  PROVE  /\ Merged(p, q) \in Prompts /\ DOMAIN Merged(p, q) = DOMAIN q
         /\ \A i \in DOMAIN q : MarkedLike(Merged(p, q)[i], q[i])
         /\ Alike(q, Merged(p, q)) /\ Alike(Merged(p, q), q)
<1>1. Merged(p, q) \in Prompts /\ DOMAIN Merged(p, q) = DOMAIN q
      /\ \A i \in DOMAIN q : MarkedLike(Merged(p, q)[i], q[i])
  <2>1. CASE p = "anthropic"
    BY <2>1, MergeMarks DEF Merged
  <2>2. CASE p # "anthropic"
    BY <2>2 DEF Merged, MarkedLike
  <2>3. QED
    BY <2>1, <2>2
<1>2. QED
  BY <1>1, MarkedAlike

(* A prompt with a message that it cannot take has no completion prompt.   *)
LEMMA CompletionRefused ==
  ASSUME NEW q \in Prompts, ~IsCompletable(q)
  PROVE  OpenRouter!ConvertToOpenRouterCompletionPrompt(q) = Refused
<1> DEFINE t == [i \in DOMAIN q |-> OpenRouter!writeMessage(q, i)]
<1>1. OpenRouter!ConvertToOpenRouterCompletionPrompt(q) = Request(FlattenSeq(t), {})
  BY SameFlatten, SameRequest DEF OpenRouter!ConvertToOpenRouterCompletionPrompt, OpenRouter!EachMessage,
     OpenRouter!AnyMessage
<1>2. ASSUME NEW i \in DOMAIN q
      PROVE  /\ OpenRouter!writeMessage(q, i) \in Seq(Items)
             /\ q[i].role = "tool" \/ (IsSystem(q[i]) /\ i # 1) => OpenRouter!writeMessage(q, i) = <<Error(<<i, 1>>)>>
  <2> DEFINE e == q[i].content
             x == [j \in DOMAIN e |-> OpenRouter!gatherText(e[j], <<i, j>>)]
             y == [j \in DOMAIN e |-> OpenRouter!encodeSystemMessage(e[j], <<i, j>>)]
  <2>1. /\ DOMAIN e = 1..Len(e) /\ Len(e) \in Nat /\ i \in Nat /\ q[i].role \in Roles
        /\ \A j \in DOMAIN e : <<i, j>> \in AllPlaces
    BY PromptParts DEF AllPlaces
  <2> HIDE DEF e
  <2>2. \A at \in AllPlaces : \A k \in {"text", "system"} : <<Item(k, at, "text", FALSE)>> \in Seq(Items)
    BY DEF Item, Items, Kinds, Forms
  <2>3. \A at \in AllPlaces : <<Error(at)>> \in Seq(Items)
    BY DEF Error, Item, Items, Kinds, Forms
  <2>4. ASSUME NEW j \in DOMAIN e
        PROVE  OpenRouter!gatherText(e[j], <<i, j>>) \in Seq(Items)
               /\ OpenRouter!encodeSystemMessage(e[j], <<i, j>>) \in Seq(Items)
    BY <2>1, <2>2, <2>3 DEF OpenRouter!gatherText, OpenRouter!encodeSystemMessage, OpenRouter!Item, Item,
       OpenRouter!Error, Error
  <2>5. x \in Seq(Seq(Items)) /\ y \in Seq(Seq(Items))
    BY <2>1, <2>4
  <2>6. FlattenSeq(x) \in Seq(Items) /\ FlattenSeq(y) \in Seq(Items)
    <3> HIDE DEF x, y
    <3>1. QED
      BY <2>5, FlattenIsFlat
  <2>7. <<Error(<<i, 1>>)>> \in Seq(Items)
    BY <2>1, <2>3 DEF AllPlaces
  <2>8. OpenRouter!writeMessage(q, i) =
          CASE q[i].role \in {"user", "assistant"} -> FlattenSeq(x)
            [] q[i].role = "system" /\ i = 1 -> FlattenSeq(y)
            [] OTHER -> <<Error(<<i, 1>>)>>
    BY SameFlatten DEF OpenRouter!writeMessage, OpenRouter!EachBlock, e, OpenRouter!IsSystem, OpenRouter!Item,
       Item, OpenRouter!Error, Error
  <2> HIDE DEF x, y
  <2>9. QED
    BY <2>1, <2>6, <2>7, <2>8 DEF Roles, IsSystem
<1>3. DOMAIN q = 1..Len(q) /\ Len(q) \in Nat
  BY PromptParts
<1>4. t \in Seq(Seq(Items)) /\ DOMAIN t = DOMAIN q
  <2>1. \A i \in 1..Len(q) : OpenRouter!writeMessage(q, i) \in Seq(Items)
    BY <1>2, <1>3
  <2>2. QED
    BY <2>1, <1>3
<1>5. PICK i \in DOMAIN q : q[i].role = "tool" \/ (IsSystem(q[i]) /\ i # 1)
  BY DEF IsCompletable
<1>6. t[i] = <<Error(<<i, 1>>)>>
  BY <1>2, <1>5
<1> HIDE DEF t
<1>7. PICK of, no : IsFlat(FlattenSeq(t), t, Len(t), of, no)
  BY <1>4, FlattenIsFlat
<1>8. i \in 1..Len(t) /\ 1 \in DOMAIN t[i] /\ t[i][1].kind = "error"
  BY <1>3, <1>4, <1>6 DEF Error, Item
<1>9. PICK n \in DOMAIN FlattenSeq(t) : of[n] = i /\ no[n] = 1
  BY <1>7, <1>8 DEF IsFlat
<1>10. FlattenSeq(t)[n].kind = "error"
  BY <1>7, <1>8, <1>9 DEF IsFlat
<1>11. QED
  BY <1>1, <1>10 DEF Request

(* What a provider makes of a prompt.                                      *)
THEOREM EncodesInOrder ==
  ASSUME NEW p \in Providers, NEW q \in Prompts
  PROVE  IF Misplaced(p, q) THEN Encode(p, q) = Refused
         ELSE \E items : /\ Encode(p, q) = Request(items, Warned(p, q))
                         /\ InOrder(items, Places(q), OfAll(p, Merged(p, q)), Ahead(p, Merged(p, q)))
<1> USE DEF OpenAI!Families
<1>0. Places(Merged(p, q)) = Places(q)
  BY MergedAlike, AlikeInOrder
<1>1. CASE p = "anthropic"
  <2>1. Encode(p, q) = Anthropic!EncodePrompt(q) /\ Warned(p, q) = {}
    BY <1>1 DEF Encode, Warned
  <2>2. Anthropic!SystemIsSeparated(q) => Anthropic!EncodePrompt(q) = Refused
    BY DEF Anthropic!EncodePrompt, Anthropic!Refused, Refused
  <2>3. QED
    BY <1>0, <1>1, <2>1, <2>2, AnthropicEncodes DEF Misplaced
<1>2. CASE p \in OpenAI!Families
  <2>1. Encode(p, q) = OpenAI!EncodePrompt(p, q) /\ Warned(p, q) = OpenAI!RemovedSystems(p, q)
        /\ Merged(p, q) = q /\ ~Misplaced(p, q)
    BY <1>2 DEF Encode, Warned, Merged, Misplaced
  <2>2. QED
    BY <1>2, <2>1, OpenAIEncodes
<1>3. CASE p = "openrouter"
  <2>1. Encode(p, q) = OpenRouter!EncodePrompt(q) /\ Warned(p, q) = {} /\ Merged(p, q) = q /\ ~Misplaced(p, q)
    BY <1>3 DEF Encode, Warned, Merged, Misplaced
  <2>2. QED
    BY <1>3, <2>1, OpenRouterEncodes
<1>4. CASE p = "completion"
  <2>1. Encode(p, q) = OpenRouter!ConvertToOpenRouterCompletionPrompt(q) /\ Warned(p, q) = {} /\ Merged(p, q) = q
        /\ (Misplaced(p, q) <=> ~IsCompletable(q))
    BY <1>4 DEF Encode, Warned, Merged, Misplaced
  <2>2. QED
    BY <1>4, <2>1, CompletionEncodes, CompletionRefused
<1>5. CASE p = "claude-code"
  <2>1. Encode(p, q) = Cli!EncodeClaude(q) /\ Warned(p, q) = {} /\ Merged(p, q) = q /\ ~Misplaced(p, q)
    BY <1>5 DEF Encode, Warned, Merged, Misplaced
  <2>2. QED
    BY <1>5, <2>1, ClaudeEncodes
<1>6. CASE p = "codex"
  <2>1. Encode(p, q) = Cli!BuildPromptWithSystemSeparate(q) /\ Warned(p, q) = {} /\ Merged(p, q) = q
        /\ ~Misplaced(p, q)
    BY <1>6 DEF Encode, Warned, Merged, Misplaced
  <2>2. QED
    BY <1>6, <2>1, CodexEncodes
<1>7. QED
  BY <1>1, <1>2, <1>3, <1>4, <1>5, <1>6 DEF Providers

(***************************************************************************)
(* The items in order are determined by the places, by what becomes of the *)
(* blocks and by the order.                                                *)
(***************************************************************************)

(* Two sequences in the same order: the first one is how the other begins, *)
LEMMA PrefixIsSame ==
  ASSUME NEW s, NEW t, NEW D, NEW F, NEW R, InOrder(s, D, F, R), InOrder(t, D, F, R),
         \A a, b \in D : ~(<<a, b>> \in R /\ <<b, a>> \in R)
  PROVE  Len(s) <= Len(t) /\ \A k \in 1..Len(s) : s[k] = t[k]
<1>1. /\ s \in Seq(Items) /\ t \in Seq(Items)
      /\ Len(s) \in Nat /\ Len(t) \in Nat /\ DOMAIN s = 1..Len(s) /\ DOMAIN t = 1..Len(t)
  BY DEF InOrder
<1>2. /\ \A n \in DOMAIN s : s[n].at \in D /\ \E m \in DOMAIN t : t[m] = s[n]
      /\ \A n \in DOMAIN t : t[n].at \in D /\ \E m \in DOMAIN s : s[m] = t[n]
  <2>1. \A x, y : <<x>> = <<y>> => x = y
    OBVIOUS
  <2>2. \A x : <<x>> # <<>>
    OBVIOUS
  <2>3. ASSUME NEW n \in DOMAIN s PROVE s[n].at \in D /\ \E m \in DOMAIN t : t[m] = s[n]
    <3>1. s[n].at \in D /\ F[s[n].at] = <<s[n]>>
      BY DEF InOrder
    <3>2. PICK m \in DOMAIN t : t[m].at = s[n].at
      BY <3>1, <2>2 DEF InOrder
    <3>3. F[t[m].at] = <<t[m]>>
      BY DEF InOrder
    <3>4. QED
      BY <3>1, <3>2, <3>3, <2>1
  <2>4. ASSUME NEW n \in DOMAIN t PROVE t[n].at \in D /\ \E m \in DOMAIN s : s[m] = t[n]
    <3>1. t[n].at \in D /\ F[t[n].at] = <<t[n]>>
      BY DEF InOrder
    <3>2. PICK m \in DOMAIN s : s[m].at = t[n].at
      BY <3>1, <2>2 DEF InOrder
    <3>3. F[s[m].at] = <<s[m]>>
      BY DEF InOrder
    <3>4. QED
      BY <3>1, <3>2, <3>3, <2>1
  <2>5. QED
    BY <2>3, <2>4
<1>3. /\ \A n, k \in DOMAIN s : n < k => <<s[n].at, s[k].at>> \in R
      /\ \A n, k \in DOMAIN t : n < k => <<t[n].at, t[k].at>> \in R
  BY DEF InOrder
<1> DEFINE T == {n \in Nat : n <= Len(s) => n <= Len(t) /\ \A k \in 1..n : s[k] = t[k]}
<1>4. 0 \in T
  BY <1>1
<1>5. ASSUME NEW n \in Nat, n \in T PROVE n + 1 \in T
  <2> DEFINE k == n + 1
  <2> SUFFICES ASSUME k <= Len(s) PROVE k <= Len(t) /\ \A i \in 1..k : s[i] = t[i]
    OBVIOUS
  <2>1. k \in DOMAIN s /\ n <= Len(t) /\ \A i \in 1..n : i \in DOMAIN s /\ i \in DOMAIN t /\ s[i] = t[i]
    BY <1>1, <1>5
  <2>2. PICK m \in DOMAIN t : t[m] = s[k]
    BY <2>1, <1>2
  <2>3. m >= k
    <3>1. SUFFICES ASSUME m < k PROVE FALSE
      BY <1>1
    <3>2. m \in 1..n /\ s[m] = s[k]
      BY <3>1, <2>1, <2>2, <1>1
    <3>3. <<s[k].at, s[k].at>> \in R /\ s[k].at \in D
      BY <3>1, <3>2, <2>1, <1>2, <1>3
    <3>4. QED
      BY <3>3
  <2>4. k \in DOMAIN t
    BY <2>3, <1>1
  <2>5. PICK l \in DOMAIN s : s[l] = t[k]
    BY <2>4, <1>2
  <2>6. l >= k
    <3>1. SUFFICES ASSUME l < k PROVE FALSE
      BY <1>1
    <3>2. l \in 1..n /\ l \in DOMAIN t /\ t[l] = t[k]
      BY <3>1, <2>1, <2>5, <1>1
    <3>3. <<t[k].at, t[k].at>> \in R /\ t[k].at \in D
      BY <3>1, <3>2, <2>4, <1>2, <1>3
    <3>4. QED
      BY <3>3
  <2>7. s[k] = t[k]
    <3>1. CASE m = k \/ l = k
      BY <3>1, <2>2, <2>5
    <3>2. CASE m # k /\ l # k
      <4>1. k < m /\ k < l
        BY <3>2, <2>3, <2>6, <1>1
      <4>2. <<t[k].at, s[k].at>> \in R /\ <<s[k].at, t[k].at>> \in R
        BY <4>1, <2>1, <2>2, <2>4, <2>5, <1>3
      <4>3. QED
        BY <4>2, <2>1, <2>4, <1>2
    <3>3. QED
      BY <3>1, <3>2
  <2>8. QED
    BY <2>1, <2>4, <2>7, <1>1
<1>6. Len(s) \in T
  <2> HIDE DEF T
  <2>1. QED
    BY <1>1, <1>4, <1>5, Induction
<1>7. QED
  BY <1>6, <1>1

(* and the other way round.                                                *)
LEMMA OrderDetermines ==
  ASSUME NEW s, NEW t, NEW D, NEW F, NEW R, InOrder(s, D, F, R), InOrder(t, D, F, R),
         \A a, b \in D : ~(<<a, b>> \in R /\ <<b, a>> \in R)
  PROVE  s = t
<1>1. s \in Seq(Items) /\ t \in Seq(Items)
  BY DEF InOrder
<1>2. Len(s) <= Len(t) /\ (\A k \in 1..Len(s) : s[k] = t[k]) /\ Len(t) <= Len(s)
  BY PrefixIsSame
<1>3. Len(s) = Len(t)
  BY <1>1, <1>2
<1>4. QED
  BY <1>1, <1>2, <1>3

(* The order has no two places ahead of each other.                        *)
LEMMA AheadIsOneWay ==
  ASSUME NEW p, NEW q, NEW a, NEW b, <<a, b>> \in Ahead(p, q), <<b, a>> \in Ahead(p, q)
  PROVE  FALSE
<1>1. a \in AllPlaces /\ b \in AllPlaces /\ Precedes(p, q, a, b) /\ Precedes(p, q, b, a)
  BY DEF Ahead
<1>2. a[1] \in Nat /\ a[2] \in Nat /\ b[1] \in Nat /\ b[2] \in Nat
  BY <1>1 DEF AllPlaces
<1>3. ~(Earlier(a, b) /\ Earlier(b, a))
  BY <1>2 DEF Earlier
<1>4. (InSystem(q, a) \in BOOLEAN) /\ (InSystem(q, b) \in BOOLEAN) /\ (IsLate(q, a) \in BOOLEAN)
      /\ (IsLate(q, b) \in BOOLEAN)
  BY DEF InSystem, IsSystem, IsLate
<1>5. QED
  BY <1>1, <1>3, <1>4 DEF Precedes

(* Prompts that are alike and whose blocks become the same items make the  *)
(* same request.                                                           *)
LEMMA SameRequests ==
  ASSUME NEW p \in Providers, NEW q \in Prompts, NEW r \in Prompts, Alike(q, r),
         \A at \in Places(q) : OfBlock(p, Merged(p, q)[at[1]], at) = OfBlock(p, Merged(p, r)[at[1]], at)
  PROVE  Encode(p, q) = Encode(p, r)
<1>1. /\ Places(q) = Places(r) /\ Warned(p, q) = Warned(p, r) /\ (Misplaced(p, q) <=> Misplaced(p, r))
  BY AlikeInOrder
<1>2. CASE Misplaced(p, q)
  BY <1>1, <1>2, EncodesInOrder
<1>3. CASE ~Misplaced(p, q)
  <2> DEFINE m == Merged(p, q)
             n == Merged(p, r)
  <2>1. /\ m \in Prompts /\ n \in Prompts /\ Places(m) = Places(q) /\ Places(n) = Places(q)
        /\ Alike(q, m) /\ Alike(r, n)
    BY <1>1, MergedAlike, AlikeInOrder
  <2>2. Alike(m, n)
    <3> HIDE DEF m, n
    <3>1. DOMAIN m = DOMAIN n /\ DOMAIN q = DOMAIN m /\ DOMAIN r = DOMAIN m
      BY <2>1 DEF Alike
    <3>2. ASSUME NEW i \in DOMAIN m PROVE m[i].role = n[i].role /\ DOMAIN m[i].content = DOMAIN n[i].content
      BY <2>1, <3>1 DEF Alike
    <3>3. ASSUME NEW i \in DOMAIN m, NEW j \in DOMAIN m[i].content PROVE m[i].content[j].type = n[i].content[j].type
      <4>1. j \in DOMAIN q[i].content /\ j \in DOMAIN r[i].content
        BY <2>1, <3>1 DEF Alike
      <4>2. q[i].content[j].type = m[i].content[j].type
        BY <2>1, <3>1, <4>1 DEF Alike
      <4>3. r[i].content[j].type = n[i].content[j].type
        BY <2>1, <3>1, <4>1 DEF Alike
      <4>4. q[i].content[j].type = r[i].content[j].type
        BY <3>1, <4>1 DEF Alike
      <4>5. QED
        BY <4>2, <4>3, <4>4
    <3>4. QED
      BY <3>1, <3>2, <3>3 DEF Alike
  <2>3. PICK s : Encode(p, q) = Request(s, Warned(p, q)) /\ InOrder(s, Places(q), OfAll(p, m), Ahead(p, m))
    BY <1>3, EncodesInOrder
  <2>4. PICK t : Encode(p, r) = Request(t, Warned(p, q)) /\ InOrder(t, Places(q), OfAll(p, n), Ahead(p, n))
    BY <1>1, <1>3, EncodesInOrder
  <2>5. OfAll(p, m) = OfAll(p, n)
    <3>1. \A at \in Places(q) : OfBlock(p, m[at[1]], at) = OfBlock(p, n[at[1]], at)
      OBVIOUS
    <3> HIDE DEF m, n
    <3>2. QED
      BY <3>1, <2>1 DEF OfAll
  <2> HIDE DEF m, n
  <2>6. \A a, b \in Places(q) : <<a, b>> \in Ahead(p, m) <=> <<a, b>> \in Ahead(p, n)
    BY <2>1, <2>2, AlikeInOrder
  <2>7. InOrder(t, Places(q), OfAll(p, m), Ahead(p, m))
    <3>1. \A k \in DOMAIN t : t[k].at \in Places(q)
      BY <2>4 DEF InOrder
    <3>2. QED
      BY <2>4, <2>5, <2>6, <3>1 DEF InOrder
  <2>8. s = t
    BY <2>3, <2>7, AheadIsOneWay, OrderDetermines
  <2>9. QED
    BY <2>3, <2>4, <2>8
<1>4. QED
  BY <1>2, <1>3

(***************************************************************************)
(* What the codecs read of a block.                                        *)
(***************************************************************************)

(* Blocks that differ in nothing a codec looks at.                         *)
SameMeta(p, b, c) == GetMetadata(b.meta, OwnMetas(p)) = GetMetadata(c.meta, OwnMetas(p))

SameContent(b, c) ==
  /\ c.type = b.type
  /\ b.type \in {"text", "reasoning"} => c.some = b.some
  /\ b.type \in {"image", "file"} => c.from = b.from
  /\ b.type = "file" => c.media = b.media /\ c.dotPdf = b.dotPdf
  /\ b.type = "tool-call" => c.name = b.name

SameResult(p, b, c) ==
  /\ c.type = b.type /\ c.id = b.id /\ c.name = b.name /\ c.hasContent = b.hasContent
  /\ c.result = b.result \/ (p # "codex" /\ c.result \in {"value", "loaded"} /\ b.result \in {"value", "loaded"})
  /\ Len(b.content) \in Nat /\ DOMAIN b.content = 1..Len(b.content)
  /\ Len(c.content) = Len(b.content) /\ DOMAIN c.content = DOMAIN b.content /\ (c.content = <<>> <=> b.content = <<>>)
  /\ \A k \in DOMAIN b.content : SameContent(b.content[k], c.content[k])

SameCall(p, b, c) ==
  b.type = "tool-call" => c.args = b.args \/ (p # "claude-code" /\ {b.args, c.args} \subseteq {"nil", "null"})

SameBlock(p, role, b, c) ==
  IF role = "tool" THEN SameResult(p, b, c) ELSE SameContent(b, c) /\ SameCall(p, b, c)

(* Contents that are the same have a text, or do not, alike.               *)
LEMMA SameText ==
  ASSUME NEW s, NEW t, DOMAIN s = DOMAIN t, \A k \in DOMAIN s : SameContent(s[k], t[k])
  PROVE  HasText(s) <=> HasText(t)
BY DEF HasText, SameContent

(* What each codec makes of a block depends on these fields only.          *)
LEMMA AnthropicReads ==
  ASSUME NEW role \in Roles, NEW b, NEW c, NEW at, SameBlock("anthropic", role, b, c), SameMeta("anthropic", b, c)
  PROVE  OfAnthropic(role, b, at) = OfAnthropic(role, c, at)
<1>1. /\ Anthropic!HasCacheControl(b) <=> Anthropic!HasCacheControl(c)
      /\ Anthropic!GetMetadata(b.meta, AnthropicMetas) = Anthropic!GetMetadata(c.meta, AnthropicMetas)
      /\ Anthropic!AnthropicMetas = AnthropicMetas
  BY DEF SameMeta, OwnMetas, OpenAI!Families, Anthropic!HasCacheControl, Anthropic!GetMetadata, GetMetadata,
     Anthropic!AnthropicMetas, AnthropicMetas
<1>2. Anthropic!HasCacheControl(b) = Anthropic!HasCacheControl(c)
  BY <1>1 DEF Anthropic!HasCacheControl
<1>3. CASE role = "system"
  BY <1>2, <1>3 DEF OfAnthropic, Anthropic!EncodeSystemMessage
<1>4. CASE role \in {"user", "assistant"}
  <2>1. SameContent(b, c)
    BY <1>4 DEF SameBlock
  <2>2. Anthropic!EncodeTextBlock(b, at) = Anthropic!EncodeTextBlock(c, at)
        /\ (b.type = "tool-call" => Anthropic!EncodeToolCallBlock(b, at) = Anthropic!EncodeToolCallBlock(c, at))
    BY <1>2, <1>4 DEF SameBlock, SameCall, Anthropic!EncodeTextBlock, Anthropic!EncodeToolCallBlock, Anthropic!Written
  <2>3. b.type = "image" => Anthropic!EncodeImageBlock(b, at) = Anthropic!EncodeImageBlock(c, at)
    BY <1>2, <2>1 DEF SameContent, Anthropic!EncodeImageBlock
  <2>4. b.type = "file" => Anthropic!EncodeFileBlock(b, at) = Anthropic!EncodeFileBlock(c, at)
    BY <1>2, <2>1 DEF SameContent, Anthropic!EncodeFileBlock
  <2>5. b.type = "reasoning" => Anthropic!EncodeReasoningBlock(b, at) = Anthropic!EncodeReasoningBlock(c, at)
    BY <1>1, <2>1 DEF SameContent, Anthropic!EncodeReasoningBlock
  <2>6. c.type = b.type
    BY <2>1 DEF SameContent
  <2>7. Anthropic!EncodeUserContentBlock(b, at) = Anthropic!EncodeUserContentBlock(c, at)
    BY <2>2, <2>3, <2>4, <2>6 DEF Anthropic!EncodeUserContentBlock
  <2>8. Anthropic!EncodeAssistantBlock(b, at) = Anthropic!EncodeAssistantBlock(c, at)
    BY <2>2, <2>5, <2>6 DEF Anthropic!EncodeAssistantBlock
  <2>9. QED
    BY <2>7, <2>8, <1>4 DEF OfAnthropic
<1>5. CASE role = "tool"
  <2>1. SameResult("anthropic", b, c)
    BY <1>5 DEF SameBlock
  <2>2. \A k \in DOMAIN b.content : Anthropic!IsResultPart(b.content[k]) <=> Anthropic!IsResultPart(c.content[k])
    BY <2>1 DEF SameResult, SameContent, Anthropic!IsResultPart
  <2>3. Anthropic!encodeToolResultContent(b, at) = Anthropic!encodeToolResultContent(c, at)
    BY <1>2, <2>1, <2>2 DEF SameResult, Anthropic!encodeToolResultContent
  <2>4. Anthropic!encodeToolResultJSON(b, at) = Anthropic!encodeToolResultJSON(c, at)
    BY <1>2, <2>1 DEF SameResult, Anthropic!encodeToolResultJSON
  <2>5. Anthropic!EncodeToolResult(b, at) = Anthropic!EncodeToolResult(c, at)
    BY <2>1, <2>3, <2>4 DEF SameResult, Anthropic!EncodeToolResult
  <2>6. QED
    BY <2>5, <1>5 DEF OfAnthropic
<1>6. QED
  BY <1>3, <1>4, <1>5 DEF Roles

(* OpenAI.                                                                 *)
LEMMA OpenAIReads ==
  ASSUME NEW f \in OpenAI!Families, NEW role \in Roles, NEW b, NEW c, NEW at, SameBlock(f, role, b, c), SameMeta(f,
            b, c)
  PROVE  OfOpenAI(f, role, b, at) = OfOpenAI(f, role, c, at)
<1>1. OpenAI!GetMetadata(b.meta, OpenAI!OpenAIMetas) = OpenAI!GetMetadata(c.meta, OpenAI!OpenAIMetas)
  BY DEF SameMeta, OwnMetas, OpenAI!GetMetadata, GetMetadata, OpenAI!OpenAIMetas, OpenAIMetas, OpenAI!Families
<1>3. CASE role = "system"
  BY <1>3 DEF OfOpenAI
<1>4. CASE role \in {"user", "assistant"}
  <2>1. SameContent(b, c)
    BY <1>4 DEF SameBlock
  <2>2. b.type = "image" => OpenAI!EncodeImageBlock(b, at) = OpenAI!EncodeImageBlock(c, at)
    BY <1>1, <2>1 DEF SameContent, OpenAI!EncodeImageBlock
  <2>3. b.type = "file" => OpenAI!EncodeFileBlock(b, at) = OpenAI!EncodeFileBlock(c, at)
    BY <2>1 DEF SameContent, OpenAI!EncodeFileBlock
  <2>4. b.type = "tool-call" => OpenAI!EncodeToolCallBlock(b, at) = OpenAI!EncodeToolCallBlock(c, at)
    BY <2>1, <1>4 DEF SameContent, SameBlock, SameCall, OpenAI!EncodeToolCallBlock, OpenAI!Written, OpenAI!Unwritable,
       OpenAI!Families
  <2>5. c.type = b.type
    BY <2>1 DEF SameContent
  <2>6. OpenAI!EncodeUserContentBlock(b, at) = OpenAI!EncodeUserContentBlock(c, at)
    BY <2>2, <2>3, <2>5 DEF OpenAI!EncodeUserContentBlock
  <2>7. OpenAI!EncodeAssistantBlock(b, at) = OpenAI!EncodeAssistantBlock(c, at)
    BY <2>4, <2>5 DEF OpenAI!EncodeAssistantBlock
  <2>8. QED
    BY <2>6, <2>7, <1>4 DEF OfOpenAI
<1>5. CASE role = "tool"
  <2>1. SameResult(f, b, c)
    BY <1>5 DEF SameBlock
  <2>2. /\ c.id = b.id /\ c.name = b.name /\ (c.result = "nil" <=> b.result = "nil")
        /\ Len(b.content) \in Nat /\ DOMAIN b.content = 1..Len(b.content)
        /\ Len(c.content) = Len(b.content) /\ DOMAIN c.content = DOMAIN b.content
        /\ \A k \in DOMAIN b.content : SameContent(b.content[k], c.content[k])
    BY <2>1 DEF SameResult
  <2>3. OpenAI!HasText(b.content) <=> OpenAI!HasText(c.content)
    BY <2>2, SameText DEF OpenAI!HasText, HasText
  <2>4. OpenAI!encodeTextToolResult(b, at) = OpenAI!encodeTextToolResult(c, at)
    BY <2>2, <2>3 DEF OpenAI!encodeTextToolResult
  <2>5. OpenAI!encodeComputerToolResult(b, at) = OpenAI!encodeComputerToolResult(c, at)
    <3>1. \A k \in DOMAIN b.content : b.content[k].type = c.content[k].type
      BY <2>2 DEF SameContent
    <3>2. CASE 1 \in DOMAIN b.content /\ b.content[1].type = "image"
      <4>1. OpenAI!Screenshot(b, at) = OpenAI!Screenshot(c, at)
        BY <1>1, <2>2, <3>2 DEF OpenAI!Screenshot, SameContent
      <4>2. QED
        BY <2>2, <2>4, <3>1, <3>2, <4>1 DEF OpenAI!encodeComputerToolResult
    <3>3. CASE 1 \in DOMAIN b.content /\ b.content[1].type # "image"
      BY <2>2, <2>4, <3>1, <3>3 DEF OpenAI!encodeComputerToolResult
    <3>4. CASE 1 \notin DOMAIN b.content
      <4>1. Len(b.content) = 0 /\ Len(c.content) = 0
        BY <2>2, <3>4
      <4>2. QED
        BY <4>1 DEF OpenAI!encodeComputerToolResult
    <3>5. QED
      BY <3>2, <3>3, <3>4
  <2>6. OpenAI!EncodeToolResultBlock(b, at) = OpenAI!EncodeToolResultBlock(c, at)
    BY <2>2, <2>5 DEF OpenAI!EncodeToolResultBlock
  <2>7. QED
    BY <2>6, <1>5 DEF OfOpenAI
<1>6. QED
  BY <1>3, <1>4, <1>5 DEF Roles

(* OpenRouter, of either kind.                                             *)
LEMMA OpenRouterReads ==
  ASSUME NEW p \in {"openrouter", "completion"}, NEW role \in Roles, NEW b, NEW c, NEW at, SameBlock(p, role, b, c)
  PROVE  OfOpenRouter(role, b, at) = OfOpenRouter(role, c, at)
         /\ OfCompletion(role, b, at) = OfCompletion(role, c, at)
<1>3. CASE role = "system"
  BY <1>3 DEF OfOpenRouter, OfCompletion, OpenRouter!encodeSystemMessage
<1>4. CASE role \in {"user", "assistant"}
  <2>1. SameContent(b, c)
    BY <1>4 DEF SameBlock
  <2>2. b.type = "image" => OpenRouter!encodeImageBlock(b, at) = OpenRouter!encodeImageBlock(c, at)
    BY <2>1 DEF SameContent, OpenRouter!encodeImageBlock
  <2>3. b.type = "file" => OpenRouter!encodeFileBlock(b, at) = OpenRouter!encodeFileBlock(c, at)
    BY <2>1 DEF SameContent, OpenRouter!encodeFileBlock
  <2>4. b.type = "tool-call" => OpenRouter!encodeToolCallBlock(b, at) = OpenRouter!encodeToolCallBlock(c, at)
    BY <1>4 DEF SameBlock, SameCall, OpenRouter!encodeToolCallBlock, OpenRouter!Written, OpenRouter!Unwritable
  <2>5. c.type = b.type
    BY <2>1 DEF SameContent
  <2>6. OpenRouter!encodeUserContentBlock(b, at) = OpenRouter!encodeUserContentBlock(c, at)
    BY <2>2, <2>3, <2>5 DEF OpenRouter!encodeUserContentBlock
  <2>7. OpenRouter!gatherText(b, at) = OpenRouter!gatherText(c, at)
    BY <2>5 DEF OpenRouter!gatherText
  <2>8. QED
    BY <2>4, <2>5, <2>6, <2>7, <1>4 DEF OfOpenRouter, OfCompletion
<1>5. CASE role = "tool"
  <2>1. c.result = "nil" <=> b.result = "nil"
    BY <1>5 DEF SameBlock, SameResult
  <2>2. OpenRouter!encodeToolResult(b, at) = OpenRouter!encodeToolResult(c, at)
    BY <2>1 DEF OpenRouter!encodeToolResult
  <2>3. QED
    BY <2>2, <1>5 DEF OfOpenRouter, OfCompletion
<1>6. QED
  BY <1>3, <1>4, <1>5 DEF Roles

(* claude: and on the types of the other blocks of the message.            *)
LEMMA ClaudeReads ==
  ASSUME NEW m, NEW n, NEW b, NEW c, NEW at, m.role \in Roles, n.role = m.role, DOMAIN m.content = DOMAIN n.content,
         \A j \in DOMAIN m.content : m.content[j].type = n.content[j].type,
         SameBlock("claude-code", m.role, b, c)
  PROVE  OfClaude(m, b, at) = OfClaude(n, c, at)
<1>1. CASE m.role = "system"
  BY <1>1 DEF OfClaude
<1>2. CASE m.role \in {"user", "assistant"}
  <2>1. b.type = c.type /\ (b.type = "tool-call" => c.args = b.args)
    BY <1>2 DEF SameBlock, SameContent, SameCall
  <2>2. Cli!isTextOnly(m.content) <=> Cli!isTextOnly(n.content)
    BY DEF Cli!isTextOnly
  <2>3. Cli!extractText(b, at) = Cli!extractText(c, at)
        /\ Cli!encodeContentBlock(b, at) = Cli!encodeContentBlock(c, at)
    BY <2>1 DEF Cli!extractText, Cli!encodeContentBlock
  <2>4. QED
    BY <1>2, <2>2, <2>3 DEF OfClaude
<1>3. CASE m.role = "tool"
  <2>1. DOMAIN b.content = DOMAIN c.content /\ \A k \in DOMAIN b.content : SameContent(b.content[k], c.content[k])
    BY <1>3 DEF SameBlock, SameResult
  <2>2. Cli!HasText(b.content) <=> Cli!HasText(c.content)
    BY <2>1, SameText DEF Cli!HasText, HasText
  <2>3. Cli!encodeToolResult(b, at) = Cli!encodeToolResult(c, at)
    BY <2>2 DEF Cli!encodeToolResult
  <2>4. QED
    BY <1>3, <2>3 DEF OfClaude
<1>4. QED
  BY <1>1, <1>2, <1>3 DEF Roles

(* codex.                                                                  *)
LEMMA CodexReads ==
  ASSUME NEW role \in Roles, NEW b, NEW c, NEW at, SameBlock("codex", role, b, c)
  PROVE  OfCodex(role, b, at) = OfCodex(role, c, at)
<1>1. CASE role = "system"
  BY <1>1 DEF OfCodex
<1>2. CASE role \in {"user", "assistant"}
  <2>1. b.type = c.type /\ (b.type = "reasoning" => b.some = c.some)
    BY <1>2 DEF SameBlock, SameContent
  <2>2. Cli!extractTextFromContent(b, at) = Cli!extractTextFromContent(c, at)
    BY <2>1 DEF Cli!extractTextFromContent
  <2>3. QED
    BY <1>2, <2>2 DEF OfCodex
<1>3. CASE role = "tool"
  <2>1. /\ DOMAIN b.content = DOMAIN c.content /\ \A k \in DOMAIN b.content : SameContent(b.content[k], c.content[k])
        /\ b.result = c.result /\ (c.content = <<>> <=> b.content = <<>>)
    BY <1>3 DEF SameBlock, SameResult
  <2>2. Cli!HasText(b.content) <=> Cli!HasText(c.content)
    BY <2>1, SameText DEF Cli!HasText, HasText
  <2>3. Cli!Printed(b.content) = Cli!Printed(c.content)
    BY <2>1, <2>2 DEF Cli!Printed, SameContent
  <2>4. Cli!extractToolResult(b, at) = Cli!extractToolResult(c, at)
    BY <2>1, <2>3 DEF Cli!extractToolResult
  <2>5. QED
    BY <1>3, <2>4 DEF OfCodex
<1>4. QED
  BY <1>1, <1>2, <1>3 DEF Roles

(* Any provider.                                                           *)
LEMMA CodecReads ==
  ASSUME NEW p \in Providers, NEW m \in AllMessages, NEW n, NEW at, n.role = m.role,
            DOMAIN m.content = DOMAIN n.content,
         \A j \in DOMAIN m.content : m.content[j].type = n.content[j].type,
         SameBlock(p, m.role, m.content[at[2]], n.content[at[2]]),
         SameMeta(p, m.content[at[2]], n.content[at[2]])
  PROVE  OfBlock(p, m, at) = OfBlock(p, n, at)
<1> USE DEF OpenAI!Families
<1>0. m.role \in Roles
  BY DEF AllMessages
<1>1. CASE p = "anthropic"
  BY <1>0, <1>1, AnthropicReads DEF OfBlock
<1>2. CASE p \in OpenAI!Families
  BY <1>0, <1>2, OpenAIReads DEF OfBlock
<1>3. CASE p = "openrouter"
  BY <1>0, <1>3, OpenRouterReads DEF OfBlock
<1>4. CASE p = "completion"
  BY <1>0, <1>4, OpenRouterReads DEF OfBlock
<1>5. CASE p = "claude-code"
  BY <1>0, <1>5, ClaudeReads DEF OfBlock
<1>6. CASE p = "codex"
  BY <1>0, <1>6, CodexReads DEF OfBlock
<1>7. QED
  BY <1>1, <1>2, <1>3, <1>4, <1>5, <1>6 DEF Providers

(* The blocks of a message, by its role.                                   *)
BlocksFor(role) == IF role = "tool" THEN ToolResultBlocks ELSE ContentBlocks

(* c is b, perhaps with other metadata.                                    *)
Remarked(b, c) == c = b \/ \E meta \in Metas : c = [b EXCEPT !.meta = meta]

(* The blocks of a message are those of its role,                          *)
LEMMA BlocksOfRole ==
  ASSUME NEW m \in AllMessages, NEW j \in DOMAIN m.content
  PROVE  m.content[j] \in BlocksFor(m.role)
BY BlockTypes DEF BlocksFor, Roles, ContentBlocks

(* and have these fields.                                                  *)
LEMMA BlockFields ==
  ASSUME NEW role \in Roles, NEW b \in BlocksFor(role)
  PROVE  /\ b.meta \in Metas
         /\ role # "tool" => b \in ContentBlocks
         /\ role = "tool" => /\ b \in ToolResultBlocks /\ b.type = "tool-result"
                             /\ b.content \in Seq(ResultParts) /\ Len(b.content) \in Nat
                             /\ DOMAIN b.content = 1..Len(b.content)
<1>1. CASE role = "tool"
  <2>1. b \in ToolResultBlocks
    BY <1>1 DEF BlocksFor
  <2>2. b.meta \in Metas /\ b.type = "tool-result" /\ b.content \in Seq(ResultParts)
    BY <2>1 DEF ToolResultBlocks
  <2>3. QED
    BY <1>1, <2>1, <2>2
<1>2. CASE role # "tool"
  BY <1>2, ContentTypes DEF BlocksFor
<1>3. QED
  BY <1>1, <1>2

(* Metadata apart, a block that is marked is the same.                     *)
LEMMA RemarkedFields ==
  ASSUME NEW role \in Roles, NEW b \in BlocksFor(role), NEW c, Remarked(b, c)
  PROVE  /\ c.type = b.type
         /\ role # "tool" => /\ b.type \in {"text", "reasoning"} => c.some = b.some
                             /\ b.type \in {"image", "file"} => c.from = b.from
                             /\ b.type = "file" => c.media = b.media /\ c.dotPdf = b.dotPdf
                             /\ b.type = "tool-call" => c.name = b.name /\ c.args = b.args
         /\ role = "tool" => /\ c.id = b.id /\ c.name = b.name /\ c.hasContent = b.hasContent /\ c.result = b.result
                             /\ c.content = b.content
<1>1. CASE c = b
  BY <1>1
<1>2. ASSUME NEW meta \in Metas, c = [b EXCEPT !.meta = meta], role = "tool"
      PROVE  c.type = b.type /\ c.id = b.id /\ c.name = b.name /\ c.hasContent = b.hasContent /\ c.result = b.result
             /\ c.content = b.content
  <2>1. b \in ToolResultBlocks
    BY <1>2 DEF BlocksFor
  <2>2. QED
    BY <1>2, <2>1 DEF ToolResultBlocks
<1>3. ASSUME NEW meta \in Metas, c = [b EXCEPT !.meta = meta], role # "tool"
      PROVE  /\ c.type = b.type
             /\ b.type \in {"text", "reasoning"} => c.some = b.some
             /\ b.type \in {"image", "file"} => c.from = b.from
             /\ b.type = "file" => c.media = b.media /\ c.dotPdf = b.dotPdf
             /\ b.type = "tool-call" => c.name = b.name /\ c.args = b.args
  <2>0. b \in ContentBlocks
    BY <1>3 DEF BlocksFor
  <2>1. b \in TextBlocks => b.type = "text" /\ c.type = b.type /\ c.some = b.some
    BY <1>3 DEF TextBlocks
  <2>2. b \in ImageBlocks => b.type = "image" /\ c.type = b.type /\ c.from = b.from
    BY <1>3 DEF ImageBlocks
  <2>3. b \in FileBlocks => b.type = "file" /\ c.type = b.type /\ c.from = b.from /\ c.media = b.media
        /\ c.dotPdf = b.dotPdf
    BY <1>3 DEF FileBlocks
  <2>4. b \in ToolCallBlocks => b.type = "tool-call" /\ c.type = b.type /\ c.name = b.name /\ c.args = b.args
    BY <1>3 DEF ToolCallBlocks
  <2>5. b \in ReasoningBlocks => b.type = "reasoning" /\ c.type = b.type /\ c.some = b.some
    BY <1>3 DEF ReasoningBlocks
  <2>6. b \in SourceBlocks => b.type = "source" /\ c.type = b.type
    BY <1>3 DEF SourceBlocks
  <2>7. QED
    BY <2>0, <2>1, <2>2, <2>3, <2>4, <2>5, <2>6 DEF ContentBlocks
<1>4. QED
  BY <1>1, <1>2, <1>3 DEF Remarked

(* Metadata is not among what SameBlock compares.                          *)
LEMMA RemarkedIsSame ==
  ASSUME NEW p, NEW role \in Roles, NEW b \in BlocksFor(role), NEW c \in BlocksFor(role), NEW d, NEW e,
         Remarked(b, d), Remarked(c, e), SameBlock(p, role, b, c)
  PROVE  SameBlock(p, role, d, e)
<1>1. CASE role = "tool"
  <2>1. d.type = b.type /\ d.id = b.id /\ d.name = b.name /\ d.hasContent = b.hasContent
        /\ d.result = b.result /\ d.content = b.content
    BY <1>1, RemarkedFields
  <2>2. e.type = c.type /\ e.id = c.id /\ e.name = c.name /\ e.hasContent = c.hasContent
        /\ e.result = c.result /\ e.content = c.content
    BY <1>1, RemarkedFields
  <2>3. QED
    BY <1>1, <2>1, <2>2 DEF SameBlock, SameResult
<1>2. CASE role # "tool"
  <2>1. /\ d.type = b.type
        /\ b.type \in {"text", "reasoning"} => d.some = b.some
        /\ b.type \in {"image", "file"} => d.from = b.from
        /\ b.type = "file" => d.media = b.media /\ d.dotPdf = b.dotPdf
        /\ b.type = "tool-call" => d.name = b.name /\ d.args = b.args
    BY <1>2, RemarkedFields
  <2>2. /\ e.type = c.type
        /\ c.type \in {"text", "reasoning"} => e.some = c.some
        /\ c.type \in {"image", "file"} => e.from = c.from
        /\ c.type = "file" => e.media = c.media /\ e.dotPdf = c.dotPdf
        /\ c.type = "tool-call" => e.name = c.name /\ e.args = c.args
    BY <1>2, RemarkedFields
  <2>3. QED
    BY <1>2, <2>1, <2>2 DEF SameBlock, SameContent, SameCall
<1>3. QED
  BY <1>1, <1>2

(* SameBlock is reflexive.                                                 *)
LEMMA SameAsItself ==
  ASSUME NEW p, NEW role \in Roles, NEW b \in BlocksFor(role)
  PROVE  SameBlock(p, role, b, b)
BY BlockFields DEF SameBlock, SameContent, SameResult, SameCall

(* A message that is marked has its blocks marked, with its metadata.      *)
LEMMA MarkedIsRemarked ==
  ASSUME NEW m \in AllMessages, NEW n, MarkedLike(n, m), NEW j \in DOMAIN m.content
  PROVE  /\ Remarked(m.content[j], n.content[j])
         /\ n.content[j].meta \in {m.content[j].meta, m.meta}
         /\ n.content[j].meta = m.content[j].meta \/ m.content[j].meta = "none"
<1>1. m.content[j] \in ContentBlocks \cup ToolResultBlocks /\ m.meta \in Metas
  BY DEF AllMessages
<1>2. [m.content[j] EXCEPT !.meta = m.meta].meta = m.meta
  BY <1>1, MarkedBlock
<1>3. QED
  BY <1>1, <1>2 DEF MarkedLike, Remarked

(* What Anthropic's codec writes into a prompt, no other codec reads.      *)
LEMMA MergeIsQuiet ==
  ASSUME NEW p \in Providers, NEW q \in Prompts, ~(p \in OpenAI!Families /\ SetOnMessage(q))
  PROVE  Encode(p, Anthropic!AfterMerge(q)) = Encode(p, q)
<1> DEFINE r == Anthropic!AfterMerge(q)
<1>1. /\ r \in Prompts /\ DOMAIN r = DOMAIN q
      /\ \A i \in DOMAIN q : MarkedLike(r[i], q[i])
      /\ Alike(q, r)
  BY MergeMarks, MarkedAlike
<1>2. ASSUME NEW at \in Places(q)
      PROVE  OfBlock(p, Merged(p, q)[at[1]], at) = OfBlock(p, Merged(p, r)[at[1]], at)
  <2>1. CASE p = "anthropic"
    BY <2>1, MergeTwice DEF Merged
  <2>2. CASE p # "anthropic"
    <3> DEFINE m == q[at[1]]
               n == r[at[1]]
               b == m.content[at[2]]
               c == n.content[at[2]]
    <3>1. m \in AllMessages /\ at[1] \in DOMAIN q /\ at[2] \in DOMAIN m.content /\ m.role \in Roles
      BY PromptParts
    <3>2. MarkedLike(n, m)
      BY <1>1, <3>1
    <3>3. n.role = m.role /\ DOMAIN m.content = DOMAIN n.content
          /\ \A j \in DOMAIN m.content : m.content[j].type = n.content[j].type
      BY <1>1, <3>1 DEF Alike
    <3>4. p \in OpenAI!Families => m.meta \notin OpenAIMetas
      BY <3>1 DEF SetOnMessage
    <3>5. Merged(p, q) = q /\ Merged(p, r) = r
      BY <2>2 DEF Merged
    <3> HIDE DEF r, m, n
    <3>6. b \in BlocksFor(m.role) /\ Remarked(b, c) /\ c.meta \in {b.meta, m.meta}
          /\ (c.meta = b.meta \/ b.meta = "none")
      BY <3>1, <3>2, BlocksOfRole, MarkedIsRemarked
    <3> HIDE DEF b, c
    <3>7. SameBlock(p, m.role, b, c)
      <4>1. Remarked(b, b)
        BY DEF Remarked
      <4>2. QED
        BY <4>1, <3>1, <3>6, SameAsItself, RemarkedIsSame
    <3>8. SameMeta(p, b, c)
      BY <2>2, <3>4, <3>6 DEF SameMeta, GetMetadata, OwnMetas, OpenAIMetas
    <3>9. OfBlock(p, m, at) = OfBlock(p, n, at)
      BY <3>1, <3>3, <3>7, <3>8, CodecReads DEF b, c
    <3>10. QED
      BY <3>5, <3>9 DEF m, n
  <2>3. QED
    BY <2>1, <2>2
<1> HIDE DEF r
<1>3. Encode(p, q) = Encode(p, r)
  BY <1>1, <1>2, SameRequests
<1>4. QED
  BY <1>3 DEF r

(***************************************************************************)
(* Storage.                                                                *)
(***************************************************************************)

(* Data that is there and empty: it is not read back.                      *)
Empties(b) == b.type \in {"image", "file"} /\ b.from = "emptyData"

(* Metadata that was read from JSON is nobody's own (a plain map).         *)
LEMMA ReloadedIsMeta ==
  ASSUME NEW x
  PROVE  Reloaded(x) \in Metas /\ Reloaded(x) \notin AnthropicMetas \cup OpenAIMetas
BY DEF Reloaded, IsZero, Metas, AnthropicMetas, OpenAIMetas

(* A block that was stored is a block, and holds the same, but for empty   *)
(* data and, for claude, arguments that were nil.                          *)
LEMMA ReloadedBlockIsSame ==
  ASSUME NEW b \in ContentBlocks
  PROVE  /\ ReloadedBlock(b) \in ContentBlocks
         /\ b \in TextBlocks => ReloadedBlock(b) \in TextBlocks
         /\ b \in ResultParts => ReloadedBlock(b) \in ResultParts
         /\ ReloadedBlock(b).meta = Reloaded(b.meta)
         /\ ReloadedBlock(b).type = b.type
         /\ ~Empties(b) => SameContent(b, ReloadedBlock(b))
         /\ \A p : ~(p = "claude-code" /\ b.type = "tool-call" /\ b.args = "nil") => SameCall(p, b, ReloadedBlock(b))
<1> DEFINE c == ReloadedBlock(b)
<1>0. Reloaded(b.meta) \in Metas
  BY ReloadedIsMeta
<1>1. ASSUME b \in TextBlocks
      PROVE  c \in TextBlocks /\ c.meta = Reloaded(b.meta) /\ c.type = b.type /\ SameContent(b, c) /\ b.type = "text"
  BY <1>0, <1>1 DEF TextBlocks, ReloadedBlock, SameContent
<1>2. ASSUME b \in ToolCallBlocks
      PROVE  c \in ToolCallBlocks /\ c.meta = Reloaded(b.meta) /\ c.type = b.type /\ SameContent(b, c)
             /\ b.type = "tool-call" /\ c.args = IF b.args = "nil" THEN "null" ELSE b.args
  BY <1>0, <1>2 DEF ToolCallBlocks, Args, ReloadedBlock, SameContent
<1>3. ASSUME b \in ReasoningBlocks
      PROVE  c \in ReasoningBlocks /\ c.meta = Reloaded(b.meta) /\ c.type = b.type /\ SameContent(b, c)
             /\ b.type = "reasoning"
  BY <1>0, <1>3 DEF ReasoningBlocks, ReloadedBlock, SameContent
<1>4. ASSUME b \in SourceBlocks
      PROVE  c \in SourceBlocks /\ c.meta = Reloaded(b.meta) /\ c.type = b.type /\ SameContent(b, c)
             /\ b.type = "source"
  BY <1>0, <1>4 DEF SourceBlocks, ReloadedBlock, SameContent
<1>5. ASSUME b \in ImageBlocks
      PROVE  c \in ImageBlocks /\ c.meta = Reloaded(b.meta) /\ c.type = b.type
             /\ (~Empties(b) => SameContent(b, c)) /\ b.type = "image"
  BY <1>0, <1>5 DEF ImageBlocks, Sources, ReloadedBlock, SameContent, Empties
<1>6. ASSUME b \in FileBlocks
      PROVE  c \in FileBlocks /\ c.meta = Reloaded(b.meta) /\ c.type = b.type
             /\ (~Empties(b) => SameContent(b, c)) /\ b.type = "file"
  BY <1>0, <1>6 DEF FileBlocks, Sources, ReloadedBlock, SameContent, Empties
<1> HIDE DEF c
<1>7. c \in ContentBlocks /\ c.meta = Reloaded(b.meta) /\ c.type = b.type /\ (~Empties(b) => SameContent(b, c))
  BY <1>1, <1>2, <1>3, <1>4, <1>5, <1>6 DEF ContentBlocks
<1>8. b \in ResultParts => c \in ResultParts
  BY <1>1, <1>4, <1>5 DEF ResultParts
<1>9. b.type = "tool-call" => c.args = IF b.args = "nil" THEN "null" ELSE b.args
  BY <1>2, ContentTypes
<1>10. QED
  BY <1>1, <1>7, <1>8, <1>9 DEF c, SameCall

(* Tool results are the same when their parts are.                         *)
LEMMA PartsMakeSame ==
  ASSUME NEW p, NEW b, NEW c,
         c.type = b.type /\ c.id = b.id /\ c.name = b.name,
         c.hasContent = b.hasContent,
         c.result = b.result \/ (p # "codex" /\ c.result \in {"value", "loaded"} /\ b.result \in {"value", "loaded"}),
         Len(b.content) \in Nat /\ DOMAIN b.content = 1..Len(b.content),
         Len(c.content) = Len(b.content) /\ DOMAIN c.content = DOMAIN b.content,
         c.content = <<>> <=> b.content = <<>>,
         \A k \in DOMAIN b.content : SameContent(b.content[k], c.content[k])
  PROVE  SameResult(p, b, c)
  BY DEF SameResult

(* So is a tool result, but for an empty content and, for codex, a value.  *)
LEMMA ReloadedResultIsSame ==
  ASSUME NEW b \in ToolResultBlocks
  PROVE  /\ ReloadedResult(b) \in ToolResultBlocks
         /\ ReloadedResult(b).meta = Reloaded(b.meta)
         /\ ReloadedResult(b).type = b.type
         /\ \A p : (b.content # <<>> /\ (\A k \in DOMAIN b.content : ~Empties(b.content[k]))
                     /\ ~(p = "codex" /\ b.result = "value"))
                   => SameResult(p, b, ReloadedResult(b))
<1> DEFINE c == ReloadedResult(b)
           parts == [k \in DOMAIN b.content |-> ReloadedBlock(b.content[k])]
           result == IF b.result = "value" THEN "loaded" ELSE b.result
           has == b.content # <<>>
<1>1. /\ b \in [type : {"tool-result"}, id : BOOLEAN, name : {"function", "computer"}, result : Results,
                hasContent : BOOLEAN, content : Seq(ResultParts), isError : BOOLEAN, meta : Metas]
      /\ b.content # <<>> => b.hasContent
  BY DEF ToolResultBlocks
<1>2. b.content \in Seq(ResultParts) /\ DOMAIN b.content = 1..Len(b.content) /\ Len(b.content) \in Nat
  BY <1>1
<1>3. ResultParts \subseteq ContentBlocks
  BY DEF ResultParts, ContentBlocks
<1>4. \A k \in DOMAIN b.content : ReloadedBlock(b.content[k]) \in ResultParts
  BY <1>2, <1>3, ReloadedBlockIsSame
<1>5. parts \in Seq(ResultParts) /\ DOMAIN parts = DOMAIN b.content /\ Len(parts) = Len(b.content)
  BY <1>2, <1>4
<1>6. c = [b EXCEPT !.meta = Reloaded(b.meta), !.result = result, !.hasContent = has, !.content = parts]
  BY DEF ReloadedResult
<1>7. Reloaded(b.meta) \in Metas /\ result \in Results /\ has \in BOOLEAN
  BY <1>1, ReloadedIsMeta DEF Results
<1>8. (parts # <<>> <=> b.content # <<>>) /\ (parts # <<>> => has)
  BY <1>2, <1>5
<1>9. \A k \in DOMAIN b.content : ~Empties(b.content[k]) => SameContent(b.content[k], parts[k])
  BY <1>2, <1>3, ReloadedBlockIsSame
<1> HIDE DEF c, parts, has
<1>10. /\ c.type = b.type /\ c.id = b.id /\ c.name = b.name /\ c.result = result /\ c.content = parts
       /\ c.meta = Reloaded(b.meta) /\ c.hasContent = has
  BY <1>1, <1>6
<1>11. c \in ToolResultBlocks
  BY <1>1, <1>5, <1>6, <1>7, <1>8 DEF ToolResultBlocks
<1>12. ASSUME NEW p
       PROVE  (b.content # <<>> /\ (\A k \in DOMAIN b.content : ~Empties(b.content[k]))
                /\ ~(p = "codex" /\ b.result = "value"))
              => SameResult(p, b, c)
  <2> HAVE /\ b.content # <<>> /\ (\A k \in DOMAIN b.content : ~Empties(b.content[k]))
           /\ ~(p = "codex" /\ b.result = "value")
  <2>1. c.hasContent = b.hasContent
    BY <1>1, <1>7, <1>8, <1>10
  <2>2. c.result = b.result \/ (p # "codex" /\ c.result \in {"value", "loaded"} /\ b.result \in {"value", "loaded"})
    BY <1>10
  <2>3. \A k \in DOMAIN b.content : SameContent(b.content[k], c.content[k])
    BY <1>9, <1>10
  <2>4. Len(c.content) = Len(b.content) /\ DOMAIN c.content = DOMAIN b.content
    BY <1>5, <1>10
  <2>5. c.content = <<>> <=> b.content = <<>>
    BY <1>8, <1>10
  <2>6. c.type = b.type /\ c.id = b.id /\ c.name = b.name
    BY <1>10
  <2>7. QED
    BY <1>2, <2>1, <2>2, <2>3, <2>4, <2>5, <2>6, PartsMakeSame
<1>13. c \in ToolResultBlocks /\ c.meta = Reloaded(b.meta) /\ c.type = b.type
  BY <1>10, <1>11
<1>14. QED
  BY <1>12, <1>13 DEF c

(* A message that was stored is a message, block by block.                 *)
LEMMA ReloadedMessageIsMessage ==
  ASSUME NEW m \in AllMessages
  PROVE  /\ ReloadedMessage(m) \in AllMessages
         /\ ReloadedMessage(m).role = m.role /\ ReloadedMessage(m).meta = Reloaded(m.meta)
         /\ DOMAIN ReloadedMessage(m).content = DOMAIN m.content
         /\ \A j \in DOMAIN m.content :
              ReloadedMessage(m).content[j] = IF m.role = "tool" THEN ReloadedResult(m.content[j])
                                                 ELSE ReloadedBlock(m.content[j])
<1> DEFINE Read(b) == IF m.role = "tool" THEN ReloadedResult(b) ELSE ReloadedBlock(b)
           content == [j \in DOMAIN m.content |-> Read(m.content[j])]
           n == ReloadedMessage(m)
<1>1. /\ m \in [role : Roles, content : Seq(ContentBlocks \cup ToolResultBlocks), meta : Metas] /\ IsMessage(m)
      /\ DOMAIN m.content = 1..Len(m.content) /\ Len(m.content) \in Nat
  BY DEF AllMessages
<1>2. n = [m EXCEPT !.meta = Reloaded(m.meta), !.content = content]
  BY DEF ReloadedMessage
<1>3. \A j \in DOMAIN m.content : content[j] = Read(m.content[j])
  OBVIOUS
<1>4. DOMAIN content = DOMAIN m.content
  OBVIOUS
<1>5. Reloaded(m.meta) \in Metas
  BY ReloadedIsMeta
<1>6. ASSUME NEW j \in DOMAIN m.content
      PROVE  /\ m.role \in {"user", "assistant"} => Read(m.content[j]) \in ContentBlocks
             /\ m.role = "tool" => Read(m.content[j]) \in ToolResultBlocks
             /\ m.role = "system" => Read(m.content[j]) \in TextBlocks /\ Read(m.content[j]).meta = Reloaded(m.meta)
             /\ Read(m.content[j]) \in ContentBlocks \cup ToolResultBlocks
  <2>1. m.content[j] \in TextBlocks => m.content[j] \in ContentBlocks
    BY DEF ContentBlocks
  <2>2. QED
    BY <2>1, <1>1, BlockTypes, ReloadedBlockIsSame, ReloadedResultIsSame DEF Roles
<1> HIDE DEF Read
<1>7. m.role \in {"user", "assistant"} => content \in Seq(ContentBlocks)
  BY <1>1, <1>6
<1>8. m.role = "tool" => content \in Seq(ToolResultBlocks)
  BY <1>1, <1>6
<1>9. content \in Seq(ContentBlocks \cup ToolResultBlocks)
  BY <1>1, <1>6
<1>10. m.role = "system" => \E b \in TextBlocks : content = <<b>> /\ content[1].meta = Reloaded(m.meta)
  <2> SUFFICES ASSUME m.role = "system" PROVE \E b \in TextBlocks : content = <<b>>
  /\ content[1].meta = Reloaded(m.meta)
    OBVIOUS
  <2>1. DOMAIN m.content = {1}
    BY <1>1 DEF IsMessage
  <2>2. content[1] \in TextBlocks /\ content[1].meta = Reloaded(m.meta)
    BY <2>1, <1>3, <1>6
  <2>3. content = <<content[1]>>
    BY <2>1, <1>4
  <2>4. QED
    BY <2>2, <2>3
<1> HIDE DEF content, n
<1>11. n.role = m.role /\ n.meta = Reloaded(m.meta) /\ n.content = content
  BY <1>1, <1>2
<1>12. n \in [role : Roles, content : Seq(ContentBlocks \cup ToolResultBlocks), meta : Metas]
  BY <1>1, <1>2, <1>5, <1>9
<1>13. IsMessage(n)
  <2>1. CASE m.role = "system"
    <3>1. content \in {<<b>> : b \in TextBlocks} /\ content[1].meta = Reloaded(m.meta)
      BY <2>1, <1>10
    <3>2. n \in [role : {"system"}, content : {<<b>> : b \in TextBlocks}, meta : Metas]
      BY <2>1, <3>1, <1>12, <1>11
    <3>3. QED
      BY <3>1, <3>2, <1>11 DEF IsMessage
  <2>2. CASE m.role \in {"user", "assistant"}
    BY <2>2, <1>7, <1>11, <1>12 DEF IsMessage
  <2>3. CASE m.role = "tool"
    BY <2>3, <1>8, <1>11, <1>12 DEF IsMessage
  <2>4. QED
    BY <2>1, <2>2, <2>3, <1>1 DEF Roles
<1>14. QED
  BY <1>3, <1>4, <1>11, <1>12, <1>13 DEF AllMessages, n, Read

(* A prompt that was stored is a prompt.                                   *)
LEMMA ReloadedPromptIsPrompt ==
  ASSUME NEW q \in Prompts
  PROVE  ReloadedPrompt(q) \in Prompts /\ DOMAIN ReloadedPrompt(q) = DOMAIN q /\ Alike(q, ReloadedPrompt(q))
<1> DEFINE r == ReloadedPrompt(q)
<1>1. DOMAIN q = 1..Len(q) /\ Len(q) \in Nat /\ \A i \in DOMAIN q : q[i] \in AllMessages
  BY DEF Prompts
<1>2. DOMAIN r = DOMAIN q /\ \A i \in DOMAIN q : r[i] = ReloadedMessage(q[i])
  BY DEF ReloadedPrompt
<1>3. r \in Prompts
  <2>1. \A i \in 1..Len(q) : ReloadedMessage(q[i]) \in AllMessages
    BY <1>1, ReloadedMessageIsMessage
  <2>2. QED
    BY <2>1, <1>1 DEF ReloadedPrompt, Prompts
<1> HIDE DEF r
<1>4. ASSUME NEW i \in DOMAIN q
      PROVE  /\ q[i].role = r[i].role /\ DOMAIN q[i].content = DOMAIN r[i].content
             /\ \A j \in DOMAIN q[i].content : q[i].content[j].type = r[i].content[j].type
  <2>1. q[i] \in AllMessages /\ r[i] = ReloadedMessage(q[i])
    BY <1>1, <1>2
  <2>2. \A j \in DOMAIN q[i].content : IF q[i].role = "tool" THEN q[i].content[j] \in ToolResultBlocks
                                          ELSE q[i].content[j] \in ContentBlocks
    BY <2>1, BlocksOfRole DEF BlocksFor
  <2>3. QED
    BY <2>1, <2>2, ReloadedMessageIsMessage, ReloadedBlockIsSame, ReloadedResultIsSame
<1>5. QED
  BY <1>2, <1>3, <1>4 DEF Alike, r

(* A prompt that was stored is encoded as it was, but for what             *)
(* ChangesByStorage names.                                                 *)
LEMMA StorageIsQuiet ==
  ASSUME NEW p \in Providers, NEW q \in Prompts, ~ChangesByStorage(p, q)
  PROVE  Encode(p, ReloadedPrompt(q)) = Encode(p, q)
<1> DEFINE r == ReloadedPrompt(q)
<1>1. r \in Prompts /\ DOMAIN r = DOMAIN q /\ Alike(q, r) /\ \A i \in DOMAIN q : r[i] = ReloadedMessage(q[i])
  BY ReloadedPromptIsPrompt DEF ReloadedPrompt
<1>2. /\ Merged(p, q) \in Prompts /\ Alike(q, Merged(p, q)) /\ \A i \in DOMAIN q : MarkedLike(Merged(p, q)[i], q[i])
      /\ Merged(p, r) \in Prompts /\ Alike(r, Merged(p, r)) /\ \A i \in DOMAIN q : MarkedLike(Merged(p, r)[i], r[i])
  BY <1>1, MergedAlike
<1> HIDE DEF r
<1>3. ASSUME NEW at \in Places(q)
      PROVE  OfBlock(p, Merged(p, q)[at[1]], at) = OfBlock(p, Merged(p, r)[at[1]], at)
  <2> DEFINE i == at[1]
             j == at[2]
             b == q[i].content[j]
             c == r[i].content[j]
             m == Merged(p, q)[i]
             n == Merged(p, r)[i]
             d == m.content[j]
             e == n.content[j]
  <2>1. i \in DOMAIN q /\ j \in DOMAIN q[i].content /\ q[i] \in AllMessages /\ q[i].role \in Roles
        /\ r[i] \in AllMessages /\ r[i].role = q[i].role /\ j \in DOMAIN r[i].content
    BY <1>1, PromptParts DEF Alike
  <2>2. /\ c = IF q[i].role = "tool" THEN ReloadedResult(b) ELSE ReloadedBlock(b)
        /\ r[i].meta = Reloaded(q[i].meta)
    BY <1>1, <2>1, ReloadedMessageIsMessage
  <2>3. b \in BlocksFor(q[i].role) /\ c \in BlocksFor(q[i].role)
    BY <2>1, BlocksOfRole
  <2>4. b \in BlocksIn(q)
    BY DEF BlocksIn, BlockAt
  <2>5. q[i].meta \notin OwnMetas(p) /\ b.meta \notin OwnMetas(p)
    BY <2>1, <2>4 DEF ChangesByStorage
  <2>6. MarkedLike(m, q[i]) /\ MarkedLike(n, r[i])
    BY <1>2, <2>1
  <2>7. m.role = q[i].role /\ n.role = m.role /\ m \in AllMessages /\ DOMAIN m.content = DOMAIN n.content
        /\ \A k \in DOMAIN m.content : m.content[k].type = n.content[k].type
    <3> HIDE DEF i
    <3>1. DOMAIN Merged(p, q) = DOMAIN q /\ m \in AllMessages
      BY <1>2, <2>1, PromptParts DEF Alike
    <3>2. /\ m.role = q[i].role /\ DOMAIN q[i].content = DOMAIN m.content
          /\ \A k \in DOMAIN q[i].content : q[i].content[k].type = m.content[k].type
      BY <1>2, <2>1 DEF Alike
    <3>3. /\ r[i].role = q[i].role /\ DOMAIN q[i].content = DOMAIN r[i].content
          /\ \A k \in DOMAIN q[i].content : q[i].content[k].type = r[i].content[k].type
      BY <1>1, <2>1 DEF Alike
    <3>4. /\ r[i].role = n.role /\ DOMAIN r[i].content = DOMAIN n.content
          /\ \A k \in DOMAIN r[i].content : r[i].content[k].type = n.content[k].type
      BY <1>1, <1>2, <2>1 DEF Alike
    <3> HIDE DEF m, n
    <3>5. QED
      BY <3>1, <3>2, <3>3, <3>4
  <2> HIDE DEF i, j, b, c, m, n
  <2>8. /\ Remarked(b, d) /\ d.meta \in {b.meta, q[i].meta}
        /\ Remarked(c, e) /\ e.meta \in {c.meta, r[i].meta}
    BY <2>1, <2>6, MarkedIsRemarked DEF b, c
  <2>9. SameBlock(p, q[i].role, b, c) /\ c.meta = Reloaded(b.meta)
    <3>1. CASE q[i].role = "tool"
      <4>1. b \in ToolResultBlocks /\ b.type = "tool-result" /\ b.content \in Seq(ResultParts)
        BY <3>1, <2>1, <2>3, BlockFields
      <4>2. \A k \in DOMAIN b.content : b.content[k] \in Inner(q)
        BY <2>4, <4>1 DEF Inner, ToSet
      <4>3. /\ \A k \in DOMAIN b.content : ~Empties(b.content[k])
            /\ b.content # <<>> /\ ~(p = "codex" /\ b.result = "value")
        BY <2>4, <4>1, <4>2 DEF ChangesByStorage, Empties
      <4>4. QED
        BY <2>2, <3>1, <4>1, <4>3, ReloadedResultIsSame DEF SameBlock
    <3>2. CASE q[i].role # "tool"
      <4>1. b \in ContentBlocks
        BY <3>2, <2>1, <2>3, BlockFields
      <4>2. ~Empties(b)
        BY <2>4 DEF ChangesByStorage, Empties
      <4>3. ~(p = "claude-code" /\ b.type = "tool-call" /\ b.args = "nil")
        BY <2>4 DEF ChangesByStorage
      <4>4. QED
        BY <2>2, <3>2, <4>1, <4>2, <4>3, ReloadedBlockIsSame DEF SameBlock
    <3>3. QED
      BY <3>1, <3>2
  <2>10. SameBlock(p, q[i].role, d, e)
    BY <2>1, <2>3, <2>8, <2>9, RemarkedIsSame
  <2>11. SameMeta(p, d, e)
    <3>1. d.meta \notin OwnMetas(p)
      BY <2>5, <2>8
    <3>2. e.meta \notin AnthropicMetas \cup OpenAIMetas
      BY <2>2, <2>8, <2>9, ReloadedIsMeta
    <3>3. e.meta \notin OwnMetas(p)
      BY <3>2 DEF OwnMetas
    <3>4. QED
      BY <3>1, <3>3 DEF SameMeta, GetMetadata
  <2>12. OfBlock(p, m, at) = OfBlock(p, n, at)
    BY <2>7, <2>10, <2>11, CodecReads DEF j
  <2>13. QED
    BY <2>12 DEF m, n, i
<1>4. Encode(p, q) = Encode(p, r)
  BY <1>1, <1>3, SameRequests
<1>5. QED
  BY <1>4 DEF r

(* So are the options, but for metadata of the provider's own.             *)
LEMMA OptionStorageIsQuiet ==
  ASSUME NEW p \in Providers, NEW o \in Options!CallOptions, o.meta \notin OwnOptionMetas(p)
  PROVE  /\ Options!ReloadedOptions(o) \in Options!CallOptions
         /\ EncodeOptions(p, Options!ReloadedOptions(o)) = EncodeOptions(p, o)
<1> DEFINE r == Options!ReloadedOptions(o)
<1>1. /\ r.settings = o.settings /\ r.format = o.format /\ r.tools = o.tools /\ r.choice = o.choice
      /\ r.meta = IF o.meta = "none" THEN "none" ELSE "loaded"
      /\ r \in Options!CallOptions
  BY DEF Options!ReloadedOptions, Options!CallOptions, Options!OptionMetas
<1> SUFFICES r \in Options!CallOptions /\ EncodeOptions(p, r) = EncodeOptions(p, o)
  OBVIOUS
<1> HIDE DEF r
<1> USE DEF OpenAI!Families
<1>2. \A kinds : Options!Places(r, kinds) = Options!Places(o, kinds)
  BY <1>1 DEF Options!Places
<1>3. \A formats : Options!FormatIf(r, formats) = Options!FormatIf(o, formats)
  BY <1>1 DEF Options!FormatIf
<1>4. CASE p = "anthropic"
  <2>1. /\ Options!anthropicSettings(r) = Options!anthropicSettings(o)
        /\ Options!anthropicEncodeThinking(r) = Options!anthropicEncodeThinking(o)
    BY <1>1, <1>4 DEF OwnOptionMetas, Options!anthropicSettings, Options!anthropicEncodeThinking
  <2>2. /\ Options!anthropicUnsupported(r) = Options!anthropicUnsupported(o)
        /\ Options!anthropicToolsOf(r) = Options!anthropicToolsOf(o)
        /\ Options!EncodeToolChoice(r) = Options!EncodeToolChoice(o)
        /\ Options!anthropicBetas(r) = Options!anthropicBetas(o)
    BY <1>1, <1>2, <1>3
       DEF Options!anthropicUnsupported, Options!anthropicToolsOf, Options!EncodeToolChoice,
          Options!anthropicBetas, Options!Has
  <2>3. r.meta # "noBudget" /\ o.meta # "noBudget"
    BY <1>1, <1>4 DEF OwnOptionMetas
  <2>4. Options!anthropicEncodeOptions(r) = Options!anthropicEncodeOptions(o)
    BY <1>1, <1>2, <2>1, <2>2, <2>3 DEF Options!anthropicEncodeOptions, Options!Has
  <2>5. QED
    BY <1>1, <1>4, <2>4 DEF EncodeOptions
<1>5. CASE p \in OpenAI!Families
  <2> DEFINE reasons == OpenAI!IsReasoningModel(p)
  <2>1. Options!applyCallOptions(r, reasons) = Options!applyCallOptions(o, reasons)
    BY <1>1, <1>3, <1>5 DEF OwnOptionMetas, Options!applyCallOptions
  <2>2. /\ Options!encodeToolDefinition(r) = Options!encodeToolDefinition(o)
        /\ Options!unsupportedWarnings(r) = Options!unsupportedWarnings(o)
        /\ Options!reasoningUnsupported(r, reasons) = Options!reasoningUnsupported(o, reasons)
    BY <1>1, <1>2 DEF Options!encodeToolDefinition, Options!unsupportedWarnings, Options!reasoningUnsupported
  <2>3. Options!openaiEncodeOptions(r, reasons) = Options!openaiEncodeOptions(o, reasons)
    <3> HIDE DEF reasons
    <3>1. QED
      BY <1>1, <1>2, <2>1, <2>2 DEF Options!openaiEncodeOptions, Options!HasBadSchema, Options!Has
  <2>4. p # "anthropic"
    BY <1>5
  <2>5. QED
    BY <1>1, <1>5, <2>3, <2>4 DEF EncodeOptions
<1>6. CASE p = "openrouter"
  <2>1. Options!buildRequestBody(r) = Options!buildRequestBody(o)
    BY <1>1, <1>2, <1>3 DEF Options!buildRequestBody
  <2>2. QED
    BY <1>1, <1>6, <2>1 DEF EncodeOptions
<1>7. CASE p \in {"claude-code", "codex"}
  <2>1. \A supported : Options!cliEncodeOptions(r, supported) = Options!cliEncodeOptions(o, supported)
    BY <1>1, <1>3 DEF Options!cliEncodeOptions, Options!CallOptionWarnings
  <2>2. QED
    BY <1>1, <1>7, <2>1 DEF EncodeOptions
<1>8. CASE p = "completion"
  BY <1>1, <1>8 DEF EncodeOptions
<1>9. QED
  BY <1>4, <1>5, <1>6, <1>7, <1>8 DEF Providers

(***************************************************************************)
(* Accepted requests.                                                      *)
(***************************************************************************)

(* What becomes of a block is an error.                                    *)
IsError(x) == x # <<>> /\ x[1].kind = "error"

(* A request is accepted when no message is misplaced and no block is an   *)
(* error; what is not accepted is nothing at all.                          *)
LEMMA Accepted ==
  ASSUME NEW p \in Providers, NEW q \in Prompts
  PROVE  LET r == Encode(p, q)
             m == Merged(p, q)
         IN /\ r.ok <=> ~Misplaced(p, q) /\ \A at \in Places(q) : ~IsError(OfBlock(p, m[at[1]], at))
            /\ r.ok => InOrder(r.items, Places(q), OfAll(p, m), Ahead(p, m))
            /\ ~r.ok => r = Refused
<1> DEFINE m == Merged(p, q)
           r == Encode(p, q)
           F == OfAll(p, m)
<1>1. Refused.ok = FALSE
  BY DEF Refused
<1>2. CASE Misplaced(p, q)
  BY <1>1, <1>2, EncodesInOrder
<1>3. CASE ~Misplaced(p, q)
  <2>1. PICK items : r = Request(items, Warned(p, q)) /\ InOrder(items, Places(q), F, Ahead(p, m))
    BY <1>3, EncodesInOrder
  <2>2. Places(m) = Places(q)
    BY MergedAlike, AlikeInOrder
  <2>3. \A at \in Places(q) : F[at] = OfBlock(p, m[at[1]], at)
    BY <2>2 DEF OfAll
  <2> HIDE DEF F, m, r
  <2>4. (\E n \in DOMAIN items : items[n].kind = "error") <=> \E at \in Places(q) : IsError(F[at])
    <3>1. ASSUME NEW n \in DOMAIN items, items[n].kind = "error" PROVE \E at \in Places(q) : IsError(F[at])
      <4>1. items[n].at \in Places(q) /\ F[items[n].at] = <<items[n]>>
        BY <2>1 DEF InOrder
      <4>2. <<items[n]>> # <<>> /\ <<items[n]>>[1] = items[n]
        OBVIOUS
      <4>3. IsError(F[items[n].at])
        BY <3>1, <4>1, <4>2 DEF IsError
      <4>4. QED
        BY <4>1, <4>3
    <3>2. ASSUME NEW at \in Places(q), IsError(F[at]) PROVE \E n \in DOMAIN items : items[n].kind = "error"
      <4>1. PICK n \in DOMAIN items : items[n].at = at
        BY <2>1, <3>2 DEF InOrder, IsError
      <4>2. F[at] = <<items[n]>>
        BY <2>1, <4>1 DEF InOrder
      <4>3. QED
        BY <3>2, <4>2 DEF IsError
    <3>3. QED
      BY <3>1, <3>2
  <2>5. r.ok <=> ~\E n \in DOMAIN items : items[n].kind = "error"
    BY <2>1 DEF Request, Refused
  <2>6. r.ok => r.items = items
    BY <2>1 DEF Request, Refused
  <2>7. ~r.ok => r = Refused
    BY <2>1 DEF Request, Refused
  <2>8. r.ok <=> \A at \in Places(q) : ~IsError(OfBlock(p, m[at[1]], at))
    BY <2>3, <2>4, <2>5
  <2>9. QED
    BY <1>3, <2>1, <2>6, <2>7, <2>8 DEF F, m, r
<1>4. QED
  BY <1>2, <1>3

(* The block at a place, as it was and as it is encoded.                   *)
LEMMA EncodedBlock ==
  ASSUME NEW p \in Providers, NEW q \in Prompts, NEW at \in Places(q)
  PROVE  LET m == Merged(p, q)[at[1]]
             role == q[at[1]].role
             b == BlockAt(q, at)
             c == m.content[at[2]]
         IN /\ m \in AllMessages /\ m.role = role /\ role \in Roles /\ at \in AllPlaces /\ at[2] \in DOMAIN m.content
            /\ b \in BlocksFor(role) /\ c \in BlocksFor(role) /\ Remarked(b, c)
            /\ c.type = b.type
            /\ c.meta \in {b.meta, q[at[1]].meta} /\ (b.meta # "none" => c.meta = b.meta)
            /\ p # "anthropic" => m = q[at[1]] /\ c = b
<1> DEFINE i == at[1]
           m == Merged(p, q)[i]
           b == q[i].content[at[2]]
           c == m.content[at[2]]
<1>1. i \in DOMAIN q /\ at[2] \in DOMAIN q[i].content /\ q[i] \in AllMessages /\ at \in AllPlaces
  BY PromptParts
<1>2. MarkedLike(m, q[i]) /\ m \in AllMessages
  BY <1>1, MergedAlike, PromptParts
<1>3. m.role = q[i].role /\ DOMAIN m.content = DOMAIN q[i].content
  BY <1>2 DEF MarkedLike
<1>4. p # "anthropic" => m = q[i]
  BY DEF Merged
<1> HIDE DEF m, i
<1>5. b \in BlocksFor(q[i].role) /\ c \in BlocksFor(q[i].role)
  BY <1>1, <1>2, <1>3, BlocksOfRole
<1>6. q[i].role \in Roles
  BY <1>1 DEF AllMessages
<1>7. Remarked(b, c) /\ c.meta \in {b.meta, q[i].meta} /\ (c.meta = b.meta \/ b.meta = "none")
  BY <1>1, <1>2, MarkedIsRemarked
<1>8. c.type = b.type
  BY <1>5, <1>6, <1>7, RemarkedFields
<1>9. QED
  BY <1>1, <1>2, <1>3, <1>4, <1>5, <1>6, <1>7, <1>8 DEF m, i, BlockAt

(* The types that the blocks of a message may have.                        *)
LEMMA RoleTypes ==
  ASSUME NEW m \in AllMessages, NEW j \in DOMAIN m.content
  PROVE  /\ m.role = "system" => m.content[j].type = "text"
         /\ m.role \in {"user", "assistant"} =>
              m.content[j].type \in {"text", "image", "file", "tool-call", "reasoning", "source"}
         /\ m.role = "tool" => m.content[j].type = "tool-result"
<1>1. m.role = "system" => m.content[j].type = "text"
  BY BlockTypes DEF TextBlocks
<1>2. m.role \in {"user", "assistant"} => m.content[j].type \in {"text", "image", "file", "tool-call", "reasoning",
          "source"}
  BY BlockTypes, ContentTypes
<1>3. m.role = "tool" => m.content[j].type = "tool-result"
  BY BlockTypes DEF ToolResultBlocks
<1>4. QED
  BY <1>1, <1>2, <1>3

(* What becomes of a block that is not refused: something, unless LeftOut. *)
LEMMA LeftOutIsNothing ==
  ASSUME NEW p \in Providers, NEW q \in Prompts, NEW at \in Places(q)
  PROVE  OfBlock(p, Merged(p, q)[at[1]], at) = <<>> <=> at \in LeftOut(p, q)
<1> DEFINE m == Merged(p, q)[at[1]]
           b == BlockAt(q, at)
           c == m.content[at[2]]
           role == q[at[1]].role
<1> USE DEF OpenAI!Families
<1>1. /\ m \in AllMessages /\ m.role = role /\ role \in Roles /\ at[2] \in DOMAIN m.content
      /\ c.type = b.type /\ (p # "anthropic" => m = q[at[1]] /\ c = b)
      /\ b \in BlocksFor(role)
  BY EncodedBlock
<1>2. /\ role = "system" => c.type = "text"
      /\ role \in {"user", "assistant"} => c.type \in {"text", "image", "file", "tool-call", "reasoning", "source"}
      /\ role = "tool" => c.type = "tool-result"
  BY <1>1, RoleTypes
<1>3. InSystem(q, at) <=> role = "system"
  BY DEF InSystem, IsSystem
<1>0. \A x : <<x>> # <<>>
  OBVIOUS
<1> HIDE DEF m, b, role
<1>4. CASE p = "anthropic"
  <2>1. OfBlock(p, m, at) = OfAnthropic(role, c, at)
    BY <1>1, <1>4 DEF OfBlock
  <2> HIDE DEF c
  <2>2. OfAnthropic(role, c, at) # <<>>
    <3>1. role = "tool" => c.id \in BOOLEAN
      <4>1. role = "tool" => c \in ToolResultBlocks
        BY <1>1, BlockTypes DEF c
      <4>2. QED
        BY <4>1 DEF ToolResultBlocks
    <3>2. QED
      BY <1>0, <1>1, <3>1 DEF OfAnthropic, Roles, Anthropic!EncodeSystemMessage, Anthropic!EncodeUserContentBlock,
         Anthropic!EncodeAssistantBlock,
         Anthropic!EncodeToolResult
  <2>3. QED
    BY <1>4, <2>1, <2>2 DEF LeftOut, m
<1>5. CASE p \in OpenAI!Families
  <2>1. OfBlock(p, m, at) = OfOpenAI(p, role, c, at)
    BY <1>1, <1>5 DEF OfBlock
  <2> HIDE DEF c
  <2>2. OfOpenAI(p, role, c, at) = <<>> <=> role = "system" /\ p = "o1-mini"
    <3>1. role = "tool" => c.id \in BOOLEAN
      <4>1. role = "tool" => c \in ToolResultBlocks
        BY <1>1, BlockTypes DEF c
      <4>2. QED
        BY <4>1 DEF ToolResultBlocks
    <3>2. OpenAI!EncodeSystemMessage(p, at) = <<>> <=> p = "o1-mini"
      BY <1>0, <1>5 DEF OpenAI!EncodeSystemMessage, OpenAI!SystemMessageMode
    <3>3. QED
      BY <1>0, <1>1, <3>1, <3>2 DEF OfOpenAI, Roles, OpenAI!EncodeUserContentBlock, OpenAI!EncodeAssistantBlock,
         OpenAI!EncodeToolResultBlock
  <2>3. QED
    BY <1>3, <1>5, <2>1, <2>2 DEF LeftOut, m
<1>6. CASE p \in {"openrouter", "completion"}
  <2>1. OfBlock(p, m, at) = IF p = "openrouter" THEN OfOpenRouter(role, c, at) ELSE OfCompletion(role, c, at)
    BY <1>1, <1>6 DEF OfBlock
  <2> HIDE DEF c
  <2>2. OfOpenRouter(role, c, at) # <<>> /\ OfCompletion(role, c, at) # <<>>
    BY <1>0, <1>1 DEF OfOpenRouter, OfCompletion, Roles, OpenRouter!encodeSystemMessage,
       OpenRouter!encodeUserContentBlock,
       OpenRouter!encodeToolResult, OpenRouter!gatherText
  <2>3. QED
    BY <1>6, <2>1, <2>2 DEF LeftOut, m
<1>7. CASE p = "claude-code"
  <2>1. OfBlock(p, m, at) = OfClaude(m, c, at) /\ c = b
    BY <1>1, <1>7 DEF OfBlock
  <2>2. Cli!isTextOnly(m.content) => c.type = "text"
    BY <1>1 DEF Cli!isTextOnly
  <2> HIDE DEF c
  <2>3. OfClaude(m, c, at) = <<>> <=> c.type \in {"image", "file", "reasoning", "source"}
    <3>1. c.type = "tool-call" => c.args \in {"json", "null", "nil", "empty", "malformed"}
      <4>1. c.type = "tool-call" => c \in ContentBlocks
        BY <1>1, <1>2, <2>1 DEF BlocksFor, Roles
      <4>2. QED
        BY <4>1, ContentTypes DEF ToolCallBlocks, Args
    <3>2. Cli!encodeContentBlock(c, at) = <<>> <=> c.type \notin {"text", "tool-call"}
      BY <1>0, <3>1 DEF Cli!encodeContentBlock
    <3>3. QED
      BY <1>0, <1>1, <1>2, <2>2, <3>2 DEF OfClaude, Roles, Cli!extractText, Cli!encodeToolResult
  <2>4. QED
    BY <1>7, <2>1, <2>3 DEF LeftOut, m, b
<1>8. CASE p = "codex"
  <2>1. OfBlock(p, m, at) = OfCodex(role, c, at) /\ c = b
    BY <1>1, <1>8 DEF OfBlock
  <2>2. c.type = "reasoning" => c.some \in BOOLEAN
    <3>1. role \in {"user", "assistant"} => c \in ContentBlocks
      BY <1>1, BlockTypes
    <3>2. QED
      BY <1>1, <1>2, <3>1, ContentTypes DEF Roles
  <2> HIDE DEF c
  <2>3. OfCodex(role, c, at) = <<>> <=> c.type = "source" \/ (c.type = "reasoning" /\ ~c.some)
    BY <1>0, <1>1, <1>2, <2>2 DEF OfCodex, Roles, Cli!extractTextFromContent, Cli!extractToolResult
  <2>4. QED
    BY <1>8, <2>1, <2>3 DEF LeftOut, m, b
<1>9. QED
  BY <1>4, <1>5, <1>6, <1>7, <1>8 DEF Providers

(* An item of an accepted request, and the block it is made of.            *)
LEMMA AcceptedItem ==
  ASSUME NEW p \in Providers, NEW q \in Prompts, Encode(p, q).ok, NEW n \in DOMAIN Encode(p, q).items
  PROVE  LET item == Encode(p, q).items[n]
         IN /\ item.at \in Places(q) /\ item \in Items /\ item.kind # "error"
            /\ OfBlock(p, Merged(p, q)[item.at[1]], item.at) = <<item>>
<1> DEFINE items == Encode(p, q).items
           m == Merged(p, q)
<1>1. InOrder(items, Places(q), OfAll(p, m), Ahead(p, m)) /\ \A at \in Places(q) : ~IsError(OfBlock(p, m[at[1]], at))
  BY Accepted
<1>2. Places(m) = Places(q)
  BY MergedAlike, AlikeInOrder
<1> HIDE DEF items, m
<1>3. n \in DOMAIN items
  BY DEF items
<1>4. items[n].at \in Places(q) /\ OfAll(p, m)[items[n].at] = <<items[n]>> /\ items[n] \in Items
  BY <1>1, <1>3 DEF InOrder
<1>5. OfBlock(p, m[items[n].at[1]], items[n].at) = <<items[n]>>
  BY <1>2, <1>4 DEF OfAll
<1>6. items[n].kind # "error"
  <2>1. ~IsError(<<items[n]>>)
    BY <1>1, <1>4, <1>5
  <2>2. <<items[n]>> # <<>> /\ <<items[n]>>[1] = items[n]
    OBVIOUS
  <2>3. QED
    BY <2>1, <2>2 DEF IsError
<1>7. QED
  BY <1>4, <1>5, <1>6 DEF items, m

(* An accepted request has every block of the prompt, in order, but for    *)
(* those that are left out.                                                *)
LEMMA AcceptedBlocks ==
  ASSUME NEW p \in Providers, NEW q \in Prompts, Encode(p, q).ok
  PROVE  LET items == Encode(p, q).items
         IN /\ {items[n].at : n \in DOMAIN items} = Places(q) \ LeftOut(p, q)
            /\ \A n, k \in DOMAIN items : n < k => IsAhead(p, q, items[n].at, items[k].at)
<1> DEFINE items == Encode(p, q).items
           m == Merged(p, q)
           Of(at) == OfBlock(p, m[at[1]], at)
<1>1. InOrder(items, Places(q), OfAll(p, m), Ahead(p, m)) /\ \A at \in Places(q) : ~IsError(Of(at))
  BY Accepted
<1>2. Places(m) = Places(q) /\ \A a, b \in Places(q) : <<a, b>> \in Ahead(p, m) <=> <<a, b>> \in Ahead(p, q)
  BY MergedAlike, AlikeInOrder
<1>3. \A at \in Places(q) : Of(at) = <<>> <=> at \in LeftOut(p, q)
  BY LeftOutIsNothing
<1>4. \A at \in Places(q) : p = "openrouter" /\ IsLate(q, at) => IsCall(q, at)
  <2> SUFFICES ASSUME NEW at \in Places(q), p = "openrouter", IsLate(q, at) PROVE IsCall(q, at)
    OBVIOUS
  <2> DEFINE b == BlockAt(q, at)
  <2>1. m = q /\ q[at[1]].role = "assistant" /\ b.type # "text" /\ b = q[at[1]].content[at[2]]
    BY DEF Merged, IsLate, BlockAt
  <2>2. Of(at) = OfOpenRouter("assistant", b, at)
    BY <2>1 DEF OfBlock, OpenAI!Families
  <2> HIDE DEF b
  <2>3. b.type = "tool-call" \/ OfOpenRouter("assistant", b, at) = <<Error(at)>>
    BY <2>1 DEF OfOpenRouter
  <2>4. IsError(<<Error(at)>>)
    BY DEF IsError, Error, Item
  <2>5. b.type = "tool-call"
    <3> HIDE DEF Of
    <3>1. QED
      BY <1>1, <2>2, <2>3, <2>4
  <2>6. QED
    BY <2>1, <2>5 DEF IsCall, b
<1> HIDE DEF items, m
<1>5. \A at \in Places(q) : OfAll(p, m)[at] = Of(at)
  BY <1>2 DEF OfAll
<1> HIDE DEF Of
<1>6. {items[n].at : n \in DOMAIN items} = Places(q) \ LeftOut(p, q)
  <2>1. ASSUME NEW n \in DOMAIN items PROVE items[n].at \in Places(q) \ LeftOut(p, q)
    <3>1. items[n].at \in Places(q) /\ OfAll(p, m)[items[n].at] = <<items[n]>>
      BY <1>1 DEF InOrder
    <3>2. <<items[n]>> # <<>>
      OBVIOUS
    <3>3. QED
      BY <1>3, <1>5, <3>1, <3>2
  <2>2. ASSUME NEW at \in Places(q) \ LeftOut(p, q) PROVE \E n \in DOMAIN items : items[n].at = at
    <3>1. OfAll(p, m)[at] # <<>>
      BY <1>3, <1>5
    <3>2. QED
      BY <1>1, <3>1 DEF InOrder
  <2>3. QED
    BY <2>1, <2>2
<1>7. ASSUME NEW n \in DOMAIN items, NEW k \in DOMAIN items, n < k PROVE IsAhead(p, q, items[n].at, items[k].at)
  <2> DEFINE a == items[n].at
             b == items[k].at
  <2>1. a \in Places(q) /\ b \in Places(q) /\ <<a, b>> \in Ahead(p, m)
    BY <1>1, <1>7 DEF InOrder
  <2> HIDE DEF a, b
  <2>2. Precedes(p, q, a, b)
    BY <1>2, <2>1 DEF Ahead
  <2>3. p = "openrouter" => IsCall(q, a) = IsLate(q, a) /\ IsCall(q, b) = IsLate(q, b)
    BY <1>4, <2>1 DEF IsCall, IsLate
  <2>4. IsAhead(p, q, a, b)
    BY <2>2, <2>3 DEF Precedes, IsAhead
  <2>5. QED
    BY <2>4 DEF a, b
<1>8. QED
  BY <1>6, <1>7 DEF items

(* A tool result in an accepted request says what it said.                 *)
LEMMA AcceptedResult ==
  ASSUME NEW p \in Providers, NEW q \in Prompts, Encode(p, q).ok, NEW n \in DOMAIN Encode(p, q).items
  PROVE  LET item == Encode(p, q).items[n]
             b == BlockAt(q, item.at)
         IN (b.type = "tool-result" /\ (b.result # "nil" \/ HasText(b.content)) /\ ~GapOf(p, b))
              => item.form \notin {"null", "empty"}
<1> DEFINE item == Encode(p, q).items[n]
           at == item.at
           m == Merged(p, q)[at[1]]
           b == BlockAt(q, at)
           c == m.content[at[2]]
           role == q[at[1]].role
<1> USE DEF OpenAI!Families
<1>1. at \in Places(q) /\ item \in Items /\ item.kind # "error" /\ OfBlock(p, m, at) = <<item>>
  BY AcceptedItem
<1>2. /\ m \in AllMessages /\ m.role = role /\ role \in Roles /\ at[2] \in DOMAIN m.content
      /\ c.type = b.type /\ b \in BlocksFor(role) /\ c \in BlocksFor(role) /\ Remarked(b, c)
  BY <1>1, EncodedBlock
<1> HIDE DEF item, at, m, b, role
<1> SUFFICES ASSUME b.type = "tool-result", b.result # "nil" \/ HasText(b.content), ~GapOf(p, b)
             PROVE  item.form \notin {"null", "empty"}
  BY DEF item, b, at
<1>3. role = "tool"
  BY <1>2, RoleTypes DEF Roles
<1> HIDE DEF c
<1>4. /\ c \in ToolResultBlocks /\ c.id = b.id /\ c.name = b.name /\ c.hasContent = b.hasContent
      /\ c.result = b.result
      /\ c.content = b.content
  BY <1>2, <1>3, RemarkedFields DEF BlocksFor
<1>5. /\ c.id \in BOOLEAN /\ c.hasContent \in BOOLEAN /\ c.name \in {"function", "computer"} /\ c.result \in Results
      /\ c.content \in Seq(ResultParts) /\ Len(c.content) \in Nat /\ DOMAIN c.content = 1..Len(c.content)
      /\ (c.content # <<>> => c.hasContent)
  BY <1>4 DEF ToolResultBlocks
<1>6. HasText(c.content) => c.content # <<>>
  BY DEF HasText
<1>7. \A x, y : <<x>> = <<y>> => x = y
  OBVIOUS
<1>8. CASE p = "anthropic"
  <2>1. <<item>> = Anthropic!EncodeToolResult(c, at)
    BY <1>1, <1>2, <1>3, <1>8 DEF OfBlock, OfAnthropic, c
  <2>2. c.content # <<>> /\ c.hasContent
    BY <1>4, <1>5, <1>8 DEF GapOf
  <2>3. item = Anthropic!Error(at) \/ item = Anthropic!encodeToolResultContent(c, at)
    BY <1>5, <1>7, <2>1, <2>2 DEF Anthropic!EncodeToolResult
  <2>4. item.form = "content"
    BY <1>1, <2>2, <2>3 DEF Anthropic!encodeToolResultContent, Anthropic!Error, Anthropic!Item
  <2>5. QED
    BY <2>4
<1>9. CASE p \in OpenAI!Families
  <2>1. <<item>> = OpenAI!EncodeToolResultBlock(c, at)
    BY <1>1, <1>2, <1>3, <1>9 DEF OfBlock, OfOpenAI, c
  <2>2. c.name = "function" => c.result # "nil"
    BY <1>4, <1>9 DEF GapOf
  <2>3. c.name = "computer" => HasText(c.content)
    BY <1>4, <1>9 DEF GapOf
  <2>4. CASE c.name = "function"
    <3>1. item.form = "json" \/ item = OpenAI!Error(at)
      BY <1>5, <1>7, <2>1, <2>2, <2>4 DEF OpenAI!EncodeToolResultBlock, OpenAI!Item
    <3>2. QED
      BY <1>1, <3>1 DEF OpenAI!Error, OpenAI!Item
  <2>5. CASE c.name = "computer"
    <3>1. item = OpenAI!Error(at) \/ item = OpenAI!encodeComputerToolResult(c, at)
      BY <1>5, <1>7, <2>1, <2>5 DEF OpenAI!EncodeToolResultBlock
    <3>2. Len(c.content) = 1 => c.content[1].type = "text"
      BY <1>5, <2>3, <2>5 DEF HasText
    <3>3. OpenAI!encodeComputerToolResult(c, at) \in {OpenAI!Error(at), OpenAI!encodeTextToolResult(c, at)}
      BY <1>5, <3>2 DEF OpenAI!encodeComputerToolResult
    <3>4. OpenAI!encodeTextToolResult(c, at).form = "content"
      BY <2>3, <2>5 DEF OpenAI!encodeTextToolResult, OpenAI!Item, OpenAI!HasText, HasText
    <3>5. item = OpenAI!encodeTextToolResult(c, at)
      BY <1>1, <3>1, <3>3 DEF OpenAI!Error, OpenAI!Item
    <3>6. QED
      BY <3>4, <3>5
  <2>6. QED
    BY <1>5, <2>4, <2>5
<1>10. CASE p = "openrouter"
  <2>1. <<item>> = OpenRouter!encodeToolResult(c, at)
    BY <1>1, <1>2, <1>3, <1>10 DEF OfBlock, OfOpenRouter, c
  <2>2. c.result # "nil"
    BY <1>4, <1>10 DEF GapOf
  <2>3. item.form = "json"
    BY <1>7, <2>1, <2>2 DEF OpenRouter!encodeToolResult, OpenRouter!Item
  <2>4. QED
    BY <2>3
<1>11. CASE p = "completion"
  <2>1. <<item>> = <<Error(at)>>
    BY <1>1, <1>2, <1>3, <1>11 DEF OfBlock, OfCompletion
  <2>2. item.kind = "error"
    BY <1>7, <2>1 DEF Error, Item
  <2>3. QED
    BY <1>1, <2>2
<1>12. CASE p = "claude-code"
  <2>1. <<item>> = Cli!encodeToolResult(c, at)
    BY <1>1, <1>2, <1>3, <1>12 DEF OfBlock, OfClaude, c
  <2>2. HasText(c.content)
    BY <1>4, <1>12 DEF GapOf
  <2>3. item.form = "content"
    BY <1>7, <2>1, <2>2 DEF Cli!encodeToolResult, Cli!Item, Cli!HasText, HasText
  <2>4. QED
    BY <2>3
<1>13. CASE p = "codex"
  <2>1. <<item>> = Cli!extractToolResult(c, at)
    BY <1>1, <1>2, <1>3, <1>13 DEF OfBlock, OfCodex, c
  <2>2. c.content # <<>> => HasText(c.content)
    BY <1>4, <1>13 DEF GapOf
  <2>3. c.content # <<>> => Cli!Printed(c.content) = "content"
    BY <2>2 DEF Cli!Printed, Cli!HasText, HasText
  <2>4. c.content = <<>> => c.result # "nil"
    BY <1>4, <1>6
  <2>5. item.form = "content" \/ (c.content = <<>> /\ item.form = c.result)
    BY <1>7, <2>1, <2>3, <2>4 DEF Cli!extractToolResult, Cli!Item
  <2>6. QED
    BY <1>5, <2>4, <2>5 DEF Results
<1>14. QED
  BY <1>8, <1>9, <1>10, <1>11, <1>12, <1>13 DEF Providers

(* A mark in a request to Anthropic is one that was set, and the other way *)
(* round; what it redacted goes back redacted.                             *)
LEMMA AcceptedMark ==
  ASSUME NEW q \in Prompts, Encode("anthropic", q).ok, NEW n \in DOMAIN Encode("anthropic", q).items
  PROVE  LET item == Encode("anthropic", q).items[n]
             b == BlockAt(q, item.at)
         IN /\ b.meta = "cache" /\ b.type # "reasoning" => item.mark
            /\ item.mark => "cache" \in {b.meta, q[item.at[1]].meta}
            /\ b.type = "reasoning" /\ ~b.some /\ b.meta = "redacted" => item.kind = "redacted_thinking"
<1> DEFINE p == "anthropic"
           item == Encode(p, q).items[n]
           at == item.at
           m == Merged(p, q)[at[1]]
           b == BlockAt(q, at)
           c == m.content[at[2]]
           role == q[at[1]].role
<1>0. p \in Providers
  BY DEF Providers
<1>1. at \in Places(q) /\ item \in Items /\ item.kind # "error" /\ OfBlock(p, m, at) = <<item>>
  BY <1>0, AcceptedItem
<1>2. /\ m \in AllMessages /\ m.role = role /\ role \in Roles /\ at[2] \in DOMAIN m.content
      /\ c.type = b.type /\ c.meta \in {b.meta, q[at[1]].meta} /\ (b.meta # "none" => c.meta = b.meta)
  BY <1>0, <1>1, EncodedBlock
<1>3. /\ role = "system" => c.type = "text"
      /\ role \in {"user", "assistant"} => c.type \in {"text", "image", "file", "tool-call", "reasoning", "source"}
      /\ role = "tool" => c.type = "tool-result"
  BY <1>2, RoleTypes
<1>4. role = "tool" => c.id \in BOOLEAN /\ c.hasContent \in BOOLEAN
  <2>1. role = "tool" => c \in ToolResultBlocks
    BY <1>2, BlockTypes
  <2>2. QED
    BY <2>1 DEF ToolResultBlocks
<1>5. role = "user" /\ c.type \in {"image", "file"} => c.from \in {"url", "data", "emptyData", "none"}
  <2>1. role = "user" => c \in ContentBlocks
    BY <1>2, BlockTypes
  <2>2. QED
    BY <2>1, ContentTypes
<1>6. <<item>> = OfAnthropic(role, c, at)
  BY <1>1, <1>2 DEF OfBlock, OpenAI!Families
<1> HIDE DEF item, at, m, b, c, role
<1>7. Anthropic!HasCacheControl(c) <=> c.meta = "cache"
  BY DEF Anthropic!HasCacheControl, Anthropic!GetMetadata, Anthropic!AnthropicMetas
<1>8. \A x, y : <<x>> = <<y>> => x = y
  OBVIOUS
<1> USE DEF Anthropic!Error, Anthropic!Item
<1>9. \/ c.type # "reasoning" /\ (item.mark <=> c.meta = "cache")
      \/ c.type = "reasoning" /\ item.mark = FALSE /\ (c.meta = "redacted" => item.kind = "redacted_thinking")
  <2>1. CASE role = "system"
    BY <1>3, <1>6, <1>7, <1>8, <2>1 DEF OfAnthropic, Anthropic!EncodeSystemMessage
  <2>2. CASE role = "user"
    <3>1. <<item>> = Anthropic!EncodeUserContentBlock(c, at)
      BY <1>6, <2>2 DEF OfAnthropic
    <3>2. CASE c.type = "text"
      BY <1>7, <1>8, <3>1, <3>2 DEF Anthropic!EncodeUserContentBlock, Anthropic!EncodeTextBlock
    <3>3. CASE c.type = "image"
      <4>1. item = Anthropic!EncodeImageBlock(c, at)
        BY <1>8, <3>1, <3>3 DEF Anthropic!EncodeUserContentBlock
      <4>2. QED
        BY <1>1, <1>5, <1>7, <2>2, <3>3, <4>1 DEF Anthropic!EncodeImageBlock
    <3>4. CASE c.type = "file"
      <4>1. item = Anthropic!EncodeFileBlock(c, at)
        BY <1>8, <3>1, <3>4 DEF Anthropic!EncodeUserContentBlock
      <4>2. QED
        BY <1>1, <1>5, <1>7, <2>2, <3>4, <4>1 DEF Anthropic!EncodeFileBlock
    <3>5. CASE c.type \notin {"text", "image", "file"}
      <4>1. item = Anthropic!Error(at)
        BY <1>8, <3>1, <3>5 DEF Anthropic!EncodeUserContentBlock
      <4>2. QED
        BY <1>1, <4>1
    <3>6. QED
      BY <3>2, <3>3, <3>4, <3>5
  <2>3. CASE role = "assistant"
    <3>1. <<item>> = Anthropic!EncodeAssistantBlock(c, at)
      BY <1>6, <2>3 DEF OfAnthropic
    <3>2. CASE c.type = "text"
      BY <1>7, <1>8, <3>1, <3>2 DEF Anthropic!EncodeAssistantBlock, Anthropic!EncodeTextBlock
    <3>3. CASE c.type = "tool-call"
      BY <1>7, <1>8, <3>1, <3>3 DEF Anthropic!EncodeAssistantBlock, Anthropic!EncodeToolCallBlock
    <3>4. CASE c.type = "reasoning"
      <4>1. item = Anthropic!EncodeReasoningBlock(c, at)
        BY <1>8, <3>1, <3>4 DEF Anthropic!EncodeAssistantBlock
      <4>2. QED
        BY <3>4, <4>1 DEF Anthropic!EncodeReasoningBlock, Anthropic!GetMetadata, Anthropic!AnthropicMetas
    <3>5. CASE c.type \notin {"text", "tool-call", "reasoning"}
      <4>1. item = Anthropic!Error(at)
        BY <1>8, <3>1, <3>5 DEF Anthropic!EncodeAssistantBlock
      <4>2. QED
        BY <1>1, <4>1
    <3>6. QED
      BY <3>2, <3>3, <3>4, <3>5
  <2>4. CASE role = "tool"
    <3>1. <<item>> = Anthropic!EncodeToolResult(c, at)
      BY <1>6, <2>4 DEF OfAnthropic
    <3>2. item \in {Anthropic!Error(at), Anthropic!encodeToolResultContent(c, at),
              Anthropic!encodeToolResultJSON(c, at)}
      BY <1>4, <1>8, <2>4, <3>1 DEF Anthropic!EncodeToolResult
    <3>3. item.mark <=> c.meta = "cache"
      BY <1>1, <1>7, <3>2 DEF Anthropic!encodeToolResultContent, Anthropic!encodeToolResultJSON
    <3>4. QED
      BY <1>3, <2>4, <3>3
  <2>5. QED
    BY <1>2, <2>1, <2>2, <2>3, <2>4 DEF Roles
<1>10. /\ b.meta = "cache" /\ b.type # "reasoning" => item.mark
       /\ item.mark => "cache" \in {b.meta, q[at[1]].meta}
       /\ b.type = "reasoning" /\ ~b.some /\ b.meta = "redacted" => item.kind = "redacted_thinking"
  BY <1>2, <1>9
<1>11. QED
  BY <1>10 DEF item, at, b

-----------------------------------------------------------------------------
(***************************************************************************)
(* Options.                                                                *)
(***************************************************************************)

(* EncodeOptions accounts for every setting, tool, choice of a tool and    *)
(* beta, by provider.                                                      *)
OptionsKept(p, o, r) ==
  SettingsAccounted(p, o, r) /\ ToolsAccounted(p, o, r) /\ ChoiceAccounted(p, o, r) /\ BetasFollowTools(p, o, r)

(* The options have their types.                                           *)
LEMMA OptionParts ==
  ASSUME NEW o \in Options!CallOptions
  PROVE  /\ o.settings \subseteq Options!Settings
         /\ o.format \in {"none", "text", "json", "jsonArray"}
         /\ o.meta \in Options!OptionMetas
         /\ o.choice \in {"unset", "auto", "none", "required", "other", "tool"}
         /\ o.tools \in Seq(Options!Tools)
         /\ \A n \in DOMAIN o.tools : o.tools[n] \in Options!Tools
<1>1. o.settings \subseteq Options!Settings /\ o.format \in {"none", "text", "json", "jsonArray"} /\ o.meta \in Options!OptionMetas
      /\ o.tools \in Seq(Options!Tools) /\ o.choice \in Options!ToolChoices
  BY DEF Options!CallOptions, Options!Formats, Options!JsonFormats
<1>2. o.choice \in {"unset", "auto", "none", "required", "other", "tool"}
  BY <1>1 DEF Options!ToolChoices
<1>3. QED
  BY <1>1, <1>2

(* anthropicEncodeOptions (encode_params.go, encode_tools.go).             *)
LEMMA AnthropicOptions ==
  ASSUME NEW o \in Options!CallOptions, Options!anthropicEncodeOptions(o).ok
  PROVE  OptionsKept("anthropic", o, Options!anthropicEncodeOptions(o).params)
<1> DEFINE r == Options!anthropicEncodeOptions(o).params
<1> USE OptionParts
<1>1. ~Options!Has(o, {"arrayFunction", "bareFunction", "anthropicBad"}) /\ o.meta # "noBudget" /\ o.choice # "other"
      /\ r = [sent |-> Options!anthropicSettings(o), tools |-> Options!anthropicToolsOf(o),
              choice |-> Options!EncodeToolChoice(o), betas |-> Options!anthropicBetas(o),
              warned |-> Options!anthropicUnsupported(o) \cup Options!anthropicEncodeThinking(o),
              warnedTools |-> Options!Places(o, Options!OpenAITools \cup {"other"})]
  <2>1. ~(o.meta = "noBudget" \/ Options!Has(o, {"arrayFunction", "bareFunction", "anthropicBad"}) \/ o.choice = "other")
    BY DEF Options!anthropicEncodeOptions, Options!RefusedOptions
  <2>2. QED
    BY <2>1 DEF Options!anthropicEncodeOptions, Options!Params
<1> HIDE DEF r
<1>2. SettingsAccounted("anthropic", o, r)
  <2>1. r.sent = Options!anthropicSettings(o)
        /\ r.warned = Options!anthropicUnsupported(o) \cup Options!anthropicEncodeThinking(o)
    BY <1>1
  <2>2. QED
    <3> DEFINE F == Options!FormatIf(o, Options!JsonFormats)
               S == o.settings
               own == IF o.meta = "thinking" THEN {"thinking"} ELSE {}
               both == IF o.meta = "thinking" THEN {"Temperature", "TopP", "TopK"} ELSE {}
    <3>1. /\ r.sent = (S \cap {"MaxOutputTokens", "Temperature", "TopP", "TopK", "StopSequences"}) \cup own
          /\ r.warned = (S \cap {"FrequencyPenalty", "PresencePenalty", "Seed"}) \cup F \cup (S \cap both)
      BY <2>1 DEF Options!anthropicSettings, Options!anthropicUnsupported, Options!anthropicEncodeThinking
    <3>2. {o.meta} \cap OwnOptionMetas("anthropic") = own
      <4>1. OwnOptionMetas("anthropic") = {"thinking", "noBudget"}
        BY DEF OwnOptionMetas, OpenAI!Families
      <4>2. QED
        BY <1>1, <4>1
    <3>3. SilentlyDropped("anthropic") = {"Headers"} /\ SentAndWarned("anthropic", o) = both
      BY DEF SilentlyDropped, SentAndWarned, OpenAI!Families
    <3>4. F \subseteq {"format"} /\ own \subseteq {"thinking"} /\ both \subseteq {"Temperature", "TopP", "TopK"}
      BY DEF Options!FormatIf
    <3>5. S \subseteq {"MaxOutputTokens", "Temperature", "TopP", "TopK", "PresencePenalty", "FrequencyPenalty",
                       "StopSequences", "Seed", "Headers"}
      BY DEF Options!Settings
    <3> HIDE DEF F, S, own, both
    <3>6. /\ (r.sent \cup r.warned) \cap (S \cup F) = (S \cup F) \ {"Headers"}
          /\ r.sent \ (S \cup F) = own
      BY <3>1, <3>4, <3>5
    <3>7. r.sent \cap r.warned = (S \cup F) \cap both
      BY <3>1, <3>4, <3>5
    <3>8. QED
      BY <3>2, <3>3, <3>6, <3>7 DEF SettingsAccounted, S, F
<1>3. \A n \in DOMAIN o.tools : o.tools[n] \in {"function", "anthropic", "anthropicOld", "openai", "openaiBad",
          "other"}
  BY <1>1 DEF Options!Has, Options!Places, Options!Tools, Options!FunctionTools, Options!AnthropicTools,
     Options!OpenAITools
<1>4. /\ o.choice # "none" => r.tools = Options!Places(o, {"function", "anthropic", "anthropicOld"})
      /\ o.choice = "none" => r.tools = {} /\ r.choice = "unset"
      /\ r.warnedTools = Options!Places(o, {"openai", "openaiBad", "other"})
  BY <1>1 DEF Options!anthropicToolsOf, Options!EncodeToolChoice, Options!OpenAITools
<1>5. ToolsAccounted("anthropic", o, r)
  BY <1>3, <1>4 DEF ToolsAccounted, Options!Places
<1>6. BetasFollowTools("anthropic", o, r)
  <2>1. r.betas = Options!anthropicBetas(o)
    BY <1>1
  <2>2. QED
    BY <1>3, <1>4, <2>1 DEF BetasFollowTools, Options!anthropicBetas, Options!Has, Options!Places,
       Options!AnthropicTools
<1>7. ChoiceAccounted("anthropic", o, r)
  <2>1. r.choice = Options!EncodeToolChoice(o)
        /\ r.warned = Options!anthropicUnsupported(o) \cup Options!anthropicEncodeThinking(o)
    BY <1>1
  <2>2. "choice" \notin r.warned
    BY <2>1 DEF Options!anthropicUnsupported, Options!anthropicEncodeThinking, Options!FormatIf
  <2>3. QED
    BY <1>4, <2>1, <2>2 DEF ChoiceAccounted, Options!EncodeToolChoice
<1>8. QED
  BY <1>2, <1>5, <1>6, <1>7 DEF OptionsKept, r

(* openaiEncodeOptions, of either kind of model (encode.go).               *)
LEMMA OpenAIOptions ==
  ASSUME NEW p \in OpenAI!Families, NEW o \in Options!CallOptions,
         Options!openaiEncodeOptions(o, OpenAI!IsReasoningModel(p)).ok
  PROVE  OptionsKept(p, o, Options!openaiEncodeOptions(o, OpenAI!IsReasoningModel(p)).params)
<1> DEFINE reasons == OpenAI!IsReasoningModel(p)
           r == Options!openaiEncodeOptions(o, reasons).params
<1> USE OptionParts
<1>0. p \in {"gpt", "o-series", "o1-mini", "computer-use-preview"}
  BY DEF OpenAI!Families
<1>1. ~Options!HasBadSchema(o) /\ ~Options!Has(o, {"openaiBad"}) /\ o.choice # "other"
      /\ r = [sent |-> Options!applyCallOptions(o, reasons), tools |-> Options!encodeToolDefinition(o),
              choice |-> o.choice, betas |-> {},
              warned |-> Options!unsupportedWarnings(o) \cup Options!reasoningUnsupported(o, reasons),
              warnedTools |-> Options!Places(o, Options!AnthropicTools \cup {"other"})]
  BY DEF Options!openaiEncodeOptions, Options!RefusedOptions, Options!Params
<1> HIDE DEF r
<1>9. reasons \in BOOLEAN /\ OwnOptionMetas(p) = (IF reasons THEN {"reasoning"} ELSE {})
  BY <1>0 DEF OwnOptionMetas, OpenAI!IsReasoningModel
<1> HIDE DEF reasons
<1>2. SettingsAccounted(p, o, r)
  <2>1. r.sent = Options!applyCallOptions(o, reasons)
        /\ r.warned = Options!unsupportedWarnings(o) \cup Options!reasoningUnsupported(o, reasons)
    BY <1>1
  <2>2. SilentlyDropped(p) = {"Headers"} /\ SentAndWarned(p, o) = {}
    BY <1>0 DEF SilentlyDropped, SentAndWarned
  <2>3. CASE reasons
    BY <1>9, <2>1, <2>2, <2>3 DEF SettingsAccounted, Options!applyCallOptions, Options!unsupportedWarnings,
       Options!reasoningUnsupported, Options!FormatIf, Options!JsonFormats, Options!Settings, Options!OptionMetas
  <2>4. CASE ~reasons
    BY <1>9, <2>1, <2>2, <2>4 DEF SettingsAccounted, Options!applyCallOptions, Options!unsupportedWarnings,
       Options!reasoningUnsupported, Options!FormatIf, Options!JsonFormats, Options!Settings, Options!OptionMetas
  <2>5. QED
    BY <1>9, <2>3, <2>4
<1>3. \A n \in DOMAIN o.tools :
        o.tools[n] \in {"function", "bareFunction", "openai", "anthropic", "anthropicOld", "anthropicBad", "other"}
  BY <1>1 DEF Options!HasBadSchema, Options!Has, Options!Places, Options!Tools, Options!FunctionTools, Options!AnthropicTools,
     Options!OpenAITools
<1>4. /\ r.tools = Options!Places(o, {"function", "bareFunction", "openai"})
      /\ r.warnedTools = Options!Places(o, {"anthropic", "anthropicOld", "anthropicBad", "other"})
  BY <1>1 DEF Options!encodeToolDefinition, Options!FunctionTools, Options!AnthropicTools
<1>5. ToolsAccounted(p, o, r)
  BY <1>0, <1>3, <1>4 DEF ToolsAccounted, Options!Places
<1>6. BetasFollowTools(p, o, r)
  BY <1>0 DEF BetasFollowTools
<1>7. ChoiceAccounted(p, o, r)
  <2>1. r.choice = o.choice /\ r.warned = Options!unsupportedWarnings(o) \cup Options!reasoningUnsupported(o, reasons)
    BY <1>1
  <2>2. "choice" \notin r.warned
    BY <2>1 DEF Options!unsupportedWarnings, Options!reasoningUnsupported
  <2>3. QED
    BY <2>1, <2>2 DEF ChoiceAccounted
<1>8. QED
  BY <1>2, <1>5, <1>6, <1>7 DEF OptionsKept, r, reasons

(* buildRequestBody.                                                       *)
LEMMA OpenRouterOptions ==
  ASSUME NEW o \in Options!CallOptions
  PROVE  OptionsKept("openrouter", o, Options!buildRequestBody(o).params)
<1> DEFINE r == Options!buildRequestBody(o).params
<1> USE OptionParts
<1>1. /\ r.sent = (o.settings \ {"TopK", "StopSequences"}) \cup Options!FormatIf(o, Options!JsonFormats)
      /\ r.choice = (IF o.choice = "other" THEN "unset" ELSE o.choice)
      /\ r.tools = Options!Places(o, Options!FunctionTools) /\ r.warned = {} /\ r.warnedTools = {}
  BY DEF Options!buildRequestBody, Options!Params
<1> HIDE DEF r
<1>2. SettingsAccounted("openrouter", o, r)
  BY <1>1 DEF SettingsAccounted, SilentlyDropped, SentAndWarned, OpenAI!Families, Options!FormatIf, Options!JsonFormats, Options!Settings,
       OwnOptionMetas, Options!OptionMetas
<1>3. ToolsAccounted("openrouter", o, r)
  BY <1>1 DEF ToolsAccounted, Options!Places
<1>4. ChoiceAccounted("openrouter", o, r)
  BY <1>1 DEF ChoiceAccounted
<1>5. QED
  BY <1>2, <1>3, <1>4 DEF OptionsKept, BetasFollowTools, r

(* The warnings of the CLI providers (warnings.go).                        *)
LEMMA CliOptions ==
  ASSUME NEW p \in {"claude-code", "codex"}, NEW o \in Options!CallOptions, NEW supported \in SUBSET Options!Settings
  PROVE  OptionsKept(p, o, Options!cliEncodeOptions(o, supported).params)
<1> DEFINE r == Options!cliEncodeOptions(o, supported).params
<1> USE OptionParts
<1>1. /\ r.sent = o.settings \cap supported
      /\ r.warned = Options!CallOptionWarnings(o, supported) /\ r.tools = {} /\ r.warnedTools = {} /\ r.choice = "unset"
  BY DEF Options!cliEncodeOptions, Options!Params, Options!Nothing
<1> HIDE DEF r
<1>2. SettingsAccounted(p, o, r)
  <2>1. SilentlyDropped(p) = {} /\ SentAndWarned(p, o) = {} /\ OwnOptionMetas(p) = {}
    BY DEF SilentlyDropped, SentAndWarned, OwnOptionMetas, OpenAI!Families
  <2>2. QED
    BY <1>1, <2>1 DEF SettingsAccounted, Options!CallOptionWarnings, Options!FormatIf, Options!JsonFormats, Options!Settings
<1>3. ToolsAccounted(p, o, r)
  BY <1>1 DEF ToolsAccounted, Options!CallOptionWarnings, Options!FormatIf, Options!Settings
<1>4. ChoiceAccounted(p, o, r)
  BY <1>1 DEF ChoiceAccounted, Options!CallOptionWarnings, Options!FormatIf, Options!Settings
<1>5. QED
  BY <1>2, <1>3, <1>4 DEF OptionsKept, BetasFollowTools, r

(* Any provider.                                                           *)
LEMMA OptionsAreKept ==
  ASSUME NEW p \in Providers, p # "completion", NEW o \in Options!CallOptions, EncodeOptions(p, o).ok
  PROVE  OptionsKept(p, o, EncodeOptions(p, o).params)
<1>1. CASE p = "anthropic"
  BY <1>1, AnthropicOptions DEF EncodeOptions, OpenAI!Families
<1>2. CASE p \in OpenAI!Families
  <2>1. EncodeOptions(p, o) = Options!openaiEncodeOptions(o, OpenAI!IsReasoningModel(p))
    BY <1>2 DEF EncodeOptions, OpenAI!Families
  <2>2. QED
    BY <1>2, <2>1, OpenAIOptions
<1>3. CASE p = "openrouter"
  BY <1>3, OpenRouterOptions DEF EncodeOptions, OpenAI!Families
<1>4. CASE p = "claude-code"
  <2>1. {"Temperature"} \subseteq Options!Settings
    BY DEF Options!Settings
  <2>2. QED
    BY <1>4, <2>1, CliOptions DEF EncodeOptions, OpenAI!Families
<1>5. CASE p = "codex"
  BY <1>5, CliOptions DEF EncodeOptions, OpenAI!Families
<1>6. QED
  BY <1>1, <1>2, <1>3, <1>4, <1>5 DEF Providers

-----------------------------------------------------------------------------
(***************************************************************************)
(* Answers, and how they are sent again.                                   *)
(***************************************************************************)

(* The blocks that a provider's decoder makes are among these.             *)
Calls(args) ==
  [type : {"tool-call"}, id : {TRUE}, name : {"function", "hosted", "computer"}, args : args, meta : {"none", "checks"}]

Made(p) ==
  CASE p = "anthropic" -> {Text(TRUE), Reasoning(TRUE, "none"), Reasoning(FALSE, "redacted")} \cup Calls({"json"})
    [] p \in OpenAI!Families -> {Text(TRUE), Source, Reasoning(TRUE, "none"), Reasoning(FALSE, "none")} \cup Calls(Args)
    [] p \in {"openrouter", "completion"} -> {Text(TRUE), Reasoning(TRUE, "none")} \cup Calls(Args)
    [] p = "claude-code" -> {Text(TRUE)} \cup Calls({"json"})
    [] p = "codex" -> {Text(TRUE)}

(* A call among them.                                                      *)
LEMMA CallIsMade ==
  ASSUME NEW args, NEW x \in args, NEW name \in {"function", "hosted", "computer"}, NEW meta \in {"none", "checks"}
  PROVE  ToolCall(TRUE, name, x, meta) \in Calls(args)
BY DEF Calls, ToolCall

(* A bounded sequence is a sequence.                                       *)
LEMMA BoundedIsSeq ==
  ASSUME NEW S, NEW n \in Nat, NEW s \in BoundedSeq(S, n)
  PROVE  s \in Seq(S)
<1>1. PICK m \in 0..n : s \in [1..m -> S]
  BY DEF BoundedSeq, SeqOf
<1>2. QED
  BY <1>1

(* One list for each element of a sequence, one after the other.           *)
LEMMA FlatOfEach ==
  ASSUME NEW S, NEW T, NEW r \in Seq(T), NEW s, s = [k \in DOMAIN r |-> s[k]],
         \A k \in DOMAIN r : s[k] \in Seq(S)
  PROVE  FlattenSeq(s) \in Seq(S)
<1>1. s \in Seq(Seq(S))
  <2>1. DOMAIN r = 1..Len(r) /\ Len(r) \in Nat
    OBVIOUS
  <2>2. s = [k \in 1..Len(r) |-> s[k]] /\ \A k \in 1..Len(r) : s[k] \in Seq(S)
    BY <2>1
  <2>3. s \in [1..Len(r) -> Seq(S)]
    BY <2>2
  <2>4. QED
    BY <2>1, <2>3
<1>2. QED
  BY <1>1, FlattenIsFlat

(* decodeContent of Anthropic (decode.go).                                 *)
LEMMA AnthropicAnswers ==
  ASSUME NEW r \in Seq(Anthropic!Replies)
  PROVE  Anthropic!decodeContent(r).content \in Seq(Made("anthropic"))
<1> DEFINE M == Made("anthropic")
           s == [k \in DOMAIN r |-> Anthropic!decodeBlock(r[k])]
<1>1. M = {Text(TRUE), Reasoning(TRUE, "none"), Reasoning(FALSE, "redacted")} \cup Calls({"json"})
  BY DEF Made, OpenAI!Families
<1> HIDE DEF M
<1>2. ASSUME NEW x \in Anthropic!Replies PROVE Anthropic!decodeBlock(x) \in Seq(M)
  <2>1. x.kind \in {"text", "thinking", "redacted_thinking", "tool_use", "other"}
        /\ (x.kind \in {"text", "thinking", "redacted_thinking"} => x.some \in BOOLEAN)
    BY DEF Anthropic!Replies
  <2>2. <<>> \in Seq(M) /\ \A m \in M : <<m>> \in Seq(M)
    OBVIOUS
  <2>3. /\ <<Anthropic!Text(TRUE)>> \in Seq(M) /\ <<Anthropic!ToolCall(TRUE, "function", "json", "none")>> \in Seq(M)
        /\ <<Anthropic!Reasoning(TRUE, "none")>> \in Seq(M) /\ <<Anthropic!Reasoning(FALSE, "redacted")>> \in Seq(M)
    <3>1. ToolCall(TRUE, "function", "json", "none") \in M
      BY <1>1, CallIsMade
    <3>2. QED
      BY <1>1, <2>2, <3>1 DEF Anthropic!Text, Anthropic!ToolCall, Anthropic!Reasoning, Text, ToolCall, Reasoning
  <2>4. x.kind \in {"thinking", "redacted_thinking"} => Anthropic!decodeReasoning(x) \in Seq(M)
    BY <2>1, <2>2, <2>3 DEF Anthropic!decodeReasoning
  <2>5. QED
    BY <2>1, <2>2, <2>3, <2>4 DEF Anthropic!decodeBlock, Anthropic!decodeToolUse
<1>3. \A k \in DOMAIN r : r[k] \in Anthropic!Replies
  OBVIOUS
<1>4. FlattenSeq(s) \in Seq(M)
  <2>1. s = [k \in DOMAIN r |-> s[k]] /\ \A k \in DOMAIN r : s[k] \in Seq(M)
    BY <1>2, <1>3
  <2> HIDE DEF s
  <2>2. QED
    BY <2>1, FlatOfEach
<1>5. QED
  BY <1>4, SameFlatten DEF Anthropic!decodeContent, Anthropic!Decoded, M

(* decodeContent of OpenAI (decode.go).                                    *)
LEMMA OpenAIAnswers ==
  ASSUME NEW r \in Seq(OpenAI!Replies), NEW p \in OpenAI!Families
  PROVE  OpenAI!decodeContent(r).content \in Seq(Made(p))
<1> DEFINE M == Made(p)
           s == [k \in DOMAIN r |-> OpenAI!decodeItem(r[k])]
<1>1. M = {Text(TRUE), Source, Reasoning(TRUE, "none"), Reasoning(FALSE, "none")} \cup Calls(Args)
  BY DEF Made, OpenAI!Families
<1> HIDE DEF M
<1>2. ASSUME NEW x \in OpenAI!Replies PROVE OpenAI!decodeItem(x) \in Seq(M)
  <2>1. /\ x.kind = "message" => x.some \in BOOLEAN /\ x.cites \in 0..1
        /\ x.kind = "reasoning" => x.some \in BOOLEAN
        /\ x.kind \in {"function_call", "computer_call"} => x.args \in Args
    BY DEF OpenAI!Replies, OpenAI!Args, Args
  <2>2. <<>> \in Seq(M) /\ \A m \in M : <<m>> \in Seq(M)
    OBVIOUS
  <2>3. /\ <<OpenAI!Text(TRUE)>> \in Seq(M) /\ OpenAI!Source \in M
        /\ <<OpenAI!Reasoning(TRUE, "none")>> \in Seq(M) /\ <<OpenAI!Reasoning(FALSE, "none")>> \in Seq(M)
    BY <1>1, <2>2 DEF OpenAI!Text, OpenAI!Reasoning, OpenAI!Source, Text, Reasoning, Source
  <2>4. CASE x.kind = "message"
    <3>1. OpenAI!decodeAnnotations(x) \in Seq(M)
      <4>1. x.cites \in Nat
        BY <2>1, <2>4
      <4> DEFINE c == x.cites
      <4> HIDE DEF c
      <4>2. c \in Nat => [k \in 1..c |-> OpenAI!Source] \in Seq(M)
        BY <2>3
      <4>3. QED
        BY <4>1, <4>2 DEF OpenAI!decodeAnnotations, c
    <3>2. (IF x.some THEN <<OpenAI!Text(TRUE)>> ELSE <<>>) \in Seq(M)
      BY <2>1, <2>2, <2>3, <2>4
    <3>3. \A a, b \in Seq(M) : a \o b \in Seq(M)
      OBVIOUS
    <3>4. QED
      BY <2>4, <3>1, <3>2, <3>3 DEF OpenAI!decodeItem
  <2>5. CASE x.kind = "reasoning"
    BY <2>1, <2>3, <2>5 DEF OpenAI!decodeItem
  <2>6. CASE x.kind \in {"function_call", "hosted_call", "computer_call"}
    <3>1. ASSUME NEW y \in Args, NEW name \in {"function", "hosted", "computer"}, NEW meta \in {"none", "checks"}
          PROVE  <<OpenAI!ToolCall(TRUE, name, y, meta)>> \in Seq(M)
      <4>1. ToolCall(TRUE, name, y, meta) \in M
        BY <1>1, CallIsMade
      <4>2. QED
        BY <2>2, <4>1 DEF OpenAI!ToolCall, ToolCall
    <3>2. "json" \in Args
      BY DEF Args
    <3>3. OpenAI!decodeItem(x) = OpenAI!decodeToolCall(x)
      BY <2>6 DEF OpenAI!decodeItem
    <3>4. CASE x.kind = "function_call"
      <4>1. OpenAI!decodeToolCall(x) = <<OpenAI!ToolCall(TRUE, "function", x.args, "none")>>
        BY <3>4 DEF OpenAI!decodeToolCall
      <4>2. QED
        BY <2>1, <3>1, <3>3, <3>4, <4>1
    <3>5. CASE x.kind = "hosted_call"
      <4>1. OpenAI!decodeToolCall(x) = <<OpenAI!ToolCall(TRUE, "hosted", "json", "none")>>
        BY <3>5 DEF OpenAI!decodeToolCall
      <4>2. QED
        BY <3>1, <3>2, <3>3, <4>1
    <3>6. CASE x.kind = "computer_call"
      <4>1. OpenAI!decodeToolCall(x) = <<OpenAI!ToolCall(TRUE, "computer", x.args, "checks")>>
        BY <3>6 DEF OpenAI!decodeToolCall
      <4>2. QED
        BY <2>1, <3>1, <3>3, <3>6, <4>1
    <3>7. QED
      BY <2>6, <3>4, <3>5, <3>6
  <2>7. CASE x.kind \notin {"message", "reasoning", "function_call", "hosted_call", "computer_call"}
    BY <2>2, <2>7 DEF OpenAI!decodeItem
  <2>8. QED
    BY <2>4, <2>5, <2>6, <2>7
<1>3. \A k \in DOMAIN r : r[k] \in OpenAI!Replies
  OBVIOUS
<1>4. FlattenSeq(s) \in Seq(M)
  <2>1. s = [k \in DOMAIN r |-> s[k]] /\ \A k \in DOMAIN r : s[k] \in Seq(M)
    BY <1>2, <1>3
  <2> HIDE DEF s
  <2>2. QED
    BY <2>1, FlatOfEach
<1>5. OpenAI!decodeContent(r).content \in {<<>>, FlattenSeq(s)}
  BY SameFlatten DEF OpenAI!decodeContent, OpenAI!Decoded, OpenAI!Undecodable
<1>6. <<>> \in Seq(M)
  OBVIOUS
<1> HIDE DEF s
<1>7. QED
  BY <1>4, <1>5, <1>6 DEF M

(* The choice of an answer of OpenRouter.                                  *)
LEMMA OpenRouterAnswers ==
  ASSUME NEW r \in OpenRouter!Replies, NEW p \in {"openrouter", "completion"}
  PROVE  OpenRouter!decodeChoice(r).content \in Seq(Made(p))
<1> DEFINE M == Made(p)
           x == IF r.text THEN <<OpenRouter!Text(TRUE)>> ELSE <<>>
           y == IF r.reasoning THEN <<OpenRouter!Reasoning(TRUE, "none")>> ELSE <<>>
           z == [k \in DOMAIN r.calls |-> OpenRouter!ToolCall(TRUE, "function", r.calls[k], "none")]
<1>1. M = {Text(TRUE), Reasoning(TRUE, "none")} \cup Calls(Args)
  BY DEF Made, OpenAI!Families
<1> HIDE DEF M
<1>2. r.text \in BOOLEAN /\ r.reasoning \in BOOLEAN /\ r.calls \in Seq(Args \ {"nil"})
  <2>1. r.text \in BOOLEAN /\ r.reasoning \in BOOLEAN /\ r.calls \in OpenRouter!BoundedSeq(Args \ {"nil"}, 1)
    BY DEF OpenRouter!Replies, OpenRouter!Args, Args
  <2>2. OpenRouter!BoundedSeq(Args \ {"nil"}, 1) = BoundedSeq(Args \ {"nil"}, 1)
    BY DEF OpenRouter!BoundedSeq, OpenRouter!SeqOf, BoundedSeq, SeqOf
  <2>3. QED
    BY <2>1, <2>2, BoundedIsSeq
<1>3. OpenRouter!Text(TRUE) \in M /\ OpenRouter!Reasoning(TRUE, "none") \in M
      /\ \A a \in Args : OpenRouter!ToolCall(TRUE, "function", a, "none") \in M
  <2>1. \A a \in Args : ToolCall(TRUE, "function", a, "none") \in M
    BY <1>1, CallIsMade
  <2>2. QED
    BY <1>1, <2>1 DEF OpenRouter!Text, OpenRouter!Reasoning, OpenRouter!ToolCall, Text, Reasoning, ToolCall
<1>4. x \in Seq(M) /\ y \in Seq(M) /\ z \in Seq(M)
  <2>1. <<>> \in Seq(M) /\ \A m \in M : <<m>> \in Seq(M)
    OBVIOUS
  <2>2. x \in Seq(M) /\ y \in Seq(M)
    BY <1>3, <2>1
  <2>4. z \in Seq(M)
    <3> DEFINE c == r.calls
    <3>1. c \in Seq(Args \ {"nil"})
      BY <1>2
    <3>2. DOMAIN c = 1..Len(c) /\ Len(c) \in Nat /\ \A k \in 1..Len(c) : c[k] \in Args
      BY <3>1
    <3>3. z = [k \in 1..Len(c) |-> z[k]] /\ \A k \in 1..Len(c) : z[k] \in M
      BY <1>3, <3>2
    <3> HIDE DEF z, c
    <3>4. QED
      BY <3>2, <3>3
  <2>5. QED
    BY <2>2, <2>4
<1>5. OpenRouter!decodeChoice(r).content \in {<<>>, x \o y \o z}
  BY DEF OpenRouter!decodeChoice, OpenRouter!Decoded, OpenRouter!Undecodable
<1> HIDE DEF x, y, z
<1>6. x \o y \o z \in Seq(M) /\ <<>> \in Seq(M)
  BY <1>4
<1>7. QED
  BY <1>5, <1>6 DEF M

(* DecodeResponse of claude (decode.go).                                   *)
LEMMA ClaudeAnswers ==
  ASSUME NEW r \in Cli!ClaudeReplies
  PROVE  Cli!DecodeResponse(r).content \in Seq(Made("claude-code"))
<1> DEFINE M == Made("claude-code")
           e == r.blocks
           s == [k \in DOMAIN e |-> Cli!decodeClaudeBlock(e[k])]
<1>1. M = {Text(TRUE)} \cup Calls({"json"})
  BY DEF Made, OpenAI!Families
<1> HIDE DEF M
<1>2. r.isError \in BOOLEAN /\ r.hasMessage \in BOOLEAN /\ r.result \in BOOLEAN
      /\ e \in Cli!BoundedSeq(Cli!ClaudeBlocks, 2)
  BY DEF Cli!ClaudeReplies
<1>3. e \in Seq(Cli!ClaudeBlocks)
  <2>1. Cli!BoundedSeq(Cli!ClaudeBlocks, 2) = BoundedSeq(Cli!ClaudeBlocks, 2)
    BY DEF Cli!BoundedSeq, Cli!SeqOf, BoundedSeq, SeqOf
  <2>2. QED
    BY <1>2, <2>1, BoundedIsSeq
<1>4. <<>> \in Seq(M) /\ <<Cli!Text(TRUE)>> \in Seq(M) /\ <<Cli!ToolCall(TRUE, "function", "json", "none")>> \in Seq(M)
  <2>1. Cli!Text(TRUE) \in M /\ Cli!ToolCall(TRUE, "function", "json", "none") \in M
    BY <1>1, CallIsMade DEF Cli!Text, Cli!ToolCall, Text, ToolCall
  <2>2. <<>> \in Seq(M) /\ \A m \in M : <<m>> \in Seq(M)
    OBVIOUS
  <2>3. QED
    BY <2>1, <2>2
<1>5. ASSUME NEW x \in Cli!ClaudeBlocks PROVE Cli!decodeClaudeBlock(x) \in Seq(M)
  <2>1. x.kind \in {"text", "tool_use", "thinking"} /\ (x.kind = "text" => x.some \in BOOLEAN)
    BY DEF Cli!ClaudeBlocks
  <2>2. QED
    BY <1>4, <2>1 DEF Cli!decodeClaudeBlock
<1> HIDE DEF e
<1>6. \A k \in DOMAIN e : e[k] \in Cli!ClaudeBlocks
  BY <1>3
<1>7. FlattenSeq(s) \in Seq(M)
  <2>1. s = [k \in DOMAIN e |-> s[k]] /\ \A k \in DOMAIN e : s[k] \in Seq(M)
    BY <1>5, <1>6
  <2> HIDE DEF s
  <2>2. QED
    BY <1>3, <2>1, FlatOfEach
<1>8. Cli!DecodeResponse(r).content \in {<<>>, FlattenSeq(s), <<Cli!Text(TRUE)>>}
  BY <1>2, SameFlatten DEF Cli!DecodeResponse, Cli!Decoded, Cli!Undecodable, e
<1>9. QED
  BY <1>4, <1>7, <1>8 DEF M

(* Any provider: an answer has blocks that its decoder makes.              *)
LEMMA AnswersAreMade ==
  ASSUME NEW p \in Providers, NEW a \in Answers(p), RequestsAssumption
  PROVE  a.content \in Seq(Made(p))
<1>0. MaxReply \in Nat
  BY DEF RequestsAssumption
<1>1. CASE p = "anthropic"
  <2>1. PICK r \in BoundedSeq(Anthropic!Replies, MaxReply) : a = Anthropic!decodeContent(r)
    BY <1>1 DEF Answers, OpenAI!Families
  <2>2. r \in Seq(Anthropic!Replies)
    BY <1>0, <2>1, BoundedIsSeq
  <2>3. QED
    BY <1>1, <2>1, <2>2, AnthropicAnswers
<1>2. CASE p \in OpenAI!Families
  <2>1. PICK r \in BoundedSeq(OpenAI!Replies, MaxReply) : a = OpenAI!decodeContent(r)
    BY <1>2 DEF Answers, OpenAI!Families
  <2>2. r \in Seq(OpenAI!Replies)
    BY <1>0, <2>1, BoundedIsSeq
  <2>3. QED
    BY <1>2, <2>1, <2>2, OpenAIAnswers
<1>3. CASE p \in {"openrouter", "completion"}
  <2>1. PICK r \in OpenRouter!Replies : a = OpenRouter!decodeChoice(r)
    BY <1>3 DEF Answers, OpenAI!Families
  <2>2. QED
    BY <1>3, <2>1, OpenRouterAnswers
<1>4. CASE p = "claude-code"
  <2>1. PICK r \in Cli!ClaudeReplies : a = Cli!DecodeResponse(r)
    BY <1>4 DEF Answers, OpenAI!Families
  <2>2. QED
    BY <1>4, <2>1, ClaudeAnswers
<1>5. CASE p = "codex"
  <2>1. a = Decoded(<<Text(TRUE)>>)
    BY <1>5 DEF Answers, OpenAI!Families
  <2>2. Made(p) = {Text(TRUE)}
    BY <1>5 DEF Made, OpenAI!Families
  <2>3. <<Text(TRUE)>> \in Seq({Text(TRUE)})
    OBVIOUS
  <2>4. QED
    BY <2>1, <2>2, <2>3 DEF Decoded
<1>6. QED
  BY <1>1, <1>2, <1>3, <1>4, <1>5 DEF Providers

(* They are blocks of a prompt, of these types.                            *)
LEMMA MadeBlocks ==
  ASSUME NEW p \in Providers
  PROVE  /\ Made(p) \subseteq ContentBlocks
         /\ \A b \in Made(p) : /\ b.type \in {"text", "tool-call", "reasoning", "source"}
                               /\ b.type = "tool-call" => b.name # ""
                               /\ b.type = "source" => p \in OpenAI!Families
                               /\ b.type = "reasoning" => p \notin {"claude-code", "codex"}
                               /\ b.type = "tool-call" /\ p = "claude-code" => b.args = "json"
<1> DEFINE Others == {Text(TRUE), Source, Reasoning(TRUE, "none"), Reasoning(FALSE, "none"), Reasoning(FALSE, "redacted")}
           All == Others \cup Calls(Args)
<1>1. \A b \in All : b \in ContentBlocks
  <2>0. {"none", "checks", "redacted"} \subseteq Metas
    BY DEF Metas, TypedMetas, AnthropicMetas, OpenAIMetas
  <2>1. Text(TRUE) \in TextBlocks
    BY <2>0 DEF Text, TextBlocks
  <2>2. Calls(Args) \subseteq ToolCallBlocks
    BY <2>0 DEF Calls, ToolCallBlocks
  <2>3. Source \in SourceBlocks
    BY <2>0 DEF Source, SourceBlocks
  <2>4. \A x \in BOOLEAN : \A meta \in {"none", "redacted"} : Reasoning(x, meta) \in ReasoningBlocks
    BY <2>0 DEF Reasoning, ReasoningBlocks
  <2>5. Reasoning(TRUE, "none") \in ReasoningBlocks /\ Reasoning(FALSE, "none") \in ReasoningBlocks
        /\ Reasoning(FALSE, "redacted") \in ReasoningBlocks
    BY <2>4
  <2>6. QED
    BY <2>1, <2>2, <2>3, <2>5 DEF ContentBlocks
<1>2. \A b \in All : /\ b.type \in {"text", "tool-call", "reasoning", "source"}
                     /\ b.type = "tool-call" => b.name # ""
  <2>1. Text(TRUE).type = "text" /\ Source.type = "source" /\ \A x, meta : Reasoning(x, meta).type = "reasoning"
    BY DEF Text, Source, Reasoning
  <2>2. \A b \in Calls(Args) : b.type = "tool-call" /\ b.name # ""
    BY DEF Calls
  <2>3. \A b \in Others : b.type \in {"text", "source", "reasoning"}
    BY <2>1
  <2> HIDE DEF Others
  <2>4. QED
    BY <2>2, <2>3
<1>3. Made(p) \subseteq All
  <2>1. Calls({"json"}) \subseteq Calls(Args)
    BY DEF Calls, Args
  <2>2. QED
    BY <2>1 DEF Made, OpenAI!Families, Providers
<1>4. ASSUME NEW b \in Made(p)
      PROVE  /\ b.type = "source" => p \in OpenAI!Families
             /\ b.type = "reasoning" => p \notin {"claude-code", "codex"}
             /\ b.type = "tool-call" /\ p = "claude-code" => b.args = "json"
  <2>1. /\ Text(TRUE).type = "text"
        /\ \A args : \A c \in Calls(args) : c.type = "tool-call" /\ c.args \in args
        /\ \A x, meta : Reasoning(x, meta).type = "reasoning"
    BY DEF Text, Calls, Reasoning
  <2>2. CASE p \in OpenAI!Families
    BY <2>2 DEF OpenAI!Families
  <2>3. CASE p \in {"anthropic", "openrouter", "completion"}
    <3>1. b \in {Text(TRUE), Reasoning(TRUE, "none"), Reasoning(FALSE, "redacted")} \/ \E args : b \in Calls(args)
      BY <2>3 DEF Made, OpenAI!Families
    <3>2. QED
      BY <2>1, <2>3, <3>1
  <2>4. CASE p \in {"claude-code", "codex"}
    <3>1. b = Text(TRUE) \/ b \in Calls({"json"})
      BY <2>4 DEF Made, OpenAI!Families
    <3>2. QED
      BY <2>1, <2>4, <3>1
  <2>5. QED
    BY <2>2, <2>3, <2>4 DEF Providers
<1>5. QED
  BY <1>1, <1>2, <1>3, <1>4

(* What a provider refuses of an answer, block by block.                   *)
LEMMA MadeIsRefused ==
  ASSUME NEW p \in Providers, NEW b \in Made(p), NEW m, NEW at, m.role = "assistant", m.content[at[2]].type = b.type,
         p # "anthropic" => m.content[at[2]] = b
  PROVE  IsError(OfBlock(p, m, at)) <=> Unsendable(p, b)
<1> DEFINE c == m.content[at[2]]
<1>1. /\ b.type \in {"text", "tool-call", "reasoning", "source"}
      /\ b.type = "tool-call" => b.name # ""
      /\ b.type = "source" => p \in OpenAI!Families
      /\ b.type = "reasoning" => p \notin {"claude-code", "codex"}
      /\ b.type = "tool-call" /\ p = "claude-code" => b.args = "json"
  BY MadeBlocks
<1>2. \A x : IsError(<<x>>) <=> x.kind = "error"
  BY DEF IsError
<1>3. ~IsError(<<>>)
  BY DEF IsError
<1> USE DEF OpenAI!Families
<1>4. CASE p = "anthropic"
  <2>1. OfBlock(p, m, at) = Anthropic!EncodeAssistantBlock(c, at)
    BY <1>4 DEF OfBlock, OfAnthropic
  <2>2. c.type \in {"text", "tool-call", "reasoning"}
    BY <1>1, <1>4
  <2> HIDE DEF c
  <2>3. ~IsError(Anthropic!EncodeAssistantBlock(c, at))
    BY <1>2, <2>2 DEF Anthropic!EncodeAssistantBlock, Anthropic!EncodeTextBlock, Anthropic!EncodeToolCallBlock,
       Anthropic!EncodeReasoningBlock,
       Anthropic!Item
  <2>4. QED
    BY <1>4, <2>1, <2>3 DEF Unsendable
<1>5. CASE p \in OpenAI!Families
  <2>1. OfBlock(p, m, at) = OpenAI!EncodeAssistantBlock(b, at)
    BY <1>5 DEF OfBlock, OfOpenAI
  <2>2. IsError(OpenAI!EncodeAssistantBlock(b, at)) <=> b.type \in {"reasoning", "source"} \/ HasNoJson(b)
    <3> USE <1>1, <1>2 DEF OpenAI!Item, OpenAI!Error
    <3>1. CASE b.type = "text"
      BY <3>1 DEF OpenAI!EncodeAssistantBlock, OpenAI!EncodeOutputTextBlock, HasNoJson
    <3>2. CASE b.type = "tool-call"
      <4> DEFINE x == OpenAI!EncodeToolCallBlock(b, at)
      <4>1. OpenAI!EncodeAssistantBlock(b, at) = <<x>>
        BY <3>2 DEF OpenAI!EncodeAssistantBlock
      <4>2. x.kind = "error" <=> HasNoJson(b)
        BY <3>2 DEF OpenAI!EncodeToolCallBlock, HasNoJson, OpenAI!Unwritable, Unwritable
      <4> HIDE DEF x
      <4>3. QED
        BY <3>2, <4>1, <4>2
    <3>3. CASE b.type \notin {"text", "tool-call"}
      BY <3>3 DEF OpenAI!EncodeAssistantBlock, HasNoJson
    <3>4. QED
      BY <3>1, <3>2, <3>3
  <2>3. QED
    BY <1>5, <2>1, <2>2 DEF Unsendable
<1>6. CASE p = "openrouter"
  <2>1. OfBlock(p, m, at) = OfOpenRouter("assistant", b, at)
    BY <1>6 DEF OfBlock
  <2>2. IsError(OfOpenRouter("assistant", b, at)) <=> b.type = "reasoning" \/ HasNoJson(b)
    <3> USE <1>1, <1>2 DEF OfOpenRouter, Item, Error
    <3>1. CASE b.type = "text"
      BY <3>1 DEF HasNoJson
    <3>2. CASE b.type = "tool-call"
      <4> DEFINE x == OpenRouter!encodeToolCallBlock(b, at)
      <4>1. OfOpenRouter("assistant", b, at) = <<x>>
        BY <3>2
      <4>2. x.kind = "error" <=> HasNoJson(b)
        BY <3>2 DEF OpenRouter!encodeToolCallBlock, OpenRouter!Item, OpenRouter!Error, HasNoJson, OpenRouter!Unwritable,
           Unwritable
      <4> HIDE DEF x
      <4>3. QED
        BY <3>2, <4>1, <4>2
    <3>3. CASE b.type \notin {"text", "tool-call"}
      BY <1>6, <3>3 DEF HasNoJson
    <3>4. QED
      BY <3>1, <3>2, <3>3
  <2>3. QED
    BY <1>6, <2>1, <2>2 DEF Unsendable
<1>7. CASE p = "completion"
  <2>1. OfBlock(p, m, at) = OpenRouter!gatherText(b, at)
    BY <1>7 DEF OfBlock, OfCompletion
  <2>2. IsError(OpenRouter!gatherText(b, at)) <=> b.type # "text"
    BY <1>2 DEF OpenRouter!gatherText, OpenRouter!Item, OpenRouter!Error
  <2>3. QED
    BY <1>1, <1>7, <2>1, <2>2 DEF Unsendable
<1>8. CASE p = "claude-code"
  <2>1. OfBlock(p, m, at) = OfClaude(m, b, at)
    BY <1>8 DEF OfBlock
  <2>2. ~IsError(OfClaude(m, b, at))
    <3>1. Cli!encodeContentBlock(b, at) = <<>> \/ \E x : Cli!encodeContentBlock(b, at) = <<x>> /\ x.kind # "error"
      <4>1. CASE b.type = "tool-call"
        <5>1. b.args = "json"
          BY <1>1, <1>8, <4>1
        <5>2. Cli!encodeContentBlock(b, at) = <<Cli!Item("tool_use", at, Cli!Written(b.args), FALSE)>>
          BY <4>1, <5>1 DEF Cli!encodeContentBlock
        <5>3. QED
          BY <5>2 DEF Cli!Item
      <4>2. CASE b.type # "tool-call"
        BY <4>2 DEF Cli!encodeContentBlock, Cli!Item
      <4>3. QED
        BY <4>1, <4>2
    <3>2. /\ Cli!extractText(b, at) = <<Cli!Item("string", at, "text", FALSE)>>
          /\ Cli!Item("string", at, "text", FALSE).kind # "error"
      BY DEF Cli!extractText, Cli!Item
    <3>3. QED
      BY <1>2, <1>3, <3>1, <3>2 DEF OfClaude
  <2>3. QED
    BY <1>8, <2>1, <2>2 DEF Unsendable
<1>9. CASE p = "codex"
  <2>1. OfBlock(p, m, at) = Cli!extractTextFromContent(b, at)
    BY <1>9 DEF OfBlock, OfCodex
  <2>2. ~IsError(Cli!extractTextFromContent(b, at))
    BY <1>2, <1>3 DEF Cli!extractTextFromContent, Cli!Item
  <2>3. QED
    BY <1>9, <2>1, <2>2 DEF Unsendable
<1>10. QED
  BY <1>4, <1>5, <1>6, <1>7, <1>8, <1>9 DEF Providers

(* Metadata does not decide whether Anthropic takes a block.               *)
LEMMA RefusedAlike ==
  ASSUME NEW role \in Roles, NEW b \in BlocksFor(role), NEW c \in BlocksFor(role), NEW at, SameBlock("anthropic",
            role, b, c)
  PROVE  IsError(OfAnthropic(role, b, at)) <=> IsError(OfAnthropic(role, c, at))
<1>1. \A x : IsError(<<x>>) <=> x.kind = "error"
  BY DEF IsError
<1> USE DEF Anthropic!Error, Anthropic!Item
<1>2. CASE role = "system"
  BY <1>1, <1>2 DEF OfAnthropic, Anthropic!EncodeSystemMessage
<1>3. CASE role \in {"user", "assistant"}
  <2>0. b \in ContentBlocks /\ c \in ContentBlocks
    BY <1>3, BlockFields
  <2>1. SameContent(b, c)
    BY <1>3 DEF SameBlock
  <2>2. CASE b.type = "image"
    <3>1. c.type = "image" /\ c.from = b.from /\ b.from \in {"url", "data", "emptyData", "none"}
      BY <2>0, <2>1, <2>2, ContentTypes DEF SameContent
    <3>2. Anthropic!EncodeImageBlock(b, at).kind = "error" <=> b.from = "none"
      BY <3>1 DEF Anthropic!EncodeImageBlock
    <3>3. Anthropic!EncodeImageBlock(c, at).kind = "error" <=> c.from = "none"
      BY <3>1 DEF Anthropic!EncodeImageBlock
    <3>4. QED
      BY <1>1, <1>3, <2>2, <3>1, <3>2, <3>3 DEF OfAnthropic, Anthropic!EncodeUserContentBlock,
         Anthropic!EncodeAssistantBlock
  <2>3. CASE b.type = "file"
    <3> DEFINE Bad(x) == x.from = "none" \/ (x.from # "url" /\ x.media \notin {"application/pdf", "text/plain", ""})
    <3>1. /\ c.type = "file" /\ c.from = b.from /\ b.from \in {"url", "data", "emptyData", "none"}
          /\ c.media = b.media
      BY <2>0, <2>1, <2>3, ContentTypes DEF SameContent
    <3>2. Anthropic!EncodeFileBlock(b, at).kind = "error" <=> Bad(b)
      BY <3>1 DEF Anthropic!EncodeFileBlock
    <3>3. Anthropic!EncodeFileBlock(c, at).kind = "error" <=> Bad(c)
      BY <3>1 DEF Anthropic!EncodeFileBlock
    <3>4. Bad(b) <=> Bad(c)
      BY <3>1
    <3> HIDE DEF Bad
    <3>5. QED
      BY <1>1, <1>3, <2>3, <3>1, <3>2, <3>3, <3>4 DEF OfAnthropic, Anthropic!EncodeUserContentBlock,
         Anthropic!EncodeAssistantBlock
  <2>4. CASE b.type \notin {"image", "file"}
    <3>1. c.type = b.type
      BY <2>1 DEF SameContent
    <3>2. QED
      BY <1>1, <1>3, <2>4, <3>1 DEF OfAnthropic, Anthropic!EncodeUserContentBlock, Anthropic!EncodeAssistantBlock,
         Anthropic!EncodeTextBlock, Anthropic!EncodeToolCallBlock, Anthropic!EncodeReasoningBlock
  <2>5. QED
    BY <2>2, <2>3, <2>4
<1>4. CASE role = "tool"
  <2>1. SameResult("anthropic", b, c)
    BY <1>4 DEF SameBlock
  <2>2. b.id \in BOOLEAN /\ b.hasContent \in BOOLEAN /\ c.id = b.id /\ c.hasContent = b.hasContent
    <3>1. b \in ToolResultBlocks
      BY <1>4, BlockFields
    <3>2. QED
      BY <2>1, <3>1 DEF ToolResultBlocks, SameResult
  <2>3. \A k \in DOMAIN b.content : Anthropic!IsResultPart(b.content[k]) <=> Anthropic!IsResultPart(c.content[k])
    BY <2>1 DEF SameResult, SameContent, Anthropic!IsResultPart
  <2>4. DOMAIN b.content = DOMAIN c.content
    BY <2>1 DEF SameResult
  <2>5. Anthropic!encodeToolResultContent(b, at).kind = "error" <=> Anthropic!encodeToolResultContent(c,
            at).kind = "error"
    BY <2>3, <2>4 DEF Anthropic!encodeToolResultContent
  <2>6. Anthropic!encodeToolResultJSON(b, at).kind # "error" /\ Anthropic!encodeToolResultJSON(c, at).kind # "error"
    BY DEF Anthropic!encodeToolResultJSON
  <2>7. QED
    BY <1>1, <1>4, <2>2, <2>5, <2>6 DEF OfAnthropic, Anthropic!EncodeToolResult
<1>5. QED
  BY <1>2, <1>3, <1>4 DEF Roles

(* The message that an answer becomes; a provider takes one back.          *)
Reply(content) == AssistantMessage(content, "none")
Takes(p, m) == \A j \in DOMAIN m.content : ~Unsendable(p, m.content[j])

(* Metadata does not decide that.                                          *)
LEMMA RemarkedIsTaken ==
  ASSUME NEW p \in Providers, NEW role \in Roles, NEW b \in BlocksFor(role), NEW c, Remarked(b, c)
  PROVE  Unsendable(p, c) <=> Unsendable(p, b)
<1>1. c.type = b.type /\ (b.type = "tool-call" => c.args = b.args)
  BY BlockFields, RemarkedFields
<1>2. HasNoJson(c) <=> HasNoJson(b)
  BY <1>1 DEF HasNoJson
<1>3. QED
  BY <1>1, <1>2 DEF Unsendable

(* A sequence over a set is one over a larger set.                         *)
LEMMA SeqOfSubset ==
  ASSUME NEW S, NEW T, S \subseteq T, NEW s \in Seq(S)
  PROVE  s \in Seq(T)
OBVIOUS

(* An answer that the caller adds is a message.                            *)
LEMMA ReplyIsMessage ==
  ASSUME NEW content \in Seq(ContentBlocks)
  PROVE  /\ Reply(content) \in AllMessages
         /\ Reply(content).role = "assistant" /\ Reply(content).content = content /\ Reply(content).meta = "none"
<1>1. "none" \in Metas /\ Reply(content) = [role |-> "assistant", content |-> content, meta |-> "none"]
  BY DEF Metas, Reply, AssistantMessage
<1>2. content \in Seq(ContentBlocks \cup ToolResultBlocks)
  OBVIOUS
<1>3. QED
  BY <1>1, <1>2 DEF AllMessages, IsMessage, Roles

(* A prompt with a message added.                                          *)
LEMMA AppendIsPrompt ==
  ASSUME NEW q \in Prompts, NEW m \in AllMessages
  PROVE  LET r == Append(q, m)
         IN /\ r \in Prompts /\ Len(r) = Len(q) + 1 /\ r[Len(r)] = m /\ DOMAIN r = DOMAIN q \cup {Len(r)}
            /\ Len(r) \notin DOMAIN q
            /\ \A i \in DOMAIN q : r[i] = q[i]
BY DEF Prompts

(* An answer added to a prompt that was accepted is accepted too, unless   *)
(* it has a block that the provider does not take back.                    *)
LEMMA ReplyIsAccepted ==
  ASSUME NEW p \in Providers, NEW q \in Prompts, Encode(p, q).ok, NEW content \in Seq(Made(p))
  PROVE  LET r == Append(q, Reply(content))
         IN /\ r \in Prompts
            /\ Encode(p, r).ok <=> Takes(p, Reply(content))
<1> DEFINE m == Reply(content)
           r == Append(q, m)
           n == Len(r)
<1>1. content \in Seq(ContentBlocks)
  <2>1. Made(p) \subseteq ContentBlocks
    BY MadeBlocks
  <2>2. QED
    BY <2>1, SeqOfSubset
<1>2. m \in AllMessages /\ m.role = "assistant" /\ m.content = content
  BY <1>1, ReplyIsMessage
<1> HIDE DEF m
<1>3. /\ r \in Prompts /\ n = Len(q) + 1 /\ r[n] = m /\ DOMAIN r = DOMAIN q \cup {n} /\ n \notin DOMAIN q
      /\ \A i \in DOMAIN q : r[i] = q[i]
  BY <1>2, AppendIsPrompt
<1>4. Len(q) \in Nat /\ DOMAIN q = 1..Len(q)
  BY PromptParts
<1> HIDE DEF r, n
<1>5. Misplaced(p, r) <=> Misplaced(p, q)
  <2>1. Anthropic!SystemIsSeparated(r) <=> Anthropic!SystemIsSeparated(q)
    <3>1. \A i \in DOMAIN r : r[i].role = "system" => i \in DOMAIN q
      BY <1>2, <1>3
    <3>2. \A i \in DOMAIN q : \A k \in 1..(i - 1) : k \in DOMAIN q
      BY <1>4
    <3>3. QED
      BY <1>3, <3>1, <3>2 DEF Anthropic!SystemIsSeparated, Anthropic!IsSystem
  <2>2. IsCompletable(r) <=> IsCompletable(q)
    BY <1>2, <1>3 DEF IsCompletable, IsSystem
  <2>3. QED
    BY <2>1, <2>2 DEF Misplaced
<1>6. Places(r) = Places(q) \cup ({n} \X DOMAIN content)
  <2>1. \A at : at \in Places(q) <=> \E i \in DOMAIN q : at \in {i} \X DOMAIN q[i].content
    BY DEF Places
  <2>2. \A at : at \in Places(r) <=> \E i \in DOMAIN r : at \in {i} \X DOMAIN r[i].content
    BY DEF Places
  <2>3. \A at : at \in Places(r) <=> at \in Places(q) \/ at \in {n} \X DOMAIN content
    BY <1>2, <1>3, <2>1, <2>2
  <2>4. QED
    BY <2>3
<1>7. ASSUME NEW at \in Places(q)
      PROVE  IsError(OfBlock(p, Merged(p, r)[at[1]], at)) <=> IsError(OfBlock(p, Merged(p, q)[at[1]], at))
  <2> DEFINE i == at[1]
             role == q[i].role
             b == BlockAt(q, at)
             x == Merged(p, q)[i]
             y == Merged(p, r)[i]
             c == x.content[at[2]]
             d == y.content[at[2]]
  <2>1. i \in DOMAIN q
    BY PromptParts
  <2>2. r[i] = q[i] /\ BlockAt(r, at) = b /\ at \in Places(r)
    BY <1>3, <1>6, <2>1 DEF BlockAt
  <2>3. /\ role \in Roles /\ x.role = role /\ b \in BlocksFor(role) /\ c \in BlocksFor(role) /\ Remarked(b, c)
        /\ p # "anthropic" => x = q[i]
    BY EncodedBlock
  <2>4. /\ y.role = role /\ d \in BlocksFor(role) /\ Remarked(b, d)
        /\ p # "anthropic" => y = q[i]
    BY <1>3, <2>2, EncodedBlock
  <2>5. CASE p # "anthropic"
    BY <2>3, <2>4, <2>5
  <2>6. CASE p = "anthropic"
    <3> HIDE DEF b, x, y, role, i
    <3>1. OfBlock(p, x, at) = OfAnthropic(role, c, at) /\ OfBlock(p, y, at) = OfAnthropic(role, d, at)
      BY <2>3, <2>4, <2>6 DEF OfBlock, OpenAI!Families
    <3> HIDE DEF c, d
    <3>2. SameBlock("anthropic", role, c, d)
      BY <2>3, <2>4, SameAsItself, RemarkedIsSame
    <3>3. IsError(OfAnthropic(role, c, at)) <=> IsError(OfAnthropic(role, d, at))
      BY <2>3, <2>4, <3>2, RefusedAlike
    <3>4. QED
      BY <3>1, <3>3 DEF x, y, i
  <2>7. QED
    BY <2>5, <2>6
<1>8. ASSUME NEW j \in DOMAIN content
      PROVE  IsError(OfBlock(p, Merged(p, r)[n], <<n, j>>)) <=> Unsendable(p, content[j])
  <2> DEFINE at == <<n, j>>
             y == Merged(p, r)[n]
  <2>1. at \in Places(r) /\ at[1] = n /\ at[2] = j
    BY <1>6
  <2>2. BlockAt(r, at) = content[j]
    BY <1>2, <1>3 DEF BlockAt
  <2>3. y.role = "assistant" /\ y.content[j].type = content[j].type /\ (p # "anthropic" => y.content[j] = content[j])
    <3> HIDE DEF y, at
    <3>1. /\ Merged(p, r)[at[1]].role = r[at[1]].role
          /\ Merged(p, r)[at[1]].content[at[2]].type = BlockAt(r, at).type
          /\ p # "anthropic" => Merged(p, r)[at[1]].content[at[2]] = BlockAt(r, at)
      BY <1>3, <2>1, EncodedBlock
    <3>2. QED
      BY <1>2, <1>3, <2>1, <2>2, <3>1 DEF y
  <2>4. content[j] \in Made(p)
    OBVIOUS
  <2> HIDE DEF y, at
  <2>5. IsError(OfBlock(p, y, at)) <=> Unsendable(p, content[j])
    BY <2>1, <2>3, <2>4, MadeIsRefused
  <2>6. QED
    BY <2>5 DEF y, at
<1>9. ~Misplaced(p, q) /\ \A at \in Places(q) : ~IsError(OfBlock(p, Merged(p, q)[at[1]], at))
  BY Accepted
<1>10. Encode(p, r).ok <=> ~Misplaced(p, r) /\ \A at \in Places(r) : ~IsError(OfBlock(p, Merged(p, r)[at[1]], at))
  BY <1>3, Accepted
<1>11. (\A at \in Places(r) : ~IsError(OfBlock(p, Merged(p, r)[at[1]], at)))
          <=> \A j \in DOMAIN content : ~Unsendable(p, content[j])
  <2> DEFINE Bad(at) == IsError(OfBlock(p, Merged(p, r)[at[1]], at))
  <2>1. \A at \in Places(q) : ~Bad(at)
    BY <1>7, <1>9
  <2>2. \A j \in DOMAIN content : Bad(<<n, j>>) <=> Unsendable(p, content[j])
    BY <1>8
  <2> HIDE DEF Bad
  <2>3. (\A at \in Places(r) : ~Bad(at)) <=> \A j \in DOMAIN content : ~Unsendable(p, content[j])
    <3>1. ASSUME NEW at \in Places(r) PROVE at \in Places(q) \/ \E j \in DOMAIN content : at = <<n, j>>
      BY <1>6
    <3>2. \A j \in DOMAIN content : <<n, j>> \in Places(r)
      BY <1>6
    <3>3. QED
      BY <2>1, <2>2, <3>1, <3>2
  <2>4. QED
    BY <2>3 DEF Bad
<1>12. Takes(p, m) <=> \A j \in DOMAIN content : ~Unsendable(p, content[j])
  BY <1>2 DEF Takes
<1>13. QED
  BY <1>3, <1>5, <1>9, <1>10, <1>11, <1>12 DEF r, m

-----------------------------------------------------------------------------
(***************************************************************************)
(* The inductive invariant.                                                *)
(***************************************************************************)

(* The prompt and the options are ones that can be encoded.                *)
TypeInv == prompt \in Prompts /\ options \in Options!CallOptions

(* The last request is the one that would be made now: neither sending the *)
(* prompt nor anything since has changed what it is made of.               *)
LastInv ==
  /\ ~last.request.ok => last.request = Refused
  /\ last.request.ok => /\ last.to \in Providers
                        /\ last.request = Encode(last.to, prompt)
                        /\ last.params.ok /\ last.params = EncodeOptions(last.to, options)

(* The answer that was added last can be sent again, or has a block that   *)
(* its provider is known not to take.                                      *)
ReplyInv ==
  replied # "nobody" =>
    /\ replied \in Providers /\ prompt # <<>>
    /\ ~SetOnMessage(prompt) =>
         (Encode(replied, prompt).ok <=> Takes(replied, prompt[Len(prompt)]))

(* The inductive invariant.                                                *)
IInv == TypeInv /\ LastInv /\ ReplyInv

(* Nobody is not a provider.                                               *)
LEMMA Nobody == "nobody" \notin Providers
  BY DEF Providers, OpenAI!Families

(* No call is not an accepted one.                                         *)
LEMMA NoCallIsLast ==
  /\ NoCall.to = "nobody" /\ ~NoCall.request.ok /\ NoCall.request = Refused
  BY DEF NoCall, Refused

(* IsMessage types a message.                                              *)
LEMMA MessageIsMessage ==
  ASSUME NEW m, IsMessage(m)
  PROVE  m \in AllMessages
<1>1. CASE m \in [role : {"system"}, content : {<<b>> : b \in TextBlocks}, meta : Metas]
  <2>1. PICK b \in TextBlocks : m.content = <<b>>
    BY <1>1
  <2>2. b \in ContentBlocks \cup ToolResultBlocks
    BY DEF ContentBlocks
  <2>3. <<b>> \in Seq(ContentBlocks \cup ToolResultBlocks)
    BY <2>2
  <2>4. m \in [role : Roles, content : Seq(ContentBlocks \cup ToolResultBlocks), meta : Metas]
    BY <1>1, <2>1, <2>3 DEF Roles
  <2>5. QED
    BY <2>4 DEF AllMessages
<1>2. CASE m \in [role : {"user", "assistant"}, content : Seq(ContentBlocks), meta : Metas]
  <2>1. m.content \in Seq(ContentBlocks \cup ToolResultBlocks)
    BY <1>2, SeqOfSubset
  <2>2. QED
    BY <1>2, <2>1 DEF AllMessages, Roles
<1>3. CASE m \in [role : {"tool"}, content : Seq(ToolResultBlocks), meta : Metas]
  <2>1. m.content \in Seq(ContentBlocks \cup ToolResultBlocks)
    BY <1>3, SeqOfSubset
  <2>2. QED
    BY <1>3, <2>1 DEF AllMessages, Roles
<1>4. QED
  BY <1>1, <1>2, <1>3 DEF IsMessage

(* The content of a message, by its role.                                  *)
LEMMA ContentOfMessage ==
  ASSUME NEW m, IsMessage(m)
  PROVE  /\ m.role \in {"user", "assistant"} => m.content \in Seq(ContentBlocks)
         /\ m.role = "tool" => m.content \in Seq(ToolResultBlocks)
BY DEF IsMessage

(* A message that is continued with a block of its kind is a message.      *)
LEMMA ExtendedIsMessage ==
  ASSUME NEW m \in AllMessages, ~IsSystem(m), NEW b, IsMessage(Message(m.role, b, "none"))
  PROVE  [m EXCEPT !.content = Append(@, b)] \in AllMessages
<1> DEFINE n == [m EXCEPT !.content = Append(@, b)]
<1>1. /\ m \in [role : Roles, content : Seq(ContentBlocks \cup ToolResultBlocks), meta : Metas]
      /\ m.role \in {"user", "assistant", "tool"} /\ IsMessage(m)
  BY DEF AllMessages, Roles, IsSystem
<1>2. Message(m.role, b, "none") = [role |-> m.role, content |-> <<b>>, meta |-> "none"]
  BY <1>1 DEF Message, UserMessage, AssistantMessage, ToolMessage
<1>3. n = [role |-> m.role, content |-> Append(m.content, b), meta |-> m.meta]
  <2>1. m \in [role : Roles, content : Seq(ContentBlocks \cup ToolResultBlocks), meta : Metas]
    BY <1>1
  <2> DEFINE x == Append(m.content, b)
  <2> HIDE DEF x
  <2>2. [m EXCEPT !.content = x] = [role |-> m.role, content |-> x, meta |-> m.meta]
    BY <2>1
  <2>3. QED
    BY <2>2 DEF x
<1>4. <<b>>[1] = b /\ 1 \in DOMAIN <<b>>
  OBVIOUS
<1>5. CASE m.role \in {"user", "assistant"}
  <2>1. <<b>> \in Seq(ContentBlocks) /\ m.content \in Seq(ContentBlocks)
    <3> DEFINE x == [role |-> m.role, content |-> <<b>>, meta |-> "none"]
    <3>1. x.role = m.role /\ x.content = <<b>>
      OBVIOUS
    <3> HIDE DEF x
    <3>2. x.content \in Seq(ContentBlocks)
      BY <1>2, <1>5, <3>1, ContentOfMessage DEF x
    <3>3. QED
      BY <1>1, <1>5, <3>1, <3>2, ContentOfMessage
  <2>2. b \in ContentBlocks
    BY <1>4, <2>1
  <2>3. Append(m.content, b) \in Seq(ContentBlocks)
    BY <2>1, <2>2
  <2>4. IsMessage(n)
    BY <1>1, <1>3, <1>5, <2>3 DEF IsMessage
  <2>5. QED
    BY <2>4, MessageIsMessage
<1>6. CASE m.role = "tool"
  <2>1. <<b>> \in Seq(ToolResultBlocks) /\ m.content \in Seq(ToolResultBlocks)
    <3> DEFINE x == [role |-> m.role, content |-> <<b>>, meta |-> "none"]
    <3>1. x.role = m.role /\ x.content = <<b>>
      OBVIOUS
    <3> HIDE DEF x
    <3>2. x.content \in Seq(ToolResultBlocks)
      BY <1>2, <1>6, <3>1, ContentOfMessage DEF x
    <3>3. QED
      BY <1>1, <1>6, <3>1, <3>2, ContentOfMessage
  <2>2. b \in ToolResultBlocks
    BY <1>4, <2>1
  <2>3. Append(m.content, b) \in Seq(ToolResultBlocks)
    BY <2>1, <2>2
  <2>4. IsMessage(n)
    BY <1>1, <1>3, <1>6, <2>3 DEF IsMessage
  <2>5. QED
    BY <2>4, MessageIsMessage
<1>7. QED
  BY <1>1, <1>5, <1>6

(* Options that were stored are options.                                   *)
LEMMA ReloadedAreOptions ==
  ASSUME NEW o \in Options!CallOptions
  PROVE  Options!ReloadedOptions(o) \in Options!CallOptions
<1>1. "loaded" \in Options!OptionMetas
  BY DEF Options!OptionMetas
<1>2. QED
  BY <1>1 DEF Options!ReloadedOptions, Options!CallOptions

(* Sending changes neither what the provider is sent nor the shape of the  *)
(* prompt.                                                                 *)
LEMMA AfterSendIsSame ==
  ASSUME NEW p \in Providers, NEW q \in Prompts
  PROVE  LET r == AfterSend(p, q)
         IN /\ r \in Prompts /\ Len(r) = Len(q)
            /\ Encode(p, r) = Encode(p, q)
            /\ SetOnMessage(r) <=> SetOnMessage(q)
            /\ q # <<>> => r # <<>> /\ \A x \in Providers : Takes(x, r[Len(r)]) <=> Takes(x, q[Len(q)])
            /\ \A x \in Providers : Encode(x, r) = Encode(x, q)
                                      \/ (p = "anthropic" /\ x \in OpenAI!Families /\ SetOnMessage(q))
<1>1. CASE p = "anthropic"
  <2> DEFINE r == Anthropic!AfterMerge(q)
  <2>1. r \in Prompts /\ DOMAIN r = DOMAIN q /\ \A i \in DOMAIN q : MarkedLike(r[i], q[i])
    BY MergeMarks
  <2>2. \A x \in Providers : Encode(x, r) = Encode(x, q) \/ (x \in OpenAI!Families /\ SetOnMessage(q))
    BY MergeIsQuiet
  <2>3. p \notin OpenAI!Families
    BY <1>1 DEF OpenAI!Families
  <2> HIDE DEF r
  <2>4. DOMAIN q = 1..Len(q) /\ Len(q) \in Nat /\ DOMAIN r = 1..Len(r) /\ Len(r) \in Nat
    BY <2>1, PromptParts
  <2>5. Len(r) = Len(q)
    BY <2>1, <2>4
  <2>6. SetOnMessage(r) <=> SetOnMessage(q)
    BY <2>1 DEF SetOnMessage, MarkedLike
  <2>7. q # <<>> => r # <<>> /\ \A x \in Providers : Takes(x, r[Len(r)]) <=> Takes(x, q[Len(q)])
    <3> SUFFICES ASSUME q # <<>>
                 PROVE  r # <<>> /\ \A x \in Providers : Takes(x, r[Len(q)]) <=> Takes(x, q[Len(q)])
      BY <2>5
    <3>1. Len(q) \in DOMAIN q /\ Len(q) # 0
      BY <2>4 DEF Prompts
    <3>2. r # <<>>
      BY <2>5, <3>1
    <3> DEFINE m == q[Len(q)]
               n == r[Len(q)]
    <3>3. m \in AllMessages /\ MarkedLike(n, m)
      BY <2>1, <3>1 DEF Prompts
    <3> HIDE DEF m, n
    <3>4. m.role \in Roles /\ DOMAIN n.content = DOMAIN m.content
      BY <3>3 DEF AllMessages, MarkedLike
    <3>5. ASSUME NEW x \in Providers, NEW j \in DOMAIN m.content
          PROVE  Unsendable(x, n.content[j]) <=> Unsendable(x, m.content[j])
      <4>1. m.content[j] \in BlocksFor(m.role) /\ Remarked(m.content[j], n.content[j])
        BY <3>3, BlocksOfRole, MarkedIsRemarked
      <4>2. QED
        BY <3>4, <4>1, RemarkedIsTaken
    <3>6. \A x \in Providers : Takes(x, n) <=> Takes(x, m)
      BY <3>4, <3>5 DEF Takes
    <3>7. QED
      BY <3>2, <3>6 DEF m, n
  <2>8. AfterSend(p, q) = r
    BY <1>1 DEF AfterSend, r
  <2>9. QED
    BY <1>1, <2>1, <2>2, <2>3, <2>5, <2>6, <2>7, <2>8
<1>2. CASE p # "anthropic"
  BY <1>2 DEF AfterSend
<1>3. QED
  BY <1>1, <1>2

(* The invariant holds at first.                                           *)
LEMMA InitIInv == Init => IInv
<1> SUFFICES ASSUME Init PROVE IInv
  OBVIOUS
<1>1. prompt \in Prompts
  BY DEF Init, Prompts
<1>2. options \in Options!CallOptions
  <2>1. Options!NoOptions.settings \in SUBSET Options!Settings /\ <<>> \in Seq(Options!Tools)
    BY DEF Options!NoOptions
  <2>2. Options!NoOptions \in Options!CallOptions
    BY <2>1 DEF Options!NoOptions, Options!CallOptions, Options!Formats, Options!OptionMetas, Options!ToolChoices
  <2>3. QED
    BY <2>2 DEF Init
<1>3. QED
  BY <1>1, <1>2, NoCallIsLast DEF Init, IInv, TypeInv, LastInv, ReplyInv

(* A change of the prompt forgets the last call and the answer.            *)
LEMMA ChangeKeeps ==
  ASSUME NEW q \in Prompts, Change(q), options' \in Options!CallOptions
  PROVE  IInv'
BY NoCallIsLast DEF Change, IInv, TypeInv, LastInv, ReplyInv

(* Every step preserves it.                                                *)
LEMMA AddMessageKeeps ==
  ASSUME IInv, AddMessage
  PROVE  IInv'
<1>1. PICK m \in IF prompt = <<>> THEN Openings ELSE Followers : Change(Append(prompt, m))
  BY DEF AddMessage
<1>2. m \in AllMessages
  BY RequestsAssumption, MessageIsMessage DEF RequestsAssumption
<1>3. Append(prompt, m) \in Prompts
  BY <1>2, AppendIsPrompt DEF IInv, TypeInv
<1>4. options' \in Options!CallOptions
  BY DEF AddMessage, IInv, TypeInv
<1>5. QED
  BY <1>1, <1>3, <1>4, ChangeKeeps

(* A block is added to the last message.                                   *)
LEMMA AddBlockKeeps ==
  ASSUME IInv, AddBlock
  PROVE  IInv'
<1> DEFINE n == Len(prompt)
           m == prompt[n]
<1>1. prompt \in Prompts /\ prompt # <<>> /\ ~IsSystem(m)
  BY DEF AddBlock, IInv, TypeInv
<1>2. PICK b \in Extensions[m.role] : Change([prompt EXCEPT ![n].content = Append(@, b)])
  BY DEF AddBlock
<1>3. n \in DOMAIN prompt /\ m \in AllMessages
  BY <1>1 DEF Prompts
<1>4. m.role \in {"user", "assistant", "tool"}
  BY <1>1, <1>3 DEF AllMessages, Roles, IsSystem
<1>5. [m EXCEPT !.content = Append(@, b)] \in AllMessages
  <2>1. IsMessage(Message(m.role, b, "none"))
    BY <1>4, RequestsAssumption DEF RequestsAssumption
  <2> HIDE DEF m
  <2>2. QED
    BY <1>1, <1>3, <2>1, ExtendedIsMessage
<1>6. [prompt EXCEPT ![n].content = Append(@, b)] = [prompt EXCEPT ![n] = [m EXCEPT !.content = Append(@, b)]]
  BY <1>3
<1>7. [prompt EXCEPT ![n].content = Append(@, b)] \in Prompts
  <2> DEFINE x == [m EXCEPT !.content = Append(@, b)]
  <2>1. x \in AllMessages
    BY <1>5
  <2> HIDE DEF x, n
  <2>2. [prompt EXCEPT ![n] = x] \in Prompts
    BY <1>1, <1>3, <2>1, ReplaceInSeq DEF Prompts
  <2>3. QED
    BY <1>6, <2>2 DEF x
<1>8. options' \in Options!CallOptions
  BY DEF AddBlock, IInv, TypeInv
<1>9. QED
  BY <1>2, <1>7, <1>8, ChangeKeeps

(* Options are given when there is no last request.                        *)
LEMMA ConfigureKeeps ==
  ASSUME IInv, Configure
  PROVE  IInv'
<1>1. prompt' = prompt /\ last' = last /\ replied' = replied /\ last.to = "nobody"
  BY DEF Configure
<1>2. options' \in Options!CallOptions
  BY RequestsAssumption DEF Configure, RequestsAssumption
<1>3. ~last.request.ok
  BY <1>1, Nobody DEF IInv, LastInv
<1>4. QED
  BY <1>1, <1>2, <1>3 DEF IInv, TypeInv, LastInv, ReplyInv

(* The request is made of the prompt as it was, and would be made of the   *)
(* prompt as the codec has left it; the last answer is as sendable as      *)
(* before.                                                                 *)
LEMMA SendKeeps ==
  ASSUME IInv, NEW p \in Providers, Send(p)
  PROVE  IInv'
<1>1. prompt \in Prompts /\ prompt # <<>> /\ options \in Options!CallOptions
  BY DEF Send, IInv, TypeInv
<1>2. last' = Call(p, prompt, options) /\ prompt' = AfterSend(p, prompt) /\ options' = options /\ replied' = replied
  BY DEF Send
<1>3. /\ prompt' \in Prompts /\ prompt' # <<>>
      /\ Encode(p, prompt') = Encode(p, prompt)
      /\ SetOnMessage(prompt') <=> SetOnMessage(prompt)
      /\ \A x \in Providers : Takes(x, prompt'[Len(prompt')]) <=> Takes(x, prompt[Len(prompt)])
      /\ \A x \in Providers : Encode(x, prompt') = Encode(x, prompt)
                                \/ (p = "anthropic" /\ x \in OpenAI!Families /\ SetOnMessage(prompt))
  BY <1>1, <1>2, AfterSendIsSame
<1>4. TypeInv'
  BY <1>1, <1>2, <1>3 DEF TypeInv
<1>5. LastInv'
  <2> DEFINE request == Encode(p, prompt)
             params == EncodeOptions(p, options)
  <2>1. last' = IF request.ok /\ params.ok THEN [to |-> p, request |-> request, params |-> params]
                ELSE [to |-> p, request |-> Refused, params |-> Options!RefusedOptions]
    BY <1>2 DEF Call
  <2>2. ~Refused.ok
    BY DEF Refused
  <2>3. request = Encode(p, prompt') /\ params = EncodeOptions(p, options')
    BY <1>2, <1>3
  <2> HIDE DEF request, params
  <2>4. CASE request.ok /\ params.ok
    BY <2>1, <2>3, <2>4 DEF LastInv
  <2>5. CASE ~(request.ok /\ params.ok)
    BY <2>1, <2>2, <2>5 DEF LastInv
  <2>6. QED
    BY <2>4, <2>5
<1>6. ReplyInv'
  BY <1>2, <1>3 DEF IInv, ReplyInv
<1>7. QED
  BY <1>4, <1>5, <1>6 DEF IInv

(* The answer is to the last request, which was accepted: so would be the  *)
(* prompt with it, but for the blocks in Unsendable.                       *)
LEMMA AnswerKeeps ==
  ASSUME IInv, Answer
  PROVE  IInv'
<1> DEFINE p == last.to
<1>1. /\ prompt \in Prompts /\ options \in Options!CallOptions /\ options' = options
      /\ p \in Providers /\ Encode(p, prompt).ok
  BY DEF Answer, IInv, TypeInv, LastInv
<1>2. PICK a \in Answers(p) : prompt' = Append(prompt, Reply(a.content)) /\ replied' = p /\ last' = NoCall
  BY DEF Answer, Reply
<1>3. a.content \in Seq(Made(p))
  BY <1>1, RequestsAssumption, AnswersAreMade
<1> HIDE DEF p
<1>4. prompt' \in Prompts /\ (Encode(p, prompt').ok <=> Takes(p, Reply(a.content)))
  BY <1>1, <1>2, <1>3, ReplyIsAccepted
<1>5. prompt' # <<>> /\ prompt'[Len(prompt')] = Reply(a.content)
  <2>1. Len(prompt) \in Nat /\ Len(prompt') = Len(prompt) + 1 /\ prompt'[Len(prompt')] = Reply(a.content)
    BY <1>1, <1>2 DEF Prompts
  <2>2. QED
    BY <2>1
<1>6. QED
  BY <1>1, <1>2, <1>4, <1>5, NoCallIsLast DEF IInv, TypeInv, LastInv, ReplyInv

(* The prompt and the options are stored and loaded.                       *)
LEMMA ReloadKeeps ==
  ASSUME IInv, Reload
  PROVE  IInv'
<1>1. prompt \in Prompts /\ options \in Options!CallOptions
  BY DEF IInv, TypeInv
<1>2. Change(ReloadedPrompt(prompt)) /\ options' = Options!ReloadedOptions(options)
  BY DEF Reload
<1>3. ReloadedPrompt(prompt) \in Prompts /\ options' \in Options!CallOptions
  BY <1>1, <1>2, ReloadedPromptIsPrompt, ReloadedAreOptions
<1>4. QED
  BY <1>2, <1>3, ChangeKeeps

(* Any step.                                                               *)
LEMMA NextIInv ==
  ASSUME IInv, [Next]_vars
  PROVE  IInv'
<1>1. CASE AddMessage
  BY <1>1, AddMessageKeeps
<1>2. CASE AddBlock
  BY <1>2, AddBlockKeeps
<1>3. CASE Configure
  BY <1>3, ConfigureKeeps
<1>4. CASE \E p \in Providers : Send(p)
  BY <1>4, SendKeeps
<1>5. CASE Answer
  BY <1>5, AnswerKeeps
<1>6. CASE Reload
  BY <1>6, ReloadKeeps
<1>7. CASE UNCHANGED vars
  BY <1>7 DEF vars, IInv, TypeInv, LastInv, ReplyInv
<1>8. QED
  BY <1>1, <1>2, <1>3, <1>4, <1>5, <1>6, <1>7 DEF Next

(* The invariant holds, for any messages a conversation may have, any      *)
(* options and any number of messages, blocks and answers.                 *)
THEOREM InductiveInvariant == Spec => []IInv
<1>1. Init => IInv
  BY InitIInv
<1>2. IInv /\ [Next]_vars => IInv'
  BY NextIInv
<1>3. QED
  BY <1>1, <1>2, PTL DEF Spec

(* An accepted request carries every block of the prompt exactly once and  *)
(* in order, with what it says and how it is to be cached, but for the     *)
(* gaps that LeftOut, IsAhead and GapOf name (the EncodePrompt of each     *)
(* codec).                                                                 *)
THEOREM NothingIsLost == Spec => []NothingLost
<1>1. ASSUME IInv PROVE NothingLost
  <2> DEFINE p == last.to
  <2>1. CASE last.request.ok
    <3>1. prompt \in Prompts /\ p \in Providers /\ last.request = Encode(p, prompt) /\ Encode(p, prompt).ok
      BY <1>1, <2>1 DEF IInv, TypeInv, LastInv
    <3>2. BlocksArrive
      BY <3>1, AcceptedBlocks DEF BlocksArrive
    <3>3. ResultsArrive
      BY <3>1, AcceptedResult DEF ResultsArrive
    <3>4. MarksArrive
      BY <3>1, AcceptedMark DEF MarksArrive
    <3>5. QED
      BY <3>2, <3>3, <3>4 DEF NothingLost
  <2>2. CASE ~last.request.ok
    <3>1. last.request = Refused
      BY <1>1, <2>2 DEF IInv, LastInv
    <3>2. DOMAIN last.request.items = {}
      BY <3>1 DEF Refused
    <3>3. QED
      BY <2>2, <3>2 DEF NothingLost, BlocksArrive, ResultsArrive, MarksArrive
  <2>3. QED
    BY <2>1, <2>2
<1>2. QED
  BY <1>1, InductiveInvariant, PTL

(* Every setting, tool and choice of a tool of an accepted call is sent or *)
(* warned of, but for those that SilentlyDropped, SentAndWarned and        *)
(* ChoiceAccounted name, and nothing else is sent but the provider's own   *)
(* metadata (the EncodeParams of each codec).                              *)
THEOREM OptionsAreAccounted == Spec => []OptionsAccounted
<1>1. ASSUME IInv PROVE OptionsAccounted
  <2> SUFFICES ASSUME last.request.ok, last.to # "completion"
               PROVE  OptionsKept(last.to, options, last.params.params)
    BY DEF OptionsAccounted, OptionsKept
  <2>1. last.to \in Providers /\ options \in Options!CallOptions
        /\ last.params = EncodeOptions(last.to, options) /\ last.params.ok
    BY <1>1 DEF IInv, TypeInv, LastInv
  <2>2. QED
    BY <2>1, OptionsAreKept
<1>2. QED
  BY <1>1, InductiveInvariant, PTL

(* What a provider answered can be sent to it again, except for exactly    *)
(* the blocks in Unsendable, calls whose arguments are not JSON among      *)
(* them, and what Anthropic redacted goes back redacted.                   *)
THEOREM AnswersCanBeSent == Spec => []RepliesCanBeSent
<1>1. ASSUME IInv PROVE RepliesCanBeSent
  <2> SUFFICES ASSUME replied # "nobody", ~SetOnMessage(prompt)
               PROVE  LET reply == prompt[Len(prompt)].content
                          request == Encode(replied, prompt)
                      IN /\ request.ok <=> \A j \in DOMAIN reply : ~Unsendable(replied, reply[j])
                         /\ replied = "anthropic" =>
                              \A k \in DOMAIN request.items :
                                LET b == BlockAt(prompt, request.items[k].at)
                                IN b.type = "reasoning" /\ ~b.some /\ b.meta = "redacted"
                                     => request.items[k].kind = "redacted_thinking"
    BY DEF RepliesCanBeSent
  <2> DEFINE request == Encode(replied, prompt)
  <2>1. prompt \in Prompts /\ replied \in Providers
        /\ (request.ok <=> Takes(replied, prompt[Len(prompt)]))
    BY <1>1 DEF IInv, TypeInv, ReplyInv
  <2>2. ASSUME replied = "anthropic", NEW k \in DOMAIN request.items
        PROVE  LET b == BlockAt(prompt, request.items[k].at)
               IN b.type = "reasoning" /\ ~b.some
               /\ b.meta = "redacted" => request.items[k].kind = "redacted_thinking"
    <3>1. CASE request.ok
      BY <2>1, <2>2, <3>1, AcceptedMark
    <3>2. CASE ~request.ok
      <4>1. request = Refused
        BY <2>1, <3>2, Accepted
      <4>2. DOMAIN request.items = {}
        BY <4>1 DEF Refused
      <4>3. QED
        BY <2>2, <4>2
    <3>3. QED
      BY <3>1, <3>2
  <2>3. QED
    BY <2>1, <2>2 DEF Takes
<1>2. QED
  BY <1>1, InductiveInvariant, PTL

(* A call does not change what a later one sends, but for OpenAI's         *)
(* metadata on a message (merge_messages.go:163).                          *)
THEOREM SendingIsQuiet == Spec => SendIsQuiet
<1>1. ASSUME IInv
      PROVE  \A p \in Providers : Send(p) /\ prompt' # prompt =>
               \A q \in Providers :
                 \/ Encode(q, prompt') = Encode(q, prompt)
                 \/ /\ p = "anthropic" /\ q \in OpenAI!Families
                    /\ SetOnMessage(prompt)
  <2>1. prompt \in Prompts
    BY <1>1 DEF IInv, TypeInv
  <2>2. \A p \in Providers : Send(p) => prompt' = AfterSend(p, prompt)
    BY DEF Send
  <2>3. QED
    BY <2>1, <2>2, AfterSendIsSame
<1>2. QED
  BY <1>1, InductiveInvariant, PTL DEF SendIsQuiet

(* Storing a prompt and its options and loading them does not change a     *)
(* request, but for what ChangesByStorage and OwnOptionMetas name.         *)
THEOREM StoringIsQuiet == Spec => StoredIsSame
<1>1. ASSUME IInv
      PROVE  Reload => \A p \in Providers :
               /\ Encode(p, prompt') = Encode(p, prompt) \/ ChangesByStorage(p, prompt)
               /\ EncodeOptions(p, options') = EncodeOptions(p, options) \/ options.meta \in OwnOptionMetas(p)
  <2>1. prompt \in Prompts /\ options \in Options!CallOptions
    BY <1>1 DEF IInv, TypeInv
  <2>2. Reload => prompt' = ReloadedPrompt(prompt) /\ options' = Options!ReloadedOptions(options)
    BY DEF Reload, Change
  <2>3. QED
    BY <2>1, <2>2, StorageIsQuiet, OptionStorageIsQuiet
<1>2. QED
  BY <1>1, InductiveInvariant, PTL DEF StoredIsSame
=============================================================================
