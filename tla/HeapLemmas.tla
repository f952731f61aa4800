----------------------------- MODULE HeapLemmas -----------------------------
(***************************************************************************)
(* What HeapProofs rests on.  Of Paging: the tables of different regions   *)
(* are different, an entry of a table leads to the page it stands for, and *)
(* what has been mapped stays so.  Of Heap: how minors lie in a major, the *)
(* inductive invariant Inv, and the steps that change no chain of minors:  *)
(* the boot's, those of the search, and those that make a new major.       *)
(***************************************************************************)
EXTENDS Heap, TLAPS

-----------------------------------------------------------------------------
(* Sequences.  An element of one is in its set; *)
LEMMA ElementOfSeq ==
  ASSUME NEW S, NEW s \in Seq(S), NEW i \in 1 .. Len(s)
  PROVE  s[i] \in S
OBVIOUS

(* changing an element changes no other; *)
LEMMA ExceptSeq ==
  ASSUME NEW S, NEW s \in Seq(S), NEW i \in 1 .. Len(s), NEW e \in S
  PROVE  /\ [s EXCEPT ![i] = e] \in Seq(S) /\ Len([s EXCEPT ![i] = e]) = Len(s)
         /\ \A j \in 1 .. Len(s) : [s EXCEPT ![i] = e][j] = IF j = i THEN e ELSE s[j]
OBVIOUS

(* and a concatenation has the elements of the one and then of the other. *)
LEMMA ConcatProperties ==
  ASSUME NEW S, NEW s \in Seq(S), NEW t \in Seq(S)
  PROVE  /\ s \o t \in Seq(S) /\ Len(s \o t) = Len(s) + Len(t)
         /\ \A i \in 1 .. Len(s) + Len(t) :
              (s \o t)[i] = IF i <= Len(s) THEN s[i] ELSE t[i - Len(s)]
OBVIOUS

-----------------------------------------------------------------------------
(* Division with remainder: what the tables, the alignment of the heap and *)
(* the layout of its majors are computed with.                             *)
LEMMA DivMod ==
  ASSUME NEW a \in Nat, NEW b \in Nat \ {0}
  PROVE  /\ a \div b \in Nat /\ a % b \in 0 .. b - 1
         /\ a = b * (a \div b) + (a % b)
OBVIOUS

(* Quotient and remainder are determined by that equation. *)
LEMMA DivModUnique ==
  ASSUME NEW b \in Nat \ {0}, NEW q \in Nat, NEW r \in 0 .. b - 1
  PROVE  (q * b + r) \div b = q /\ (q * b + r) % b = r
OBVIOUS

(* What lies below q times b has a quotient below q. *)
LEMMA DivBelow ==
  ASSUME NEW b \in Nat \ {0}, NEW x \in Nat, NEW q \in Nat, x < q * b
  PROVE  x \div b < q
OBVIOUS

(* kmalloc_align finds a multiple of the alignment at or above the heap's  *)
(* end (kheap.c:22-34).                                                    *)
LEMMA AlignedAbove ==
  ASSUME NEW a \in Nat, NEW b \in Nat \ {0}
  PROVE  \E n \in a .. a + b - 1 : n % b = 0
<1>1. CASE a % b = 0
  BY <1>1
<1>2. CASE a % b # 0
  <2> DEFINE q == a \div b
             n == b * q + b
  <2>1. q \in Nat /\ a % b \in 1 .. b - 1 /\ a = b * q + (a % b)
    BY <1>2, DivMod
  <2>2. n \in a .. a + b - 1
    BY <2>1
  <2>3. n = (q + 1) * b + 0
    BY <2>1
  <2>4. n % b = 0
    BY <2>1, <2>3, DivModUnique
  <2> QED BY <2>2, <2>4
<1> QED BY <1>1, <1>2

-----------------------------------------------------------------------------
(* Gaps.  A major whose free bytes are too few is not looked at minor by   *)
(* minor (CASE 1 of malloc), so what "usage" counts has to be right: the   *)
(* gaps of a major, g[0] to g[n], take together no more than "free".  Then *)
(* there is f[k], which is at least what the gaps before the k-th take.    *)
Tally(n, g, free) ==
  \E f \in [0 .. n -> Nat] :
    /\ \A i, j \in 0 .. n : i < j => f[i] + g[i] <= f[j]
    /\ f[n] + g[n] <= free

(* So each of them does. *)
LEMMA TallyBounds ==
  ASSUME NEW n \in Nat, NEW g \in [0 .. n -> Nat], NEW free \in Int, Tally(n, g, free), NEW k \in 0 .. n
  PROVE  g[k] <= free
<1>1. PICK f \in [0 .. n -> Nat] : /\ \A i, j \in 0 .. n : i < j => f[i] + g[i] <= f[j]
                                  /\ f[n] + g[n] <= free
  BY Zenon DEF Tally
<1>2. n \in 0 .. n /\ f[n] \in Nat /\ g[n] \in Nat /\ f[k] \in Nat /\ g[k] \in Nat
  OBVIOUS
<1>3. k # n => f[k] + g[k] <= f[n]
  BY <1>1, <1>2
<1> QED BY <1>1, <1>2, <1>3

(* A minor of "need" bytes at the start of gap k splits it into an empty   *)
(* one and the rest of it,                                                 *)
Splits(n, g, h, k, need) ==
  /\ h[k] = 0 /\ h[k + 1] = g[k] - need
  /\ \A j \in 0 .. n : j < k => h[j] = g[j]
  /\ \A j \in 0 .. n : k < j => h[j + 1] = g[j]
LEMMA TallyPut ==
  ASSUME NEW n \in Nat, NEW g \in [0 .. n -> Nat], NEW free \in Int, Tally(n, g, free),
         NEW k \in 0 .. n, NEW need \in Nat, need <= g[k],
         NEW h \in [0 .. n + 1 -> Nat], Splits(n, g, h, k, need)
  PROVE  Tally(n + 1, h, free - need)
<1>0. /\ h[k] = 0 /\ h[k + 1] = g[k] - need
      /\ \A j \in 0 .. n : j < k => h[j] = g[j]
      /\ \A j \in 0 .. n : k < j => h[j + 1] = g[j]
  BY Zenon DEF Splits
<1> USE <1>0
<1>1. PICK f \in [0 .. n -> Nat] : /\ \A i, j \in 0 .. n : i < j => f[i] + g[i] <= f[j]
                                  /\ f[n] + g[n] <= free
  BY DEF Tally
<1> DEFINE e == [j \in 0 .. n + 1 |-> IF j <= k THEN f[j] ELSE IF j = k + 1 THEN f[k] ELSE f[j - 1] - need]
<1>2. \A j \in 0 .. n : f[j] \in Nat /\ g[j] \in Nat
  OBVIOUS
<1>a. \A j \in 0 .. n : k < j => f[j] - need \in Nat
  <2> TAKE j \in 0 .. n
  <2> HAVE k < j
  <2>1. f[k] + g[k] <= f[j] /\ f[k] \in Nat /\ g[k] \in Nat /\ f[j] \in Nat
    BY <1>1, <1>2
  <2>2. \A a, b, c, d \in Nat : d <= b /\ a + b <= c => c - d \in Nat
    OBVIOUS
  <2> QED BY <2>1, <2>2, Zenon
<1>3. /\ \A j \in 0 .. n : j <= k => e[j] = f[j] /\ j \in 0 .. n + 1
      /\ e[k + 1] = f[k]
      /\ \A j \in 0 .. n : k < j => e[j + 1] = f[j] - need
  <2>1. \A j \in 0 .. n : j <= k => e[j] = f[j] /\ j \in 0 .. n + 1
    OBVIOUS
  <2>2. e[k + 1] = f[k]
    OBVIOUS
  <2>3. \A j \in 0 .. n : k < j => e[j + 1] = f[j] - need
    <3> TAKE j \in 0 .. n
    <3> HAVE k < j
    <3>1. j + 1 \in 0 .. n + 1 /\ ~(j + 1 <= k) /\ j + 1 # k + 1 /\ (j + 1) - 1 = j
      OBVIOUS
    <3> QED BY <3>1
  <2> QED BY <2>1, <2>2, <2>3, Zenon
<1>b. e \in [0 .. n + 1 -> Nat]
  <2>1. ASSUME NEW j \in 0 .. n + 1 PROVE e[j] \in Nat
    <3>1. CASE j <= k
      <4>1. j \in 0 .. n
        BY <3>1
      <4> QED BY <1>2, <1>3, <3>1, <4>1, Zenon
    <3>2. CASE j = k + 1
      BY <1>2, <1>3, <3>2, Zenon
    <3>3. CASE j > k + 1
      <4>1. j - 1 \in 0 .. n /\ k < j - 1 /\ (j - 1) + 1 = j
        BY <3>3
      <4>2. e[(j - 1) + 1] = f[j - 1] - need /\ f[j - 1] - need \in Nat
        BY <1>3, <1>a, <4>1, Zenon
      <4> QED BY <4>1, <4>2, Zenon
    <3> QED BY <3>1, <3>2, <3>3
  <2> QED BY <2>1
<1> HIDE DEF e
<1>c. \A a, b, c, d, s, u \in Nat :
        /\ a + b <= c /\ c + d <= u /\ s <= d => a + b <= u - s
        /\ a + b <= c /\ s <= b => a + 0 <= c - s /\ a + (b - s) <= c - s
        /\ a + b <= c => (a - s) + b <= c - s
  <2> TAKE a, b, c, d, s, u \in Nat
  <2>1. a + b <= c /\ c + d <= u /\ s <= d => a + b <= u - s
    OBVIOUS
  <2>2. a + b <= c /\ s <= b => a + 0 <= c - s /\ a + (b - s) <= c - s
    OBVIOUS
  <2>3. a + b <= c => (a - s) + b <= c - s
    OBVIOUS
  <2> QED BY <2>1, <2>2, <2>3, Zenon
<1>4. ASSUME NEW i \in 0 .. n + 1, NEW j \in 0 .. n + 1, i < j
      PROVE  e[i] + h[i] <= e[j]
  <2>1. CASE j <= k
    <3>1. i \in 0 .. n /\ j \in 0 .. n /\ i < k /\ i <= k
      BY <1>4, <2>1
    <3>2. e[i] = f[i] /\ e[j] = f[j] /\ h[i] = g[i] /\ f[i] + g[i] <= f[j]
      BY <1>1, <1>3, <1>4, <2>1, <3>1, Zenon
    <3> QED BY <3>2, Zenon
  <2>2. CASE j = k + 1
    <3>1. CASE i = k
      <4>1. e[i] = f[k] /\ e[j] = f[k] /\ h[i] = 0 /\ f[k] \in Nat
        BY <1>2, <1>3, <2>2, <3>1
      <4> QED BY <4>1
    <3>2. CASE i < k
      <4>1. i \in 0 .. n /\ i <= k
        BY <3>2
      <4>2. e[i] = f[i] /\ e[j] = f[k] /\ h[i] = g[i] /\ f[i] + g[i] <= f[k]
        BY <1>1, <1>3, <2>2, <3>2, <4>1, Zenon
      <4> QED BY <4>2, Zenon
    <3> QED BY <1>4, <2>2, <3>1, <3>2
  <2>3. CASE j > k + 1
    <3>1. /\ j - 1 \in 0 .. n /\ k < j - 1 /\ (j - 1) + 1 = j
      BY <2>3
    <3>2. e[j] = f[j - 1] - need /\ f[k] + g[k] <= f[j - 1] /\ f[k] \in Nat /\ g[k] \in Nat /\ f[j - 1] \in Nat
      <4>1. e[(j - 1) + 1] = f[j - 1] - need
        BY <1>3, <3>1, Zenon
      <4> QED BY <1>1, <1>2, <3>1, <4>1, Zenon
    <3>3. CASE i < k
      <4>1. i \in 0 .. n /\ i <= k
        BY <3>3
      <4>2. e[i] = f[i] /\ h[i] = g[i] /\ f[i] + g[i] <= f[k] /\ f[i] \in Nat /\ g[i] \in Nat
        BY <1>1, <1>2, <1>3, <3>3, <4>1, Zenon
      <4>3. f[i] + g[i] <= f[j - 1] - need
        BY <1>c, <3>2, <4>2, Zenon
      <4> QED BY <3>2, <4>2, <4>3, Zenon
    <3>4. CASE i = k
      <4>1. e[i] = f[k] /\ h[i] = 0
        BY <1>3, <3>4
      <4>2. f[k] + 0 <= f[j - 1] - need
        BY <1>c, <3>2, Zenon
      <4> QED BY <3>2, <4>1, <4>2, Zenon
    <3>5. CASE i = k + 1
      <4>1. e[i] = f[k] /\ h[i] = g[k] - need
        BY <1>3, <3>5, Zenon
      <4>2. f[k] + (g[k] - need) <= f[j - 1] - need
        BY <1>c, <3>2, Zenon
      <4> QED BY <3>2, <4>1, <4>2, Zenon
    <3>6. CASE i > k + 1
      <4>1. /\ i - 1 \in 0 .. n /\ k < i - 1 /\ (i - 1) + 1 = i /\ i - 1 < j - 1
        BY <1>4, <3>6
      <4>2. /\ e[(i - 1) + 1] = f[i - 1] - need /\ h[(i - 1) + 1] = g[i - 1]
            /\ f[i - 1] + g[i - 1] <= f[j - 1] /\ f[i - 1] \in Nat /\ g[i - 1] \in Nat
        BY <1>1, <1>2, <1>3, <3>1, <4>1, Zenon
      <4>3. (f[i - 1] - need) + g[i - 1] <= f[j - 1] - need
        BY <1>c, <3>2, <4>2, Zenon
      <4> QED BY <3>2, <4>1, <4>2, <4>3, Zenon
    <3> QED BY <3>3, <3>4, <3>5, <3>6
  <2> QED BY <2>1, <2>2, <2>3
<1>5. e[n + 1] + h[n + 1] <= free - need
  <2>0. n \in 0 .. n /\ f[n] \in Nat /\ g[n] \in Nat
    BY <1>2
  <2>a. \A a, b \in Nat : a + b <= free => a + (b - need) <= free - need /\ (a - need) + b <= free - need
    OBVIOUS
  <2>1. CASE k = n
    <3>1. e[n + 1] = f[n] /\ h[n + 1] = g[n] - need
      BY <1>3, <2>1, Zenon
    <3> QED BY <1>1, <2>0, <2>a, <3>1, Zenon
  <2>2. CASE k < n
    <3>1. e[n + 1] = f[n] - need /\ h[n + 1] = g[n]
      BY <1>3, <2>0, <2>2, Zenon
    <3> QED BY <1>1, <2>0, <2>a, <3>1, Zenon
  <2> QED BY <2>1, <2>2
<1> QED BY <1>4, <1>5, <1>b DEF Tally

(* and one that goes joins the gaps around it. *)
Joins(n, g, h, i, size) ==
  /\ h[i - 1] = g[i - 1] + size + g[i]
  /\ \A j \in 0 .. n - 1 : j < i - 1 => h[j] = g[j]
  /\ \A j \in 0 .. n - 1 : i - 1 < j => h[j] = g[j + 1]
LEMMA TallyDrop ==
  ASSUME NEW n \in Nat, NEW g \in [0 .. n -> Nat], NEW free \in Int, Tally(n, g, free),
         NEW i \in 1 .. n, NEW size \in Nat,
         NEW h \in [0 .. n - 1 -> Nat], Joins(n, g, h, i, size)
  PROVE  Tally(n - 1, h, free + size)
<1>a. i - 1 \in 0 .. n - 1 /\ i - 1 \in 0 .. n /\ i \in 0 .. n /\ i - 1 < i /\ n \in 0 .. n
      /\ n - 1 \in 0 .. n - 1
  OBVIOUS
<1>b. \A j \in 0 .. n - 1 : j \in 0 .. n /\ j + 1 \in 0 .. n /\ (i - 1 < j <=> ~(j < i)) /\ (i - 1 < j => i < j + 1)
  <2> TAKE j \in 0 .. n - 1
  <2>1. j \in 0 .. n /\ j + 1 \in 0 .. n
    OBVIOUS
  <2>2. (i - 1 < j <=> ~(j < i)) /\ (i - 1 < j => i < j + 1)
    OBVIOUS
  <2> QED BY <2>1, <2>2
<1>0. /\ h[i - 1] = g[i - 1] + size + g[i]
      /\ \A j \in 0 .. n - 1 : j < i - 1 => h[j] = g[j]
      /\ \A j \in 0 .. n - 1 : i - 1 < j => h[j] = g[j + 1]
  BY Zenon DEF Joins
<1> USE <1>0
<1>1. PICK f \in [0 .. n -> Nat] : /\ \A a, b \in 0 .. n : a < b => f[a] + g[a] <= f[b]
                                  /\ f[n] + g[n] <= free
  BY Zenon DEF Tally
<1> DEFINE e == [j \in 0 .. n - 1 |-> IF j < i THEN f[j] ELSE f[j + 1] + size]
<1>2. \A j \in 0 .. n : f[j] \in Nat /\ g[j] \in Nat
  OBVIOUS
<1>3. /\ \A j \in 0 .. n - 1 : j < i => e[j] = f[j]
      /\ \A j \in 0 .. n - 1 : i - 1 < j => e[j] = f[j + 1] + size
  BY <1>b, Zenon
<1>c. e \in [0 .. n - 1 -> Nat]
  <2>1. \A j \in 0 .. n - 1 : f[j] \in Nat /\ f[j + 1] \in Nat
    BY <1>2, <1>b, Zenon
  <2>2. \A a \in Nat : a + size \in Nat
    OBVIOUS
  <2>3. \A j \in 0 .. n - 1 : e[j] \in Nat
    BY <1>3, <1>b, <2>1, <2>2, Zenon
  <2> QED BY <2>3
<1> HIDE DEF e
<1>4. f[i - 1] + g[i - 1] <= f[i]
  BY <1>1, <1>a, Zenon
<1>d. \A a, b, c, d, s, u \in Nat :
        /\ a + b <= c => a + b <= c + s /\ (a + s) + b <= c + s
        /\ a + b <= c /\ c + d <= u => a + (b + s + d) <= u + s
  <2> TAKE a, b, c, d, s, u \in Nat
  <2>1. a + b <= c => a + b <= c + s /\ (a + s) + b <= c + s
    OBVIOUS
  <2>2. a + b <= c /\ c + d <= u => a + (b + s + d) <= u + s
    OBVIOUS
  <2> QED BY <2>1, <2>2, Zenon
<1>5. ASSUME NEW a \in 0 .. n - 1, NEW b \in 0 .. n - 1, a < b
      PROVE  e[a] + h[a] <= e[b]
  <2>1. CASE b < i
    <3>1. a < i - 1 /\ a < i
      BY <1>5, <2>1
    <3>2. h[a] = g[a] /\ e[a] = f[a] /\ e[b] = f[b] /\ f[a] + g[a] <= f[b]
      BY <1>1, <1>3, <1>5, <1>b, <2>1, <3>1, Zenon
    <3> QED BY <3>2, Zenon
  <2>2. CASE i - 1 < b
    <3>1. /\ e[b] = f[b + 1] + size /\ b + 1 \in 0 .. n /\ i < b + 1
          /\ f[b + 1] \in Nat
      BY <1>2, <1>3, <1>b, <2>2, Zenon
    <3>2. CASE a < i - 1
      <4>1. a < i /\ a < b + 1
        BY <1>5, <3>2
      <4>2. h[a] = g[a] /\ e[a] = f[a] /\ f[a] + g[a] <= f[b + 1] /\ f[a] \in Nat /\ g[a] \in Nat
        BY <1>1, <1>2, <1>3, <1>b, <3>1, <3>2, <4>1, Zenon
      <4>3. f[a] + g[a] <= f[b + 1] + size
        BY <1>d, <3>1, <4>2, Zenon
      <4> QED BY <3>1, <4>2, <4>3, Zenon
    <3>3. CASE a = i - 1
      <4>1. e[a] = f[i - 1] /\ h[a] = g[i - 1] + size + g[i]
        BY <1>3, <1>a, <3>3, Zenon
      <4>2. /\ f[i] + g[i] <= f[b + 1] /\ f[i] \in Nat /\ g[i] \in Nat
            /\ f[i - 1] \in Nat /\ g[i - 1] \in Nat
        BY <1>1, <1>2, <1>a, <3>1, Zenon
      <4>3. f[i - 1] + (g[i - 1] + size + g[i]) <= f[b + 1] + size
        BY <1>4, <1>d, <3>1, <4>2, Zenon
      <4> QED BY <3>1, <4>1, <4>3, Zenon
    <3>4. CASE i - 1 < a
      <4>1. a + 1 < b + 1
        BY <1>5
      <4>2. /\ e[a] = f[a + 1] + size /\ h[a] = g[a + 1] /\ f[a + 1] + g[a + 1] <= f[b + 1]
            /\ f[a + 1] \in Nat /\ g[a + 1] \in Nat
        BY <1>1, <1>2, <1>3, <1>b, <3>1, <3>4, <4>1, Zenon
      <4>3. (f[a + 1] + size) + g[a + 1] <= f[b + 1] + size
        BY <1>d, <3>1, <4>2, Zenon
      <4> QED BY <3>1, <4>2, <4>3, Zenon
    <3> QED BY <3>2, <3>3, <3>4
  <2> QED BY <1>b, <2>1, <2>2, Zenon
<1>6. e[n - 1] + h[n - 1] <= free + size
  <2>0. f[n] \in Nat /\ g[n] \in Nat /\ f[n - 1] \in Nat /\ g[n - 1] \in Nat
    BY <1>2, <1>a, <1>b, Zenon
  <2>1. CASE i = n
    <3>1. e[n - 1] = f[n - 1] /\ h[n - 1] = g[n - 1] + size + g[n] /\ f[n - 1] + g[n - 1] <= f[n]
      BY <1>3, <1>4, <1>a, <2>1, Zenon
    <3>2. \A a, b, c, d, s \in Nat, u \in Int : a + b <= c /\ c + d <= u => a + (b + s + d) <= u + s
      OBVIOUS
    <3>3. f[n - 1] + (g[n - 1] + size + g[n]) <= free + size
      BY <1>1, <2>0, <3>1, <3>2, Zenon
    <3> QED BY <3>1, <3>3, Zenon
  <2>2. CASE i < n
    <3>1. i - 1 < n - 1 /\ (n - 1) + 1 = n
      BY <2>2
    <3>2. e[n - 1] = f[n] + size /\ h[n - 1] = g[n]
      BY <1>3, <1>a, <3>1
    <3>3. \A a, b, t \in Nat, u \in Int : a + b <= u => (a + t) + b <= u + t
      OBVIOUS
    <3>4. (f[n] + size) + g[n] <= free + size
      BY <1>1, <2>0, <3>3, Zenon
    <3> QED BY <3>2, <3>4, Zenon
  <2> QED BY <2>1, <2>2
<1> QED BY <1>5, <1>6, <1>c, Zenon DEF Tally

-----------------------------------------------------------------------------
(* The directory names the allocated tables; a table lies below the end of *)
(* the heap and is one region's; its entries lead to the region's own      *)
(* pages; and the pages that were asked for have their entry.              *)
Directory == 0 .. Regions - 1
Leads(r, holds) ==
  /\ holds \in [0 .. Entries - 1 -> Int]
  /\ \A i \in 0 .. Entries - 1 :
       holds[i] # Absent => holds[i] \in Nat /\ Page(holds[i]) = r * Entries + i
PagingInv ==
  /\ heap_cur \in Nat \ {0}
  /\ allocated_page_tables \in [Directory -> Nat]
  /\ page_dir = allocated_page_tables
  /\ \A r \in Directory : allocated_page_tables[r] # 0 =>
       /\ allocated_page_tables[r] < heap_cur
       /\ allocated_page_tables[r] \in DOMAIN pt
       /\ Leads(r, pt[allocated_page_tables[r]])
       /\ \A q \in Directory :
            allocated_page_tables[q] = allocated_page_tables[r] => q = r
  /\ \A p \in mapped :
       /\ p \in Nat /\ p \div Entries \in Directory
       /\ allocated_page_tables[p \div Entries] # 0
       /\ pt[allocated_page_tables[p \div Entries]][p % Entries] # Absent

(* Before paging_init there is no table. *)
LEMMA PagingInitInv ==
  ASSUME PagingInit
  PROVE  PagingInv
BY PagingAssumption, Zenon DEF PagingInit, PagingInv, Directory

(* kmalloc only moves the end of the heap up. *)
LEMMA KmallocInv ==
  ASSUME PagingInv, NEW size \in Nat, Kmalloc(size)
  PROVE  PagingInv'
BY DEF PagingInv, Kmalloc, Directory, Leads, Page

(* The table for a region: its own, or zeroed memory that no other table   *)
(* occupies.                                                               *)
LEMMA GetPageTableProps ==
  ASSUME PagingInv, NEW r \in Directory
  PROVE  LET table == GetPageTable(r) IN
         /\ table.address \in Nat \ {0} /\ table.heap \in Nat /\ heap_cur <= table.heap
         /\ table.address < table.heap
         /\ Leads(r, table.holds)
         /\ \A q \in Directory \ {r} : allocated_page_tables[q] # table.address
         /\ allocated_page_tables[r] # 0 =>
              table.address = allocated_page_tables[r] /\ table.holds = pt[table.address]
<1> DEFINE t == KmallocAlign(PageSize, PageSize)
<1>1. CASE allocated_page_tables[r] = 0
  <2>1. \E n \in heap_cur .. heap_cur + PageSize - 1 : n % PageSize = 0
    BY AlignedAbove, PagingAssumption, Zenon DEF PagingInv
  <2>2. t \in heap_cur .. heap_cur + PageSize - 1
    BY <2>1 DEF KmallocAlign
  <2>3. t \in Nat \ {0} /\ heap_cur <= t /\ heap_cur \in Nat
    BY <2>2, PagingAssumption DEF PagingInv
  <2> HIDE DEF t
  <2>4. GetPageTable(r) = [address |-> t, heap |-> t + PageSize,
                           holds |-> [i \in 0 .. Entries - 1 |-> Absent]]
    BY <1>1 DEF GetPageTable, t
  <2>5. Leads(r, [i \in 0 .. Entries - 1 |-> Absent])
    BY DEF Leads, Absent
  <2>6. \A q \in Directory \ {r} : allocated_page_tables[q] # t
    BY <2>3 DEF PagingInv
  <2> QED BY <1>1, <2>3, <2>4, <2>5, <2>6, PagingAssumption
<1>2. CASE allocated_page_tables[r] # 0
  BY <1>2 DEF GetPageTable, PagingInv
<1> QED BY <1>1, <1>2

(* Installing a region's table, with entries added to it, disturbs neither *)
(* the region's other entries nor another region (paging.c:57-102).        *)
LEMMA InstallInv ==
  ASSUME PagingInv, NEW r \in Directory, NEW holds, NEW pages,
         Leads(r, holds),
         \A i \in 0 .. Entries - 1 : GetPageTable(r).holds[i] # Absent => holds[i] # Absent,
         \A p \in pages : p \in Nat /\ p \div Entries = r /\ holds[p % Entries] # Absent,
         Install(r, GetPageTable(r), holds),
         mapped' = mapped \cup pages
  PROVE  PagingInv'
<1> DEFINE t == GetPageTable(r).address
<1>1. /\ t \in Nat \ {0} /\ heap_cur' \in Nat /\ heap_cur <= heap_cur' /\ t < heap_cur'
      /\ \A q \in Directory \ {r} : allocated_page_tables[q] # t
      /\ allocated_page_tables[r] # 0 =>
           t = allocated_page_tables[r] /\ GetPageTable(r).holds = pt[t]
  BY GetPageTableProps DEF Install
<1>2. /\ allocated_page_tables' = [allocated_page_tables EXCEPT ![r] = t]
      /\ pt' = [a \in DOMAIN pt \cup {t} |-> IF a = t THEN holds ELSE pt[a]]
      /\ page_dir' = [page_dir EXCEPT ![r] = t]
  BY Zenon DEF Install
<1> HIDE DEF t
<1>3. /\ heap_cur' \in Nat \ {0} /\ allocated_page_tables' \in [Directory -> Nat]
      /\ page_dir' = allocated_page_tables'
  BY <1>1, <1>2 DEF PagingInv
<1>4. /\ allocated_page_tables'[r] = t /\ pt'[t] = holds
      /\ \A q \in Directory \ {r} : allocated_page_tables'[q] = allocated_page_tables[q]
  BY <1>2 DEF PagingInv
<1>5. \A a \in DOMAIN pt \ {t} : a \in DOMAIN pt' /\ pt'[a] = pt[a]
  BY <1>2
<1>6. ASSUME NEW q \in Directory, allocated_page_tables'[q] # 0
      PROVE  /\ allocated_page_tables'[q] < heap_cur'
             /\ allocated_page_tables'[q] \in DOMAIN pt'
             /\ Leads(q, pt'[allocated_page_tables'[q]])
             /\ \A o \in Directory :
                  allocated_page_tables'[o] = allocated_page_tables'[q] => o = q
  <2>1. CASE q = r
    BY <1>1, <1>2, <1>4, <2>1
  <2>2. CASE q # r
    <3>1. /\ allocated_page_tables'[q] = allocated_page_tables[q]
          /\ allocated_page_tables[q] \in DOMAIN pt \ {t}
          /\ allocated_page_tables[q] < heap_cur /\ allocated_page_tables[q] \in Nat
          /\ Leads(q, pt[allocated_page_tables[q]])
          /\ \A o \in Directory : allocated_page_tables[o] = allocated_page_tables[q] => o = q
      BY <1>1, <1>4, <1>6, <2>2, Zenon DEF PagingInv
    <3>2. allocated_page_tables[q] < heap_cur'
      BY <1>1, <3>1 DEF PagingInv
    <3> QED BY <1>1, <1>4, <1>5, <3>1, <3>2, Zenon
  <2> QED BY <2>1, <2>2
<1>7. ASSUME NEW p \in mapped'
      PROVE  /\ p \in Nat /\ p \div Entries \in Directory
             /\ allocated_page_tables'[p \div Entries] # 0
             /\ pt'[allocated_page_tables'[p \div Entries]][p % Entries] # Absent
  <2>1. CASE p \in pages
    BY <1>1, <1>4, <2>1, Zenon
  <2>2. CASE p \in mapped
    <3>1. /\ p \in Nat /\ p \div Entries \in Directory
          /\ allocated_page_tables[p \div Entries] # 0
          /\ pt[allocated_page_tables[p \div Entries]][p % Entries] # Absent
          /\ p % Entries \in 0 .. Entries - 1
      BY <2>2, DivMod, PagingAssumption, Zenon DEF PagingInv
    <3>2. CASE p \div Entries = r
      BY <1>1, <1>4, <3>1, <3>2, Zenon
    <3>3. CASE p \div Entries # r
      BY <1>1, <1>4, <1>5, <3>1, <3>3 DEF PagingInv
    <3> QED BY <3>2, <3>3
  <2> QED BY <2>1, <2>2
<1> QED BY <1>3, <1>6, <1>7 DEF PagingInv, Leads, Page

(* paging_map_page keeps the invariant, whichever entry it is about: one   *)
(* that is already there is left alone (paging.c:80-84).                   *)
LEMMA MapPageInv ==
  ASSUME PagingInv, NEW a \in Addresses, MapPage(a)
  PROVE  PagingInv' /\ mapped' = mapped \cup {Page(a)}
<1> DEFINE r == Pde(a)
           i == Pte(a)
<1>1. /\ a \in Nat /\ a < (Regions * Entries) * PageSize
      /\ PageSize \in Nat \ {0} /\ Entries \in Nat \ {0} /\ Regions \in Nat
      /\ Regions * Entries \in Nat
  BY PagingAssumption DEF Addresses
<1>2. Page(a) \in Nat /\ Page(a) < Regions * Entries
  BY <1>1, DivMod, DivBelow, Zenon DEF Page
<1>3. /\ r \in Directory /\ i \in 0 .. Entries - 1
      /\ Page(a) = r * Entries + i
      /\ Page(a) \div Entries = r /\ Page(a) % Entries = i
  <2>1. /\ Page(a) \div Entries \in Nat /\ Page(a) % Entries \in 0 .. Entries - 1
        /\ Page(a) = Entries * (Page(a) \div Entries) + (Page(a) % Entries)
        /\ Page(a) \div Entries < Regions
    BY <1>1, <1>2, DivMod, DivBelow, Zenon
  <2>2. Entries * (Page(a) \div Entries) = (Page(a) \div Entries) * Entries
    BY <1>1, <2>1
  <2> QED BY <1>1, <2>1, <2>2 DEF Pde, Pte, Directory
<1>4. mapped' = mapped \cup {Page(a)}
  BY DEF MapPage
<1>5. Leads(r, GetPageTable(r).holds)
  BY <1>3, GetPageTableProps
<1> HIDE DEF r, i
<1>6. CASE GetPageTable(r).holds[i] = a
  <2>1. UNCHANGED <<heap_cur, allocated_page_tables, pt, page_dir>>
    BY <1>6, Zenon DEF MapPage, r, i
  <2>2. allocated_page_tables[r] # 0 /\ GetPageTable(r).holds = pt[allocated_page_tables[r]]
    BY <1>1, <1>3, <1>6 DEF GetPageTable, Absent
  <2>3. a # Absent
    BY <1>1 DEF Absent
  <2>4. \A p \in mapped' :
          /\ p \in Nat /\ p \div Entries \in Directory
          /\ allocated_page_tables[p \div Entries] # 0
          /\ pt[allocated_page_tables[p \div Entries]][p % Entries] # Absent
    BY <1>2, <1>3, <1>4, <1>6, <2>2, <2>3, Zenon DEF PagingInv
  <2>5. PagingInv'
    BY <2>1, <2>4, Zenon DEF PagingInv, Leads, Page
  <2> QED BY <1>4, <2>5
<1>7. CASE GetPageTable(r).holds[i] # a
  <2> DEFINE holds == [GetPageTable(r).holds EXCEPT ![i] = a]
  <2>1. Install(r, GetPageTable(r), holds)
    BY <1>7 DEF MapPage, r, i
  <2>2. Leads(r, holds)
    BY <1>1, <1>3, <1>5, SMTT(20) DEF Leads
  <2>3. \A j \in 0 .. Entries - 1 : GetPageTable(r).holds[j] # Absent => holds[j] # Absent
    BY <1>1, <1>3, <1>5 DEF Leads, Absent
  <2>4. holds[i] = a /\ a # Absent
    BY <1>1, <1>3, <1>5 DEF Leads, Absent
  <2> DEFINE pages == {Page(a)}
  <2> HIDE DEF holds
  <2>5. \A p \in pages : p \in Nat /\ p \div Entries = r /\ holds[p % Entries] # Absent
    BY <1>2, <1>3, <2>4
  <2>6. mapped' = mapped \cup pages
    BY <1>4
  <2> HIDE DEF pages
  <2>7. PagingInv'
    BY <1>3, <2>1, <2>2, <2>3, <2>5, <2>6, InstallInv, Zenon
  <2> QED BY <1>4, <2>7
<1> QED BY <1>6, <1>7

(* So does paging_map_table, which fills a whole table (paging.c:57-70).   *)
LEMMA MapTableInv ==
  ASSUME PagingInv, NEW r \in Directory, MapTable(r)
  PROVE  PagingInv'
<1> DEFINE holds == [i \in 0 .. Entries - 1 |-> (r * Entries + i) * PageSize]
<1>1. /\ PageSize \in Nat \ {0} /\ Entries \in Nat \ {0} /\ r \in Nat
      /\ r * Entries \in Nat
  BY PagingAssumption DEF Directory
<1>2. ASSUME NEW i \in 0 .. Entries - 1
      PROVE  holds[i] \in Nat /\ Page(holds[i]) = r * Entries + i
  <2> DEFINE q == r * Entries + i
  <2>1. q \in Nat /\ holds[i] = q * PageSize + 0 /\ 0 \in 0 .. PageSize - 1
    BY <1>1
  <2> HIDE DEF q, holds
  <2>2. holds[i] \div PageSize = q
    BY <1>1, <2>1, DivModUnique
  <2> QED BY <1>1, <2>1, <2>2 DEF Page, q
<1>3. Leads(r, holds)
  BY <1>2 DEF Leads
<1>4. \A i \in 0 .. Entries - 1 : holds[i] # Absent
  BY <1>2 DEF Absent
<1>5. \A p \in RegionPages(r) : p \in Nat /\ p \div Entries = r /\ holds[p % Entries] # Absent
  <2> TAKE p \in RegionPages(r)
  <2>1. PICK i \in 0 .. Entries - 1 : p = r * Entries + i
    <3>1. p - r * Entries \in 0 .. Entries - 1 /\ p = r * Entries + (p - r * Entries)
      BY <1>1 DEF RegionPages
    <3> QED BY <3>1
  <2>2. p \in Nat /\ p \div Entries = r /\ p % Entries = i
    BY <1>1, <2>1, DivModUnique
  <2> HIDE DEF holds
  <2> QED BY <1>4, <2>2
<1>6. Install(r, GetPageTable(r), holds) /\ mapped' = mapped \cup RegionPages(r)
  BY DEF MapTable
<1> HIDE DEF holds
<1> QED BY <1>3, <1>4, <1>5, <1>6, InstallInv, Zenon

(* MappingKept (paging.c:57-102): the processor finds behind every page    *)
(* that was asked for that page itself.                                    *)
LEMMA MappedToSelf ==
  ASSUME PagingInv
  PROVE  MappingKept
<1> SUFFICES ASSUME NEW p \in mapped PROVE Translate(p) = p
  BY DEF MappingKept
<1> DEFINE r == p \div Entries
           i == p % Entries
           t == page_dir[r]
<1>1. /\ p \in Nat /\ r \in Directory /\ i \in 0 .. Entries - 1
      /\ p = Entries * r + i
      /\ t # 0 /\ pt[t][i] # Absent /\ Leads(r, pt[t])
  BY DivMod, PagingAssumption, Zenon DEF PagingInv
<1> HIDE DEF r, i
<1>2. Page(pt[t][i]) = r * Entries + i
  BY <1>1 DEF Leads
<1>3. r * Entries + i = p
  BY <1>1, PagingAssumption DEF Directory
<1> QED BY <1>1, <1>2, <1>3, Zenon DEF Translate, r, i

-----------------------------------------------------------------------------
(* Sequences: what is in the list of majors, and what insertion into a     *)
(* chain of minors, or removal from it, leaves where.                      *)
LEMMA InList ==
  ASSUME NEW S, NEW s \in Seq(S)
  PROVE  \A x : x \in Elements(s) <=> \E i \in 1 .. Len(s) : s[i] = x
BY DEF Elements

(* A new minor behind the k-th *)
WithNew(S, t, s, k, e) ==
  /\ t \in Seq(S) /\ Len(t) = Len(s) + 1
  /\ t[k + 1] = e
  /\ \A i \in 1 .. k : t[i] = s[i]
  /\ \A i \in k + 1 .. Len(s) : t[i + 1] = s[i]

(* "Insert" puts it there and keeps the order of the others. *)
LEMMA Inserted ==
  ASSUME NEW S, NEW s \in Seq(S), NEW k \in 0 .. Len(s), NEW e \in S
  PROVE  WithNew(S, Insert(s, k, e), s, k, e)
<1> DEFINE a == SubSeq(s, 1, k)
           b == SubSeq(s, k + 1, Len(s))
           c == a \o <<e>>
<1>1. Len(s) \in Nat /\ k \in Nat /\ k <= Len(s)
  OBVIOUS
<1>2. a \in Seq(S) /\ Len(a) = k /\ \A i \in 1 .. k : a[i] = s[i]
  BY <1>1
<1>3. b \in Seq(S) /\ Len(b) = Len(s) - k /\ \A i \in 1 .. Len(s) - k : b[i] = s[k + i]
  BY <1>1
<1>4. Insert(s, k, e) = c \o b
  BY DEF Insert
<1>5. <<e>> \in Seq(S) /\ Len(<<e>>) = 1 /\ <<e>>[1] = e
  OBVIOUS
<1> HIDE DEF a, b
<1>6. /\ c \in Seq(S) /\ Len(c) = k + 1
      /\ \A i \in 1 .. k + 1 : c[i] = IF i <= k THEN a[i] ELSE <<e>>[i - k]
  BY <1>2, <1>5, ConcatProperties
<1> HIDE DEF c
<1>7. /\ c \o b \in Seq(S) /\ Len(c \o b) = (k + 1) + (Len(s) - k)
      /\ \A i \in 1 .. (k + 1) + (Len(s) - k) :
           (c \o b)[i] = IF i <= k + 1 THEN c[i] ELSE b[i - (k + 1)]
  <2>1. /\ c \o b \in Seq(S) /\ Len(c \o b) = Len(c) + Len(b)
        /\ \A i \in 1 .. Len(c) + Len(b) :
             (c \o b)[i] = IF i <= Len(c) THEN c[i] ELSE b[i - Len(c)]
    BY <1>3, <1>6, ConcatProperties, Zenon
  <2> QED BY <1>3, <1>6, <2>1, Zenon
<1>8. Len(c \o b) = Len(s) + 1 /\ \A i \in 1 .. Len(s) + 1 :
           (c \o b)[i] = IF i <= k + 1 THEN c[i] ELSE b[i - (k + 1)]
  <2>1. (k + 1) + (Len(s) - k) = Len(s) + 1
    BY <1>1
  <2> QED BY <1>7, <2>1, Zenon
<1>9. (c \o b)[k + 1] = e /\ \A i \in 1 .. k : (c \o b)[i] = s[i]
  <2>1. k + 1 \in 1 .. Len(s) + 1 /\ k + 1 \in 1 .. k + 1 /\ ~(k + 1 <= k) /\ (k + 1) - k = 1
        /\ k + 1 <= k + 1
    BY <1>1
  <2>2. (c \o b)[k + 1] = e
    BY <1>5, <1>6, <1>8, <2>1, Zenon
  <2>3. \A i \in 1 .. k : i \in 1 .. Len(s) + 1 /\ i \in 1 .. k + 1 /\ i <= k + 1 /\ i <= k
    BY <1>1
  <2> QED BY <1>2, <1>6, <1>8, <2>2, <2>3, Zenon
<1>10. ASSUME NEW i \in k + 1 .. Len(s)
       PROVE  (c \o b)[i + 1] = s[i]
  <2>1. i - k \in 1 .. Len(s) - k /\ (i + 1) - (k + 1) = i - k /\ k + (i - k) = i
        /\ i + 1 \in 1 .. Len(s) + 1 /\ ~(i + 1 <= k + 1)
    BY <1>1
  <2>2. (c \o b)[i + 1] = b[i - k]
    BY <1>8, <2>1
  <2> QED BY <1>3, <2>1, <2>2
<1> QED BY <1>4, <1>7, <1>8, <1>9, <1>10, Zenon DEF WithNew

(* The k-th goes. *)
Without(S, t, s, k) ==
  /\ t \in Seq(S) /\ Len(t) = Len(s) - 1
  /\ \A i \in 1 .. k - 1 : t[i] = s[i]
  /\ \A i \in k .. Len(s) - 1 : t[i] = s[i + 1]

(* "Remove" takes it out and keeps the order of the others. *)
LEMMA Removed ==
  ASSUME NEW S, NEW s \in Seq(S), NEW k \in 1 .. Len(s)
  PROVE  Without(S, Remove(s, k), s, k)
<1> DEFINE a == SubSeq(s, 1, k - 1)
           b == SubSeq(s, k + 1, Len(s))
<1>1. Len(s) \in Nat /\ k \in Nat \ {0} /\ k <= Len(s)
  OBVIOUS
<1>2. a \in Seq(S) /\ Len(a) = k - 1 /\ \A i \in 1 .. k - 1 : a[i] = s[i]
  BY <1>1
<1>3. b \in Seq(S) /\ Len(b) = Len(s) - k /\ \A i \in 1 .. Len(s) - k : b[i] = s[k + i]
  BY <1>1
<1>4. Remove(s, k) = a \o b
  BY DEF Remove
<1> HIDE DEF a, b
<1>5. /\ a \o b \in Seq(S) /\ Len(a \o b) = (k - 1) + (Len(s) - k)
      /\ \A i \in 1 .. (k - 1) + (Len(s) - k) :
           (a \o b)[i] = IF i <= k - 1 THEN a[i] ELSE b[i - (k - 1)]
  <2>1. /\ a \o b \in Seq(S) /\ Len(a \o b) = Len(a) + Len(b)
        /\ \A i \in 1 .. Len(a) + Len(b) :
             (a \o b)[i] = IF i <= Len(a) THEN a[i] ELSE b[i - Len(a)]
    BY <1>2, <1>3, ConcatProperties, Zenon
  <2> QED BY <1>2, <1>3, <2>1, Zenon
<1>6. Len(a \o b) = Len(s) - 1 /\ \A i \in 1 .. Len(s) - 1 :
           (a \o b)[i] = IF i <= k - 1 THEN a[i] ELSE b[i - (k - 1)]
  <2>1. (k - 1) + (Len(s) - k) = Len(s) - 1
    BY <1>1
  <2> QED BY <1>5, <2>1, Zenon
<1>7. ASSUME NEW i \in k .. Len(s) - 1
      PROVE  (a \o b)[i] = s[i + 1]
  <2>1. i - (k - 1) \in 1 .. Len(s) - k /\ k + (i - (k - 1)) = i + 1
        /\ i \in 1 .. Len(s) - 1 /\ ~(i <= k - 1)
    BY <1>1
  <2>2. (a \o b)[i] = b[i - (k - 1)]
    BY <1>6, <2>1, Zenon
  <2> QED BY <1>3, <2>1, <2>2
<1>8. \A i \in 1 .. k - 1 : (a \o b)[i] = s[i]
  <2>1. \A i \in 1 .. k - 1 : i \in 1 .. Len(s) - 1 /\ i <= k - 1
    BY <1>1
  <2> QED BY <1>2, <1>6, <2>1, Zenon
<1> QED BY <1>4, <1>5, <1>6, <1>7, <1>8, Zenon DEF Without

(* Every element that stays keeps a place, and only the k-th goes. *)
Places(t, s, k) ==
  /\ \A i \in 1 .. Len(s) : i # k => \E j \in 1 .. Len(t) : t[j] = s[i]
  /\ \A j \in 1 .. Len(t) : \E i \in 1 .. Len(s) \ {k} :
       t[j] = s[i] /\ i = IF j < k THEN j ELSE j + 1

(* So it is after "Remove". *)
LEMMA RemovedPlaces ==
  ASSUME NEW S, NEW s \in Seq(S), NEW k \in 1 .. Len(s), NEW t, Without(S, t, s, k)
  PROVE  Places(t, s, k)
<1>1. /\ Len(t) = Len(s) - 1 /\ Len(s) \in Nat
      /\ \A i \in 1 .. k - 1 : t[i] = s[i]
      /\ \A i \in k .. Len(s) - 1 : t[i] = s[i + 1]
  BY DEF Without
<1>2. ASSUME NEW i \in 1 .. Len(s), i # k
      PROVE  \E j \in 1 .. Len(t) : t[j] = s[i]
  <2>1. CASE i < k
    <3>1. i \in 1 .. k - 1 /\ i \in 1 .. Len(t)
      BY <1>1, <2>1
    <3> QED BY <1>1, <3>1
  <2>2. CASE i > k
    <3>1. i - 1 \in k .. Len(s) - 1 /\ (i - 1) + 1 = i /\ i - 1 \in 1 .. Len(t)
      BY <1>1, <2>2
    <3> QED BY <1>1, <3>1, Zenon
  <2> QED BY <1>1, <1>2, <2>1, <2>2
<1>3. ASSUME NEW j \in 1 .. Len(t)
      PROVE  \E i \in 1 .. Len(s) \ {k} : t[j] = s[i] /\ i = IF j < k THEN j ELSE j + 1
  <2>1. CASE j < k
    BY <1>1, <1>3, <2>1
  <2>2. CASE j >= k
    BY <1>1, <1>3, <2>2
  <2> QED BY <1>1, <2>1, <2>2
<1> QED BY <1>2, <1>3 DEF Places

-----------------------------------------------------------------------------
(* Arithmetic: multiplication is monotonic. *)
LEMMA TimesMonotonic ==
  ASSUME NEW a \in Nat, NEW b \in Nat, NEW c \in Nat, a <= b
  PROVE  a * c \in Nat /\ b * c \in Nat /\ a * c <= b * c
<1>1. PICK d \in Nat : b = a + d
  <2>1. b - a \in Nat /\ b = a + (b - a)
    OBVIOUS
  <2> QED BY <2>1
<1>2. b * c = a * c + d * c /\ d * c \in Nat /\ a * c \in Nat
  BY <1>1
<1> QED BY <1>2

(* The numbers that the heap is laid out with *)
LEMMA Sizes ==
  /\ PageSize \in Nat \ {0} /\ Entries \in Nat \ {0} /\ Regions \in Nat
  /\ KernelPages \in Nat \ {0} /\ NPages \in Nat
  /\ Major \in Nat /\ Minor \in Nat \ {0} /\ Info \in Nat /\ Alignment \in Nat \ {0}
<1>1. KernelPages \in Nat \ {0}
  <2>1. KernelRegions \in Nat \ {0} /\ Entries \in Nat \ {0}
    BY PagingAssumption
  <2>2. 1 * 1 <= KernelRegions * 1 /\ 1 * KernelRegions <= Entries * KernelRegions
    BY <2>1, TimesMonotonic
  <2> QED BY <2>1, <2>2 DEF KernelPages
<1> QED BY <1>1, PagingAssumption, HeapAssumption

(* What a request takes of a major *)
LEMMA RequestSizes ==
  ASSUME NEW req \in Requests
  PROVE  /\ req \in Nat \ {0}
         /\ Size(req) \in Nat /\ Size(req) = req + Alignment + Info
         /\ Need(req) \in Nat /\ Need(req) = Size(req) + Minor
<1>1. req \in Nat \ {0}
  BY HeapAssumption
<1> QED BY <1>1, Sizes DEF Size, Need

(* A base is the address of a page of the heap, and is not NULL. *)
LEMMA BaseProps ==
  ASSUME NEW m \in Bases
  PROVE  /\ m \in Nat \ {0} /\ Page(m) \in KernelPages .. NPages - 1
         /\ Page(m) \in Nat /\ m = Page(m) * PageSize /\ m # NULL
<1>1. PICK p \in KernelPages .. NPages - 1 : m = p * PageSize
  BY DEF Bases
<1>2. p \in Nat \ {0} /\ m = p * PageSize + 0 /\ 0 \in 0 .. PageSize - 1
  BY <1>1, Sizes
<1>3. Page(m) = p
  BY <1>2, Sizes, DivModUnique DEF Page
<1>4. 1 * PageSize <= p * PageSize
  BY <1>2, Sizes, TimesMonotonic
<1>5. m \in Nat \ {0}
  BY <1>1, <1>4, Sizes
<1> QED BY <1>1, <1>2, <1>3, <1>5, Zenon DEF NULL

(* The aligned pointer leaves room for the word in front of it and is less *)
(* than an alignment further on (liballoc.c:27-44).                        *)
LEMMA AlignProps ==
  ASSUME NEW a \in Nat
  PROVE  /\ Align(a) \in Nat /\ Align(a) % Alignment = 0
         /\ a + Minor + Info <= Align(a) /\ Align(a) < a + Minor + Info + Alignment
<1> DEFINE p == a + Minor + Info
           q == p \div Alignment
           n == p + Alignment - (p % Alignment)
<1>1. p \in Nat /\ Alignment \in Nat \ {0}
  BY Sizes
<1>2. q \in Nat /\ p % Alignment \in 0 .. Alignment - 1 /\ p = Alignment * q + (p % Alignment)
  BY <1>1, DivMod, Zenon
<1> HIDE DEF p, q
<1>3. CASE p % Alignment = 0
  BY <1>1, <1>3 DEF Align, p
<1>4. CASE p % Alignment # 0
  <2>1. n = (q + 1) * Alignment + 0 /\ q + 1 \in Nat /\ 0 \in 0 .. Alignment - 1
    BY <1>1, <1>2
  <2>2. n % Alignment = 0
    BY <1>1, <2>1, DivModUnique
  <2>3. n \in Nat /\ p <= n /\ n < p + Alignment
    BY <1>1, <1>2, <1>4
  <2>4. Align(a) = n
    BY <1>4 DEF Align, p
  <2> QED BY <2>2, <2>3, <2>4 DEF p
<1> QED BY <1>3, <1>4

(* A new major has room for its header and the block that it is made for   *)
(* (liballoc.c:160-175).                                                   *)
LEMMA NewMajorHasRoom ==
  ASSUME NEW req \in Requests
  PROVE  /\ PagesFor(req) \in Nat \ {0}
         /\ Major + Need(req) <= PagesFor(req) * PageSize
<1> DEFINE a == Size(req) + Major + Minor
           q == a \div PageSize
           st == CeilDiv(a, PageSize)
<1>1. a \in Nat \ {0} /\ a = Major + Need(req) /\ PageSize \in Nat \ {0}
  <2>1. /\ Size(req) \in Nat \ {0} /\ Need(req) = Size(req) + Minor
    BY RequestSizes, Sizes
  <2> QED BY <2>1, Sizes
<1>2. q \in Nat /\ a % PageSize \in 0 .. PageSize - 1 /\ a = PageSize * q + (a % PageSize)
  BY <1>1, DivMod, Zenon
<1> HIDE DEF a, q
<1>3. st = IF a % PageSize = 0 THEN q ELSE q + 1
  BY DEF CeilDiv, q
<1>4. st \in Nat /\ a <= st * PageSize
  <2> HIDE DEF st
  <2>1. CASE a % PageSize = 0
    <3>1. q * PageSize = PageSize * q
      BY <1>1, <1>2
    <3>2. a = PageSize * q
      BY <1>1, <1>2, <2>1
    <3> QED BY <1>1, <1>2, <1>3, <2>1, <3>1, <3>2
  <2>2. CASE a % PageSize # 0
    <3>1. (q + 1) * PageSize = PageSize * q + PageSize
      BY <1>1, <1>2
    <3>2. a <= PageSize * q + PageSize /\ q + 1 \in Nat
      BY <1>1, <1>2
    <3> QED BY <1>3, <2>2, <3>1, <3>2
  <2> QED BY <2>1, <2>2
<1>5. st # 0
  BY <1>1, <1>4
<1>6. PagesFor(req) = (IF st < PageCount THEN PageCount ELSE st) /\ PageCount \in Nat \ {0}
  BY HeapAssumption DEF PagesFor, a
<1> HIDE DEF st
<1>7. PagesFor(req) \in Nat \ {0} /\ st <= PagesFor(req)
  BY <1>4, <1>5, <1>6
<1>8. st * PageSize \in Nat /\ PagesFor(req) * PageSize \in Nat
      /\ st * PageSize <= PagesFor(req) * PageSize
  BY <1>1, <1>4, <1>7, TimesMonotonic
<1> QED BY <1>1, <1>4, <1>7, <1>8

-----------------------------------------------------------------------------
(* What is free behind the k-th minor of major b at m, and before its      *)
(* first.  "usage" counts right if the gaps take together no more than it  *)
(* leaves.                                                                 *)
After(x) == x.at + Minor + x.size
Lower(m, s, k) == IF k = 0 THEN m + Major ELSE After(s[k])
Upper(s, k, end) == IF k = Len(s) THEN end ELSE s[k + 1].at
GapOf(m, b, k) == Upper(b.chain, k, m + b.pages * PageSize) - Lower(m, b.chain, k)
RoomOf(m, b) == [k \in 0 .. Len(b.chain) |-> GapOf(m, b, k)]
Counted(m, b) ==
  /\ \A k \in 0 .. Len(b.chain) : GapOf(m, b, k) \in Nat
  /\ Tally(Len(b.chain), RoomOf(m, b), b.pages * PageSize - b.usage)

(* The edges of the gaps are numbers, *)
LEMMA EdgeTypes ==
  ASSUME NEW m \in Nat, NEW end \in Nat, NEW s \in Seq(Minors), NEW j \in 0 .. Len(s)
  PROVE  Lower(m, s, j) \in Int /\ Upper(s, j, end) \in Int
<1>1. \A i \in 1 .. Len(s) : s[i].at \in Int /\ After(s[i]) \in Int
  <2> TAKE i \in 1 .. Len(s)
  <2>1. s[i].at \in Nat /\ s[i].size \in Nat
    <3>1. s[i] \in Minors
      BY ElementOfSeq
    <3> QED BY <3>1 DEF Minors
  <2>2. \A u, v \in Nat : u + Minor + v \in Int /\ u \in Int
    BY Sizes
  <2> QED BY <2>1, <2>2, Zenon DEF After
<1>2. (j # 0 => j \in 1 .. Len(s)) /\ (j # Len(s) => j + 1 \in 1 .. Len(s))
  OBVIOUS
<1>3. m + Major \in Int /\ end \in Int
  BY Sizes
<1> QED BY <1>1, <1>2, <1>3, Zenon DEF Lower, Upper

(* and a new minor in gap k keeps those of the other gaps, *)
SplitAt(m, s, t, end, k, x) ==
  /\ Upper(t, k, end) = x.at /\ Lower(m, t, k) = Lower(m, s, k)
  /\ Upper(t, k + 1, end) = Upper(s, k, end) /\ Lower(m, t, k + 1) = After(x)
  /\ \A j \in 0 .. Len(s) : j < k =>
       Upper(t, j, end) = Upper(s, j, end) /\ Lower(m, t, j) = Lower(m, s, j)
  /\ \A j \in 0 .. Len(s) : k < j =>
       Upper(t, j + 1, end) = Upper(s, j, end) /\ Lower(m, t, j + 1) = Lower(m, s, j)
LEMMA PutEdges ==
  ASSUME NEW m, NEW end, NEW s \in Seq(Minors), NEW t, NEW k \in 0 .. Len(s), NEW x,
         WithNew(Minors, t, s, k, x)
  PROVE  SplitAt(m, s, t, end, k, x)
<1> DEFINE n == Len(s)
<1>1. /\ n \in Nat /\ k \in 0 .. n /\ Len(t) = n + 1 /\ t[k + 1] = x
      /\ \A i \in 1 .. k : t[i] = s[i]
      /\ \A i \in k + 1 .. n : t[i + 1] = s[i]
  BY DEF WithNew
<1>2. /\ \A j : Upper(s, j, end) = IF j = n THEN end ELSE s[j + 1].at
      /\ \A j : Upper(t, j, end) = IF j = n + 1 THEN end ELSE t[j + 1].at
  BY <1>1, Zenon DEF Upper
<1>3. \A j : /\ Lower(m, s, j) = IF j = 0 THEN m + Major ELSE After(s[j])
             /\ Lower(m, t, j) = IF j = 0 THEN m + Major ELSE After(t[j])
  BY Zenon DEF Lower
<1> HIDE DEF n
<1>4. Upper(t, k, end) = x.at /\ Lower(m, t, k) = Lower(m, s, k)
  <2>1. k # n + 1 /\ (k # 0 => k \in 1 .. k)
    BY <1>1
  <2>2. Upper(t, k, end) = t[k + 1].at
    BY <1>2, <2>1, Zenon
  <2> QED BY <1>1, <1>3, <2>1, <2>2, Zenon
<1>5. Upper(t, k + 1, end) = Upper(s, k, end) /\ Lower(m, t, k + 1) = After(x)
  <2>1. k + 1 # 0 /\ (k + 1 = n + 1 <=> k = n) /\ (k # n => k + 1 \in k + 1 .. n)
    BY <1>1
  <2>2. Lower(m, t, k + 1) = After(t[k + 1])
    BY <1>3, <2>1, Zenon
  <2>3. CASE k = n
    BY <1>1, <1>2, <2>1, <2>2, <2>3, Zenon
  <2>4. CASE k # n
    <3>1. Upper(t, k + 1, end) = t[(k + 1) + 1].at /\ Upper(s, k, end) = s[k + 1].at
      BY <1>2, <2>1, <2>4, Zenon
    <3> QED BY <1>1, <2>1, <2>2, <2>4, <3>1, Zenon
  <2> QED BY <2>3, <2>4, Zenon
<1>6. ASSUME NEW j \in 0 .. n, j < k
      PROVE  Upper(t, j, end) = Upper(s, j, end) /\ Lower(m, t, j) = Lower(m, s, j)
  <2>1. j # n /\ j # n + 1 /\ j + 1 \in 1 .. k /\ (j # 0 => j \in 1 .. k)
    BY <1>1, <1>6
  <2>2. Upper(t, j, end) = t[j + 1].at /\ Upper(s, j, end) = s[j + 1].at
    BY <1>2, <2>1, Zenon
  <2> QED BY <1>1, <1>3, <2>1, <2>2, Zenon
<1>7. ASSUME NEW j \in 0 .. n, k < j
      PROVE  Upper(t, j + 1, end) = Upper(s, j, end) /\ Lower(m, t, j + 1) = Lower(m, s, j)
  <2>1. j # 0 /\ j + 1 # 0 /\ (j + 1 = n + 1 <=> j = n) /\ j \in k + 1 .. n
        /\ (j # n => j + 1 \in k + 1 .. n)
    BY <1>1, <1>7
  <2>2. Lower(m, t, j + 1) = After(t[j + 1]) /\ Lower(m, s, j) = After(s[j])
    BY <1>3, <2>1, Zenon
  <2>3. CASE j = n
    BY <1>1, <1>2, <2>1, <2>2, <2>3, Zenon
  <2>4. CASE j # n
    <3>1. Upper(t, j + 1, end) = t[(j + 1) + 1].at /\ Upper(s, j, end) = s[j + 1].at
      BY <1>2, <2>1, <2>4, Zenon
    <3> QED BY <1>1, <2>1, <2>2, <2>4, <3>1, Zenon
  <2> QED BY <2>3, <2>4, Zenon
<1> QED BY <1>4, <1>5, <1>6, <1>7, Zenon DEF n, SplitAt

(* so that a minor of "need" bytes at the start of gap k is counted right. *)
LEMMA PutCounted ==
  ASSUME NEW m \in Nat, NEW b, NEW c, b.chain \in Seq(Minors), b.pages * PageSize \in Nat,
         b.usage \in Int, Counted(m, b), NEW k \in 0 .. Len(b.chain), NEW need \in Nat,
         need <= GapOf(m, b, k), NEW x, x.at = Lower(m, b.chain, k), After(x) = x.at + need,
         WithNew(Minors, c.chain, b.chain, k, x), c.pages = b.pages, c.usage = b.usage + need
  PROVE  Counted(m, c)
<1> DEFINE s == b.chain
           t == c.chain
           n == Len(s)
           end == m + b.pages * PageSize
           free == b.pages * PageSize - b.usage
           g == RoomOf(m, b)
           h == RoomOf(m, c)
           u == Upper(s, k, end)
           l == Lower(m, s, k)
<1>1. n \in Nat /\ k \in 0 .. n /\ Len(t) = n + 1 /\ free \in Int /\ end \in Nat
  <2>1. Len(t) = n + 1
    BY Zenon DEF WithNew
  <2>2. n \in Nat /\ k \in 0 .. n
    OBVIOUS
  <2>3. \A a \in Nat, d \in Int : a - d \in Int /\ m + a \in Nat
    OBVIOUS
  <2>4. free \in Int /\ end \in Nat
    BY <2>3, Zenon
  <2> QED BY <2>1, <2>2, <2>4, Zenon
<1>2. /\ \A j : GapOf(m, b, j) = Upper(s, j, end) - Lower(m, s, j)
      /\ \A j : GapOf(m, c, j) = Upper(t, j, end) - Lower(m, t, j)
  <2>1. m + c.pages * PageSize = end
    OBVIOUS
  <2> QED BY <2>1 DEF GapOf
<1>3. /\ Upper(t, k, end) = l /\ Lower(m, t, k) = l
      /\ Upper(t, k + 1, end) = u /\ Lower(m, t, k + 1) = l + need
      /\ \A j \in 0 .. n : j < k =>
           Upper(t, j, end) = Upper(s, j, end) /\ Lower(m, t, j) = Lower(m, s, j)
      /\ \A j \in 0 .. n : k < j =>
           Upper(t, j + 1, end) = Upper(s, j, end) /\ Lower(m, t, j + 1) = Lower(m, s, j)
  <2>1. s \in Seq(Minors) /\ k \in 0 .. Len(s) /\ WithNew(Minors, t, s, k, x)
        /\ x.at = l /\ After(x) = l + need
    OBVIOUS
  <2> HIDE DEF s, t, end
  <2>2. SplitAt(m, s, t, end, k, x)
    BY <2>1, PutEdges, Zenon
  <2> QED BY <2>1, <2>2, Zenon DEF SplitAt
<1>4. u \in Int /\ l \in Int
  BY <1>1, EdgeTypes, Zenon
<1>5. \A j \in 0 .. n : GapOf(m, b, j) \in Nat
  BY Zenon DEF Counted
<1>6. Tally(n, g, free) /\ c.pages * PageSize - c.usage = free - need
  BY DEF Counted
<1>7. /\ g = [j \in 0 .. n |-> GapOf(m, b, j)]
      /\ h = [j \in 0 .. n + 1 |-> GapOf(m, c, j)]
  BY <1>1, Zenon DEF RoomOf
<1>8. need <= GapOf(m, b, k)
  OBVIOUS
<1> HIDE DEF s, t, n, end, free, g, h, u, l
<1>9. GapOf(m, c, k) = 0 /\ GapOf(m, c, k + 1) = GapOf(m, b, k) - need
  <2>1. \A a, d \in Int : a - a = 0 /\ d - (a + need) = (d - a) - need
    OBVIOUS
  <2>2. GapOf(m, c, k) = l - l /\ GapOf(m, c, k + 1) = u - (l + need) /\ GapOf(m, b, k) = u - l
    BY <1>2, <1>3, Zenon DEF u, l
  <2> QED BY <1>4, <2>1, <2>2
<1>10. /\ \A j \in 0 .. n : j < k => GapOf(m, c, j) = GapOf(m, b, j)
       /\ \A j \in 0 .. n : k < j => GapOf(m, c, j + 1) = GapOf(m, b, j)
  BY <1>2, <1>3, Zenon
<1>11. \A j \in 0 .. n + 1 : GapOf(m, c, j) \in Nat
  <2> TAKE j \in 0 .. n + 1
  <2>1. CASE j < k
    <3>1. j \in 0 .. n
      BY <1>1, <2>1
    <3> QED BY <1>5, <1>10, <2>1, <3>1, Zenon
  <2>2. CASE j = k \/ j = k + 1
    <3>1. GapOf(m, b, k) \in Nat
      BY <1>1, <1>5, Zenon
    <3> QED BY <1>8, <1>9, <2>2, <3>1
  <2>3. CASE j > k + 1
    <3>1. j - 1 \in 0 .. n /\ k < j - 1 /\ (j - 1) + 1 = j
      BY <1>1, <2>3
    <3> QED BY <1>5, <1>10, <3>1, Zenon
  <2> QED BY <1>1, <2>1, <2>2, <2>3
<1>12. g \in [0 .. n -> Nat] /\ \A j \in 0 .. n : g[j] = GapOf(m, b, j)
  BY <1>5, <1>7
<1>13. h \in [0 .. n + 1 -> Nat] /\ \A j \in 0 .. n + 1 : h[j] = GapOf(m, c, j)
  BY <1>7, <1>11
<1>14. Tally(n + 1, h, free - need)
  <2>1. k \in 0 .. n + 1 /\ k + 1 \in 0 .. n + 1
        /\ \A j \in 0 .. n : j \in 0 .. n + 1 /\ j + 1 \in 0 .. n + 1
    BY <1>1
  <2>2. g[k] = GapOf(m, b, k) /\ h[k] = 0 /\ h[k + 1] = GapOf(m, b, k) - need
    BY <1>1, <1>9, <1>12, <1>13, <2>1, Zenon
  <2>3. need <= g[k] /\ h[k + 1] = g[k] - need
    BY <1>8, <2>2
  <2>4. /\ \A j \in 0 .. n : j < k => h[j] = g[j]
        /\ \A j \in 0 .. n : k < j => h[j + 1] = g[j]
    BY <1>10, <1>12, <1>13, <2>1, Zenon
  <2>5. k \in 0 .. n /\ n \in Nat /\ free \in Int /\ Tally(n, g, free)
    BY <1>1, <1>6, Zenon
  <2>6. Splits(n, g, h, k, need)
    BY <2>2, <2>3, <2>4, Zenon DEF Splits
  <2> QED BY <1>12, <1>13, <2>3, <2>5, <2>6, TallyPut, Zenon
<1>15. Len(c.chain) = n + 1 /\ RoomOf(m, c) = h
  BY <1>1 DEF t, h
<1> QED BY <1>6, <1>11, <1>14, <1>15, Zenon DEF Counted

(* A minor that goes joins the gaps before and behind it, *)
JoinAt(m, s, t, end, i) ==
  /\ Upper(t, i - 1, end) = Upper(s, i, end) /\ Lower(m, t, i - 1) = Lower(m, s, i - 1)
  /\ Upper(s, i - 1, end) = s[i].at /\ Lower(m, s, i) = After(s[i])
  /\ \A j \in 0 .. Len(s) - 1 : j < i - 1 =>
       Upper(t, j, end) = Upper(s, j, end) /\ Lower(m, t, j) = Lower(m, s, j)
  /\ \A j \in 0 .. Len(s) - 1 : i - 1 < j =>
       Upper(t, j, end) = Upper(s, j + 1, end) /\ Lower(m, t, j) = Lower(m, s, j + 1)
LEMMA DropEdges ==
  ASSUME NEW m, NEW end, NEW s \in Seq(Minors), NEW t, NEW i \in 1 .. Len(s),
         Without(Minors, t, s, i)
  PROVE  JoinAt(m, s, t, end, i)
<1> DEFINE n == Len(s)
<1>1. /\ n \in Nat /\ i \in 1 .. n /\ Len(t) = n - 1
      /\ \A j \in 1 .. i - 1 : t[j] = s[j]
      /\ \A j \in i .. n - 1 : t[j] = s[j + 1]
  BY DEF Without
<1>2. /\ \A j : Upper(s, j, end) = IF j = n THEN end ELSE s[j + 1].at
      /\ \A j : Upper(t, j, end) = IF j = n - 1 THEN end ELSE t[j + 1].at
  BY <1>1, Zenon DEF Upper
<1>3. \A j : /\ Lower(m, s, j) = IF j = 0 THEN m + Major ELSE After(s[j])
             /\ Lower(m, t, j) = IF j = 0 THEN m + Major ELSE After(t[j])
  BY Zenon DEF Lower
<1> HIDE DEF n
<1>4. Upper(s, i - 1, end) = s[i].at /\ Lower(m, s, i) = After(s[i])
  <2>1. i - 1 # n /\ (i - 1) + 1 = i /\ i # 0
    BY <1>1
  <2>2. Upper(s, i - 1, end) = s[(i - 1) + 1].at
    BY <1>2, <2>1, Zenon
  <2> QED BY <1>3, <2>1, <2>2, Zenon
<1>5. Upper(t, i - 1, end) = Upper(s, i, end) /\ Lower(m, t, i - 1) = Lower(m, s, i - 1)
  <2>1. (i - 1 = n - 1 <=> i = n) /\ (i # n => i \in i .. n - 1) /\ (i - 1 # 0 => i - 1 \in 1 .. i - 1)
        /\ (i - 1) + 1 = i
    BY <1>1
  <2>2. CASE i = n
    BY <1>1, <1>2, <1>3, <2>1, <2>2, Zenon
  <2>3. CASE i # n
    <3>1. Upper(t, i - 1, end) = t[(i - 1) + 1].at /\ Upper(s, i, end) = s[i + 1].at
      BY <1>2, <2>1, <2>3, Zenon
    <3>2. t[i] = s[i + 1]
      BY <1>1, <2>1, <2>3, Zenon
    <3> QED BY <1>1, <1>3, <2>1, <3>1, <3>2, Zenon
  <2> QED BY <2>2, <2>3, Zenon
<1>6. ASSUME NEW j \in 0 .. n - 1, j < i - 1
      PROVE  Upper(t, j, end) = Upper(s, j, end) /\ Lower(m, t, j) = Lower(m, s, j)
  <2>1. j # n /\ j # n - 1 /\ j + 1 \in 1 .. i - 1 /\ (j # 0 => j \in 1 .. i - 1)
    BY <1>1, <1>6
  <2>2. Upper(t, j, end) = t[j + 1].at /\ Upper(s, j, end) = s[j + 1].at
    BY <1>2, <2>1, Zenon
  <2> QED BY <1>1, <1>3, <2>1, <2>2, Zenon
<1>7. ASSUME NEW j \in 0 .. n - 1, i - 1 < j
      PROVE  Upper(t, j, end) = Upper(s, j + 1, end) /\ Lower(m, t, j) = Lower(m, s, j + 1)
  <2>1. j # 0 /\ j + 1 # 0 /\ (j = n - 1 <=> j + 1 = n) /\ j \in i .. n - 1
        /\ (j + 1 # n => j + 1 \in i .. n - 1)
    BY <1>1, <1>7
  <2>2. Lower(m, t, j) = After(t[j]) /\ Lower(m, s, j + 1) = After(s[j + 1])
    BY <1>3, <2>1, Zenon
  <2>3. CASE j + 1 = n
    BY <1>1, <1>2, <2>1, <2>2, <2>3, Zenon
  <2>4. CASE j + 1 # n
    <3>1. Upper(t, j, end) = t[j + 1].at /\ Upper(s, j + 1, end) = s[(j + 1) + 1].at
      BY <1>2, <2>1, <2>4, Zenon
    <3> QED BY <1>1, <2>1, <2>2, <2>4, <3>1, Zenon
  <2> QED BY <2>3, <2>4, Zenon
<1> QED BY <1>4, <1>5, <1>6, <1>7, Zenon DEF n, JoinAt

(* so that the count stays right. *)
LEMMA DropCounted ==
  ASSUME NEW m \in Nat, NEW b, NEW c, b.chain \in Seq(Minors), b.pages * PageSize \in Nat,
         b.usage \in Int, Counted(m, b), NEW i \in 1 .. Len(b.chain),
         Without(Minors, c.chain, b.chain, i), c.pages = b.pages,
         c.usage = b.usage - (b.chain[i].size + Minor)
  PROVE  Counted(m, c)
<1> DEFINE s == b.chain
           t == c.chain
           n == Len(s)
           end == m + b.pages * PageSize
           free == b.pages * PageSize - b.usage
           size == s[i].size + Minor
           g == RoomOf(m, b)
           h == RoomOf(m, c)
           u == Upper(s, i, end)
           l == Lower(m, s, i - 1)
           at == s[i].at
<1>1. n \in Nat /\ i \in 1 .. n /\ Len(t) = n - 1 /\ free \in Int /\ end \in Nat
  <2>1. Len(t) = n - 1
    BY Zenon DEF Without
  <2>2. n \in Nat /\ i \in 1 .. n
    OBVIOUS
  <2>3. \A a \in Nat, d \in Int : a - d \in Int /\ m + a \in Nat
    OBVIOUS
  <2>4. free \in Int /\ end \in Nat
    BY <2>3, Zenon
  <2> QED BY <2>1, <2>2, <2>4, Zenon
<1>2. /\ \A j : GapOf(m, b, j) = Upper(s, j, end) - Lower(m, s, j)
      /\ \A j : GapOf(m, c, j) = Upper(t, j, end) - Lower(m, t, j)
  <2>1. m + c.pages * PageSize = end
    OBVIOUS
  <2> QED BY <2>1 DEF GapOf
<1>3. at \in Nat /\ size \in Nat /\ After(s[i]) = at + size
  <2>1. s[i] \in Minors
    BY ElementOfSeq
  <2>2. at \in Nat /\ s[i].size \in Nat
    BY <2>1, Zenon DEF Minors
  <2>3. \A a, d \in Nat : d + Minor \in Nat /\ a + Minor + d = a + (d + Minor)
    BY Sizes
  <2> QED BY <2>2, <2>3, Zenon DEF After
<1>4. c.pages * PageSize - c.usage = free + size
  <2>1. \A p, q \in Int : p - (q - size) = (p - q) + size
    BY <1>3
  <2>2. b.pages * PageSize \in Int /\ b.usage \in Int
    OBVIOUS
  <2> QED BY <2>1, <2>2, Zenon
<1>5. \A j \in 0 .. n : GapOf(m, b, j) \in Nat
  BY Zenon DEF Counted
<1>6. Tally(n, g, free)
  BY Zenon DEF Counted
<1>7. /\ g = [j \in 0 .. n |-> GapOf(m, b, j)]
      /\ h = [j \in 0 .. n - 1 |-> GapOf(m, c, j)]
  BY <1>1, Zenon DEF RoomOf
<1>8. JoinAt(m, s, t, end, i)
  <2>1. s \in Seq(Minors) /\ i \in 1 .. Len(s) /\ Without(Minors, t, s, i)
    OBVIOUS
  <2> HIDE DEF s, t, end
  <2> QED BY <2>1, DropEdges, Zenon
<1>9. u \in Int /\ l \in Int
  <2>1. s \in Seq(Minors) /\ i \in 0 .. Len(s) /\ i - 1 \in 0 .. Len(s)
    BY <1>1
  <2> HIDE DEF s, end
  <2> QED BY <1>1, <2>1, EdgeTypes, Zenon DEF u, l
<1>10. /\ Upper(t, i - 1, end) = u /\ Lower(m, t, i - 1) = l
       /\ Upper(s, i - 1, end) = at /\ Lower(m, s, i) = at + size
       /\ \A j \in 0 .. n - 1 : j < i - 1 =>
            Upper(t, j, end) = Upper(s, j, end) /\ Lower(m, t, j) = Lower(m, s, j)
       /\ \A j \in 0 .. n - 1 : i - 1 < j =>
            Upper(t, j, end) = Upper(s, j + 1, end) /\ Lower(m, t, j) = Lower(m, s, j + 1)
  <2> HIDE DEF s, t, end, size
  <2> QED BY <1>3, <1>8, Zenon DEF JoinAt
<1> HIDE DEF s, t, n, end, free, size, g, h, u, l, at
<1>11. GapOf(m, c, i - 1) = GapOf(m, b, i - 1) + size + GapOf(m, b, i)
  <2>1. \A p, q, a \in Int : p - q = (a - q) + size + (p - (a + size))
    BY <1>3
  <2>2. /\ GapOf(m, c, i - 1) = u - l /\ GapOf(m, b, i - 1) = at - l
        /\ GapOf(m, b, i) = u - (at + size)
    BY <1>2, <1>10, Zenon DEF u, l
  <2> QED BY <1>3, <1>9, <2>1, <2>2
<1>12. /\ \A j \in 0 .. n - 1 : j < i - 1 => GapOf(m, c, j) = GapOf(m, b, j)
       /\ \A j \in 0 .. n - 1 : i - 1 < j => GapOf(m, c, j) = GapOf(m, b, j + 1)
  BY <1>2, <1>10, Zenon
<1>13. \A j \in 0 .. n - 1 : GapOf(m, c, j) \in Nat
  <2> TAKE j \in 0 .. n - 1
  <2>1. j \in 0 .. n /\ j + 1 \in 0 .. n /\ (j < i - 1 \/ j = i - 1 \/ i - 1 < j)
        /\ i - 1 \in 0 .. n /\ i \in 0 .. n
    BY <1>1
  <2>2. GapOf(m, b, i - 1) + size + GapOf(m, b, i) \in Nat
    <3>1. GapOf(m, b, i - 1) \in Nat /\ GapOf(m, b, i) \in Nat
      BY <1>5, <2>1, Zenon
    <3>2. \A x, y \in Nat : x + size + y \in Nat
      BY <1>3
    <3> QED BY <3>1, <3>2, Zenon
  <2> QED BY <1>5, <1>11, <1>12, <2>1, <2>2, Zenon
<1>14. g \in [0 .. n -> Nat] /\ \A j \in 0 .. n : g[j] = GapOf(m, b, j)
  BY <1>5, <1>7, Zenon
<1>15. h \in [0 .. n - 1 -> Nat] /\ \A j \in 0 .. n - 1 : h[j] = GapOf(m, c, j)
  BY <1>7, <1>13
<1>16. Tally(n - 1, h, free + size)
  <2>1. i - 1 \in 0 .. n - 1 /\ i - 1 \in 0 .. n /\ i \in 0 .. n
        /\ \A j \in 0 .. n - 1 : j \in 0 .. n /\ j + 1 \in 0 .. n
    BY <1>1
  <2>2. h[i - 1] = g[i - 1] + size + g[i]
    BY <1>11, <1>14, <1>15, <2>1
  <2>3. /\ \A j \in 0 .. n - 1 : j < i - 1 => h[j] = g[j]
        /\ \A j \in 0 .. n - 1 : i - 1 < j => h[j] = g[j + 1]
    BY <1>12, <1>14, <1>15, <2>1, Zenon
  <2>4. i \in 1 .. n /\ n \in Nat /\ free \in Int /\ size \in Nat /\ Tally(n, g, free)
    BY <1>1, <1>3, <1>6, Zenon
  <2>5. Joins(n, g, h, i, size)
    BY <2>2, <2>3, Zenon DEF Joins
  <2> QED BY <1>14, <1>15, <2>4, <2>5, TallyDrop, Zenon
<1>17. Len(c.chain) = n - 1 /\ RoomOf(m, c) = h
  BY <1>1, Zenon DEF t, h
<1> QED BY <1>4, <1>13, <1>16, <1>17, Zenon DEF Counted

(* Nothing changes for a major whose minors keep their places and sizes.   *)
LEMMA SameCounted ==
  ASSUME NEW m, NEW b, NEW c, Counted(m, b), b.chain \in Seq(Minors), Len(c.chain) = Len(b.chain),
         \A j \in 1 .. Len(b.chain) :
           c.chain[j].at = b.chain[j].at /\ After(c.chain[j]) = After(b.chain[j]),
         c.pages = b.pages, c.usage = b.usage
  PROVE  Counted(m, c)
<1> DEFINE n == Len(b.chain)
           end == m + b.pages * PageSize
<1>1. n \in Nat /\ Len(c.chain) = n /\ m + c.pages * PageSize = end
  OBVIOUS
<1>2. ASSUME NEW j \in 0 .. n
      PROVE  GapOf(m, c, j) = GapOf(m, b, j)
  <2> HIDE DEF n
  <2>1. (j # 0 => j \in 1 .. n) /\ (j # n => j + 1 \in 1 .. n)
    BY <1>1
  <2>2. Lower(m, c.chain, j) = Lower(m, b.chain, j)
    BY <2>1, Zenon DEF Lower, n
  <2>3. Upper(c.chain, j, end) = Upper(b.chain, j, end)
    BY <1>1, <2>1, Zenon DEF Upper, n
  <2> QED BY <1>1, <2>2, <2>3, Zenon DEF GapOf
<1>3. RoomOf(m, c) = RoomOf(m, b)
  BY <1>1, <1>2, Zenon DEF RoomOf
<1> QED BY <1>2, <1>3 DEF Counted

(* The gap of a new major is what its header leaves. *)
LEMMA NewCounted ==
  ASSUME NEW m \in Nat, NEW b, b.chain = <<>>, b.usage = Major, b.pages * PageSize \in Nat,
         Major <= b.pages * PageSize
  PROVE  Counted(m, b)
<1> DEFINE z == b.pages * PageSize
           g == RoomOf(m, b)
           f == [j \in 0 .. 0 |-> 0]
<1>1. Len(b.chain) = 0
  OBVIOUS
<1>2. GapOf(m, b, 0) = (m + z) - (m + Major)
  BY <1>1, Zenon DEF GapOf, Lower, Upper
<1>3. z \in Nat /\ Major \in Nat /\ Major <= z
  BY Sizes
<1> HIDE DEF z
<1>4. (m + z) - (m + Major) = z - Major /\ z - Major \in Nat
  BY <1>3
<1>5. GapOf(m, b, 0) = z - Major /\ GapOf(m, b, 0) \in Nat
  BY <1>2, <1>4, Zenon
<1>6. \A k \in 0 .. 0 : k = 0
  OBVIOUS
<1>7. Tally(0, g, z - Major)
  <2>1. g = [k \in 0 .. 0 |-> GapOf(m, b, k)] /\ 0 \in 0 .. 0
    BY <1>1 DEF RoomOf
  <2>2. g[0] = z - Major
    BY <1>5, <2>1
  <2>3. f \in [0 .. 0 -> Nat] /\ f[0] = 0
    OBVIOUS
  <2> HIDE DEF f, g
  <2>4. f[0] + g[0] <= z - Major
    BY <1>4, <2>2, <2>3
  <2>5. \A i, j \in 0 .. 0 : i < j => f[i] + g[i] <= f[j]
    <3>1. \A i, j \in 0 .. 0 : ~(i < j)
      OBVIOUS
    <3> QED BY <3>1, Zenon
  <2> QED BY <2>3, <2>4, <2>5 DEF Tally
<1> QED BY <1>1, <1>5, <1>6, <1>7, Zenon DEF Counted, z

(* The layout of a major: its minors lie between its header and its end,   *)
(* each is large enough for its block, each ends before those behind it in *)
(* the chain begin, and "usage" counts right.                              *)
Laid(m, b) ==
  /\ b.pages \in Nat \ {0} /\ Major <= b.pages * PageSize
  /\ b.chain \in Seq(Minors)
  /\ b.chain = <<>> => b.usage = Major
  /\ \A i \in 1 .. Len(b.chain) :
       /\ m + Major <= b.chain[i].at /\ After(b.chain[i]) <= m + b.pages * PageSize
       /\ b.chain[i].req_size # 0 /\ Size(b.chain[i].req_size) <= b.chain[i].size
  /\ \A i, j \in 1 .. Len(b.chain) : i < j => After(b.chain[i]) <= b.chain[j].at
  /\ Counted(m, b)

(* Major b at m becomes c: a minor for req is put at "at", into its gap k, *)
(* which ends at "to".                                                     *)
PutAt(m, b, c, k, req, at, to) ==
  /\ at = IF k = 0 THEN m + Major ELSE After(b.chain[k])
  /\ to = IF k = Len(b.chain) THEN m + b.pages * PageSize ELSE b.chain[k + 1].at
  /\ to - at >= Need(req)
  /\ c.pages = b.pages /\ c.usage = b.usage + Need(req)
  /\ c.chain = Insert(b.chain, k, [at |-> at, size |-> Size(req), req_size |-> req])

(* A minor that is put into a gap with room keeps the layout: its header   *)
(* and its bytes end before the next minor begins (liballoc.c:315-447).    *)
LEMMA PutLaid ==
  ASSUME NEW m \in Nat, NEW b, NEW c, Laid(m, b), b.usage \in Int,
         NEW k \in 0 .. Len(b.chain), NEW req \in Requests, NEW at, NEW to,
         PutAt(m, b, c, k, req, at, to)
  PROVE  /\ Laid(m, c) /\ at \in Nat
         /\ WithNew(Minors, c.chain, b.chain, k, [at |-> at, size |-> Size(req), req_size |-> req])
<1> DEFINE s == b.chain
           t == c.chain
           x == [at |-> at, size |-> Size(req), req_size |-> req]
           n == Len(s)
           end == m + b.pages * PageSize
<1>1. n \in Nat /\ s \in Seq(Minors) /\ k \in Nat /\ k <= n
  <2>1. s \in Seq(Minors)
    BY Zenon DEF Laid
  <2> QED BY <2>1
<1>2. b.pages * PageSize \in Nat /\ end \in Nat
  <2>1. b.pages \in Nat \ {0}
    BY Zenon DEF Laid
  <2>2. \A a \in Nat \ {0} : a * PageSize \in Nat /\ m + a * PageSize \in Nat
    BY Sizes
  <2> QED BY <2>1, <2>2, Zenon
<1>a. Major \in Nat /\ Minor \in Nat /\ m + Major \in Nat
  BY Sizes
<1>b. at = (IF k = 0 THEN m + Major ELSE After(s[k])) /\ to = IF k = n THEN end ELSE s[k + 1].at
  BY DEF PutAt
<1>c. req \in Nat \ {0} /\ Size(req) \in Nat /\ Need(req) \in Nat /\ Need(req) = Minor + Size(req)
  BY RequestSizes, <1>a
<1>d. n = Len(s)
  OBVIOUS
<1>e. t = Insert(s, k, x) /\ c.pages = b.pages /\ to - at >= Need(req)
  BY DEF PutAt
<1> HIDE DEF s, t, x, n, end
<1>3. \A i \in 1 .. n :
        /\ s[i].at \in Nat /\ s[i].size \in Nat /\ s[i].req_size \in Nat
        /\ After(s[i]) \in Nat /\ s[i].at <= After(s[i])
  <2> TAKE i \in 1 .. n
  <2>1. s[i] \in Minors
    BY <1>1, <1>d
  <2>2. s[i].at \in Nat /\ s[i].size \in Nat /\ s[i].req_size \in Nat
    BY <2>1 DEF Minors
  <2>3. \A u, v \in Nat : u + Minor + v \in Nat /\ u <= u + Minor + v
    BY <1>a
  <2> QED BY <2>2, <2>3, Zenon DEF After
<1>4. at \in Nat
  <2>1. k # 0 => k \in 1 .. n
    BY <1>1
  <2> QED BY <1>a, <1>b, <1>3, <2>1
<1>5. /\ x \in Minors /\ After(x) = at + Need(req) /\ After(x) \in Nat
      /\ x.at = at /\ x.req_size = req /\ x.size = Size(req)
  <2>1. x.at = at /\ x.req_size = req /\ x.size = Size(req)
    BY DEF x
  <2>2. x \in Minors
    BY <1>4, <1>c DEF Minors, x
  <2>3. After(x) = at + Need(req) /\ After(x) \in Nat
    BY <1>4, <1>a, <1>c, <2>1 DEF After
  <2> QED BY <2>1, <2>2, <2>3
<1>6. to \in Nat /\ After(x) <= to
  <2>1. k # n => k + 1 \in 1 .. n
    BY <1>1
  <2>2. to \in Nat
    BY <1>2, <1>3, <1>b, <2>1, Zenon
  <2> QED BY <1>4, <1>5, <1>c, <1>e, <2>2
<1>7. /\ t \in Seq(Minors) /\ Len(t) = n + 1 /\ t[k + 1] = x
      /\ \A i \in 1 .. k : t[i] = s[i]
      /\ \A i \in k + 1 .. n : t[i + 1] = s[i]
  <2>1. k \in 0 .. Len(s)
    BY <1>1, <1>d
  <2>2. /\ t \in Seq(Minors) /\ Len(t) = Len(s) + 1 /\ t[k + 1] = x
        /\ \A i \in 1 .. k : t[i] = s[i]
        /\ \A i \in k + 1 .. Len(s) : t[i + 1] = s[i]
    <3>1. s \in Seq(Minors) /\ x \in Minors /\ t = Insert(s, k, x)
      BY <1>1, <1>5, <1>e
    <3>2. WithNew(Minors, t, s, k, x)
      BY <2>1, <3>1, Inserted
    <3> QED BY <3>2, Zenon DEF WithNew
  <2> QED BY <1>d, <2>2
<1>8. /\ \A i \in 1 .. n : m + Major <= s[i].at /\ After(s[i]) <= end
                           /\ s[i].req_size # 0 /\ Size(s[i].req_size) <= s[i].size
      /\ \A i, j \in 1 .. n : i < j => After(s[i]) <= s[j].at
  BY Zenon DEF Laid, s, n, end
<1>9. \A i \in 1 .. k : After(s[i]) <= at
  <2> TAKE i \in 1 .. k
  <2>1. i \in 1 .. n /\ k \in 1 .. n /\ at = After(s[k])
    BY <1>1, <1>b
  <2>2. i < k => After(s[i]) <= s[k].at
    BY <1>8, <2>1
  <2>3. After(s[i]) \in Nat /\ s[k].at \in Nat /\ After(s[k]) \in Nat /\ s[k].at <= After(s[k])
    BY <1>3, <2>1, Zenon
  <2>4. (i < k \/ i = k) /\ \A a, d, e \in Nat : a <= a /\ (a <= d /\ d <= e => a <= e)
    BY <2>1
  <2> QED BY <2>1, <2>2, <2>3, <2>4, Zenon
<1>10. m + Major <= at
  <2>1. CASE k = 0
    BY <2>1, <1>4, <1>a, <1>b
  <2>2. CASE k # 0
    <3>1. k \in 1 .. n /\ at = After(s[k])
      BY <1>1, <1>b, <2>2
    <3>2. m + Major <= s[k].at /\ s[k].at <= After(s[k])
      BY <1>3, <1>8, <3>1, Zenon
    <3> QED BY <1>3, <1>4, <1>a, <3>1, <3>2
  <2> QED BY <2>1, <2>2
<1>11. \A i \in k + 1 .. n : After(x) <= s[i].at
  <2> TAKE i \in k + 1 .. n
  <2>1. i \in 1 .. n /\ k + 1 \in 1 .. n /\ k # n /\ k + 1 <= i
    BY <1>1
  <2>2. to = s[k + 1].at
    BY <1>b, <2>1
  <2>3. k + 1 < i => After(s[k + 1]) <= s[i].at
    BY <1>8, <2>1
  <2> QED BY <1>1, <1>3, <1>5, <1>6, <2>1, <2>2, <2>3, SMTT(40)
<1>12. After(x) <= end
  <2>1. CASE k = n
    BY <1>6, <1>b, <2>1, Zenon
  <2>2. CASE k # n
    <3>1. k + 1 \in 1 .. n
      BY <1>1, <2>2
    <3>2. to = s[k + 1].at /\ s[k + 1].at <= After(s[k + 1]) /\ After(s[k + 1]) <= end
      BY <1>3, <1>8, <1>b, <2>2, <3>1, Zenon
    <3> QED BY <1>2, <1>3, <1>5, <1>6, <3>1, <3>2
  <2> QED BY <2>1, <2>2, Zenon
<1>13. \A i \in 1 .. n + 1 :
         \/ i \in 1 .. k /\ t[i] = s[i]
         \/ i = k + 1 /\ t[i] = x
         \/ i - 1 \in k + 1 .. n /\ t[i] = s[i - 1]
  <2> TAKE i \in 1 .. n + 1
  <2>1. i \in 1 .. k \/ i = k + 1 \/ (i - 1 \in k + 1 .. n /\ (i - 1) + 1 = i)
    BY <1>1
  <2> QED BY <1>7, <2>1
<1>14. \A i \in 1 .. n + 1 :
         /\ m + Major <= t[i].at /\ After(t[i]) <= end
         /\ t[i].req_size # 0 /\ Size(t[i].req_size) <= t[i].size
  <2> TAKE i \in 1 .. n + 1
  <2>1. CASE i \in 1 .. k /\ t[i] = s[i]
    <3>1. i \in 1 .. n
      BY <1>1, <2>1
    <3> QED BY <1>8, <2>1, <3>1, Zenon
  <2>2. CASE i = k + 1 /\ t[i] = x
    <3>1. m + Major <= x.at /\ After(x) <= end
      BY <1>5, <1>10, <1>12, Zenon
    <3>2. req # 0 /\ Size(req) <= Size(req)
      BY <1>c
    <3>3. x.req_size # 0 /\ Size(x.req_size) <= x.size
      BY <1>5, <3>2, Zenon
    <3> QED BY <2>2, <3>1, <3>3, Zenon
  <2>3. CASE i - 1 \in k + 1 .. n /\ t[i] = s[i - 1]
    <3>1. i - 1 \in 1 .. n
      BY <1>1, <2>3
    <3> QED BY <1>8, <2>3, <3>1, Zenon
  <2> QED BY <1>13, <2>1, <2>2, <2>3, Zenon
<1>15. \A i, j \in 1 .. n + 1 : i < j => After(t[i]) <= t[j].at
  <2> SUFFICES ASSUME NEW i \in 1 .. n + 1, NEW j \in 1 .. n + 1, i < j
               PROVE  After(t[i]) <= t[j].at
    OBVIOUS
  <2>1. CASE i \in 1 .. k /\ t[i] = s[i]
    <3>1. CASE j \in 1 .. k /\ t[j] = s[j]
      <4>1. i \in 1 .. n /\ j \in 1 .. n
        BY <1>1, <2>1, <3>1
      <4> QED BY <1>8, <2>1, <3>1, <4>1, Zenon
    <3>2. CASE j = k + 1 /\ t[j] = x
      BY <1>5, <1>9, <2>1, <3>2, Zenon
    <3>3. CASE j - 1 \in k + 1 .. n /\ t[j] = s[j - 1]
      <4>1. i \in 1 .. n /\ j - 1 \in 1 .. n /\ i < j - 1
        BY <1>1, <2>1, <3>3
      <4> QED BY <1>8, <2>1, <3>3, <4>1, Zenon
    <3> QED BY <1>13, <3>1, <3>2, <3>3, Zenon
  <2>2. CASE i = k + 1 /\ t[i] = x
    <3>1. j - 1 \in k + 1 .. n /\ t[j] = s[j - 1]
      BY <1>1, <1>13, <2>2
    <3> QED BY <1>11, <2>2, <3>1, Zenon
  <2>3. CASE i - 1 \in k + 1 .. n /\ t[i] = s[i - 1]
    <3>1. j - 1 \in k + 1 .. n /\ t[j] = s[j - 1]
      BY <1>1, <1>13, <2>3
    <3>2. i - 1 \in 1 .. n /\ j - 1 \in 1 .. n /\ i - 1 < j - 1
      BY <1>1, <2>3, <3>1
    <3> QED BY <1>8, <2>3, <3>1, <3>2, Zenon
  <2> QED BY <1>13, <2>1, <2>2, <2>3, Zenon
<1>16. t # <<>>
  BY <1>1, <1>7
<1>17. WithNew(Minors, t, s, k, x)
  BY <1>7, <1>d DEF WithNew
<1>18. Counted(m, c)
  <2>1. /\ s \in Seq(Minors) /\ k \in 0 .. Len(s) /\ Counted(m, b)
        /\ c.usage = b.usage + Need(req)
    BY <1>1 DEF Laid, PutAt, s, n
  <2>2. at = Lower(m, s, k) /\ to = Upper(s, k, end)
    BY <1>b, Zenon DEF Lower, Upper, n
  <2>3. GapOf(m, b, k) = to - at
    BY <2>2, Zenon DEF GapOf, s, end
  <2>4. Need(req) <= GapOf(m, b, k)
    BY <1>4, <1>6, <1>c, <1>e, <2>3
  <2> QED BY <1>2, <1>5, <1>17, <1>c, <1>e, <2>1, <2>2, <2>4, PutCounted, Zenon DEF s, t
<1>19. Laid(m, c) /\ at \in Nat
  BY <1>4, <1>7, <1>14, <1>15, <1>16, <1>18, <1>e, Zenon DEF Laid, s, t, n, end
<1> QED BY <1>17, <1>19, Zenon DEF s, t, x

(* Major b becomes c: its i-th minor goes, and it is not the only one. *)
DropAt(b, c, i) ==
  /\ Len(b.chain) # 1
  /\ c.pages = b.pages /\ c.chain = Remove(b.chain, i)
  /\ c.usage = b.usage - (b.chain[i].size + Minor)

(* The others stay where they are (liballoc.c:588-594). *)
LEMMA DropLaid ==
  ASSUME NEW m \in Nat, NEW b, NEW c, Laid(m, b), b.usage \in Int, NEW i \in 1 .. Len(b.chain),
         DropAt(b, c, i)
  PROVE  Laid(m, c) /\ Without(Minors, c.chain, b.chain, i)
<1> DEFINE s == b.chain
           t == c.chain
           end == m + b.pages * PageSize
<1>1. s \in Seq(Minors) /\ Len(s) \in Nat /\ i \in 1 .. Len(s) /\ t = Remove(s, i)
  <2>1. s \in Seq(Minors) /\ i \in 1 .. Len(s) /\ t = Remove(s, i)
    BY Zenon DEF Laid, DropAt
  <2> QED BY <2>1
<1>2. c.pages = b.pages /\ Len(s) # 1
  BY Zenon DEF DropAt
<1>3. /\ \A j \in 1 .. Len(s) : /\ m + Major <= s[j].at /\ After(s[j]) <= end
                                /\ s[j].req_size # 0 /\ Size(s[j].req_size) <= s[j].size
      /\ \A j, k \in 1 .. Len(s) : j < k => After(s[j]) <= s[k].at
  BY Zenon DEF Laid
<1>4. b.pages \in Nat \ {0} /\ Major <= b.pages * PageSize
  BY DEF Laid
<1> HIDE DEF s, t, end
<1>5. Without(Minors, t, s, i)
  BY <1>1, Removed, Zenon
<1>6. /\ t \in Seq(Minors) /\ Len(t) = Len(s) - 1
      /\ \A j \in 1 .. Len(t) : \E k \in 1 .. Len(s) \ {i} :
           t[j] = s[k] /\ k = IF j < i THEN j ELSE j + 1
  BY <1>1, <1>5, RemovedPlaces DEF Without, Places
<1>7. t # <<>>
  BY <1>1, <1>2, <1>6
<1>8. \A j \in 1 .. Len(t) : /\ m + Major <= t[j].at /\ After(t[j]) <= end
                             /\ t[j].req_size # 0 /\ Size(t[j].req_size) <= t[j].size
  BY <1>3, <1>6, Zenon
<1>9. ASSUME NEW j \in 1 .. Len(t), NEW k \in 1 .. Len(t), j < k
      PROVE  After(t[j]) <= t[k].at
  <2>1. PICK u \in 1 .. Len(s) \ {i} : t[j] = s[u] /\ u = IF j < i THEN j ELSE j + 1
    BY <1>6, Zenon
  <2>2. PICK v \in 1 .. Len(s) \ {i} : t[k] = s[v] /\ v = IF k < i THEN k ELSE k + 1
    BY <1>6
  <2>3. u < v
    BY <1>1, <1>6, <1>9, <2>1, <2>2
  <2> QED BY <1>3, <2>1, <2>2, <2>3, Zenon
<1>10. Counted(m, c)
  <2>1. s \in Seq(Minors) /\ i \in 1 .. Len(s) /\ Counted(m, b) /\ c.usage = b.usage - (s[i].size + Minor)
    BY <1>1, Zenon DEF Laid, DropAt, s
  <2>2. b.pages * PageSize \in Nat
    <3>1. b.pages \in Nat /\ PageSize \in Nat
      BY <1>4, Sizes
    <3> QED BY <3>1
  <2> QED BY <1>2, <1>5, <2>1, <2>2, DropCounted, Zenon DEF s, t
<1> QED BY <1>2, <1>4, <1>5, <1>6, <1>7, <1>8, <1>9, <1>10, Zenon DEF Laid, s, t, end

(* Major b becomes c: the block of its i-th minor gets a smaller size. *)
ShrinkAt(b, c, i, n) ==
  /\ n <= b.chain[i].req_size
  /\ c = [b EXCEPT !.chain[i].req_size = n]

(* The minor keeps its bytes (liballoc.c:660-664). *)
LEMMA ShrinkLaid ==
  ASSUME NEW m, NEW b \in Majors, NEW c, Laid(m, b),
         NEW i \in 1 .. Len(b.chain), NEW n \in Requests, ShrinkAt(b, c, i, n)
  PROVE  /\ Laid(m, c) /\ Len(c.chain) = Len(b.chain)
         /\ \A j \in 1 .. Len(b.chain) :
              /\ c.chain[j].at = b.chain[j].at
              /\ c.chain[j].req_size = IF j = i THEN n ELSE b.chain[j].req_size
         /\ c.pages = b.pages
<1> DEFINE s == b.chain
           t == c.chain
           x == [s[i] EXCEPT !.req_size = n]
           end == m + b.pages * PageSize
<1>1. s \in Seq(Minors) /\ Len(s) \in Nat /\ i \in 1 .. Len(s) /\ s[i] \in Minors
  <2>1. s \in Seq(Minors) /\ i \in 1 .. Len(s)
    BY Zenon DEF Laid
  <2>2. Len(s) \in Nat
    BY <2>1
  <2> QED BY <2>1, <2>2, ElementOfSeq, Zenon
<1>2. n \in Nat \ {0} /\ n <= s[i].req_size
  BY RequestSizes DEF ShrinkAt
<1>3. t = [s EXCEPT ![i] = x] /\ c.pages = b.pages /\ c.usage = b.usage
  BY Zenon DEF ShrinkAt, Majors
<1>4. /\ \A j \in 1 .. Len(s) : /\ m + Major <= s[j].at /\ After(s[j]) <= end
                                /\ s[j].req_size # 0 /\ Size(s[j].req_size) <= s[j].size
      /\ \A j, k \in 1 .. Len(s) : j < k => After(s[j]) <= s[k].at
  BY Zenon DEF Laid
<1>5. b.pages \in Nat \ {0} /\ Major <= b.pages * PageSize /\ s # <<>>
  BY <1>1 DEF Laid
<1>6. /\ x \in Minors /\ x.at = s[i].at /\ x.size = s[i].size /\ x.req_size = n
  BY <1>1, <1>2, Zenon DEF Minors
<1> HIDE DEF s, t, x, end
<1>7. t \in Seq(Minors) /\ Len(t) = Len(s) /\ t # <<>>
      /\ \A j \in 1 .. Len(s) : t[j] = IF j = i THEN x ELSE s[j]
  <2>1. t \in Seq(Minors) /\ Len(t) = Len(s)
        /\ \A j \in 1 .. Len(s) : t[j] = IF j = i THEN x ELSE s[j]
    BY <1>1, <1>3, <1>6, ExceptSeq
  <2> QED BY <1>1, <2>1
<1>8. Size(n) <= s[i].size
  <2>1. /\ s[i].req_size \in Nat /\ s[i].size \in Nat
        /\ s[i].req_size + Alignment + Info <= s[i].size
    BY <1>1, <1>4 DEF Minors, Size
  <2>2. Alignment \in Nat /\ Info \in Nat
    BY Sizes, Zenon
  <2>3. n \in Nat
    BY <1>2
  <2>4. \A a, z \in Nat : n <= a /\ a + Alignment + Info <= z => n + Alignment + Info <= z
    BY <2>2, <2>3
  <2> QED BY <1>2, <2>1, <2>4, Zenon DEF Size
<1>9. After(x) = After(s[i])
  BY <1>6, Zenon DEF After
<1>10. \A j \in 1 .. Len(t) :
         /\ t[j].at = s[j].at /\ After(t[j]) = After(s[j])
         /\ t[j].req_size = IF j = i THEN n ELSE s[j].req_size
         /\ t[j].req_size # 0 /\ Size(t[j].req_size) <= t[j].size
  <2> TAKE j \in 1 .. Len(t)
  <2>1. CASE j = i
    BY <1>2, <1>6, <1>7, <1>8, <1>9, <2>1, Zenon
  <2>2. CASE j # i
    BY <1>4, <1>7, <2>2, Zenon
  <2> QED BY <2>1, <2>2, Zenon
<1>11. Counted(m, c)
  <2>1. Counted(m, b)
    BY DEF Laid
  <2>2. Len(t) = Len(s)
        /\ \A j \in 1 .. Len(s) : t[j].at = s[j].at /\ After(t[j]) = After(s[j])
    BY <1>7, <1>10, Zenon
  <2>3. b.chain \in Seq(Minors) /\ Len(c.chain) = Len(b.chain)
        /\ \A j \in 1 .. Len(b.chain) :
             c.chain[j].at = b.chain[j].at /\ After(c.chain[j]) = After(b.chain[j])
    BY <1>1, <2>2, Zenon DEF s, t
  <2> QED BY <1>3, <2>1, <2>3, SameCounted, Zenon
<1> QED BY <1>3, <1>4, <1>5, <1>7, <1>10, <1>11, Zenon DEF Laid, s, t, end

-----------------------------------------------------------------------------
(* The inductive invariant.  The frames that are held are taken, in the    *)
(* heap's part of memory, and disjoint;                                    *)
FramesInv ==
  /\ \A r \in held : /\ r.n # 0 /\ KernelPages <= r.start /\ r.start + r.n <= NPages
                     /\ Frames!Span(r) \subseteq taken
  /\ \A r, s \in held : r # s => Frames!Span(r) \cap Frames!Span(s) = {}

(* a major is in the list once, has its layout, and its pages are held and *)
(* mapped;                                                                 *)
Held(m) == [start |-> Page(m), n |-> block[m].pages]
ListInv ==
  /\ \A i, j \in 1 .. Len(majors) : majors[i] = majors[j] => i = j
  /\ l_bestBet \in Elements(majors) \cup {NULL}
  /\ \A m \in Elements(majors) :
       Laid(m, block[m]) /\ Held(m) \in held /\ Frames!Span(Held(m)) \subseteq mapped

(* a malloc that is running knows where it is, and the pages of the major  *)
(* that it makes are held for it and mapped so far;                        *)
Visits == {"loop", "case1", "case2", "case5", "map_case1", "map_case5"}
NewPages == [start |-> Page(call.new), n |-> call.pages]
CallInv ==
  /\ lock = Nobody <=> call.pc = "none"
  /\ call.pc # "none" => call.req \in Requests
  /\ call.pc = "start" => majors # <<>>
  /\ call.pc \in Visits => call.maj \in Elements(majors)
  /\ Mapping =>
       /\ call.new \in Bases /\ call.new \notin Elements(majors)
       /\ call.pages = PagesFor(call.req) /\ NewPages \in held
       /\ call.done <= call.pages
       /\ \A p \in Page(call.new) .. Page(call.new) + call.done - 1 : p \in mapped
  /\ ~Mapping => call.done = 0
  /\ call.pc = "case2" =>
       /\ block[call.maj].chain = <<>> /\ block[call.maj].pages = PagesFor(call.req)

(* a realloc's old block is still there, and is its alone;                 *)
JobInv ==
  /\ \A c \in Callers : job[c].pc # "none" => job[c].old \in blocks /\ job[c].len \in Requests
  /\ \A c, d \in Callers :
       job[c].pc # "none" /\ job[d].pc # "none" /\ c # d => job[c].old # job[d].old

(* and every block has its minor.                                          *)
IsBlock(b, x) == b.ptr = Align(x.at) /\ b.len = x.req_size
BlockInv ==
  \A b \in blocks : \E m \in Elements(majors) : \E i \in 1 .. Len(block[m].chain) :
    IsBlock(b, block[m].chain[i])

Inv ==
  /\ TypeOK /\ PagingInv /\ FramesInv /\ ListInv /\ CallInv /\ JobInv /\ BlockInv

-----------------------------------------------------------------------------
(* What the invariant says of memory.  A major of the list is a base and   *)
(* ends inside memory; its pages are those that it holds.                  *)
LEMMA MajorProps ==
  ASSUME Inv, NEW m \in Elements(majors)
  PROVE  /\ m \in Bases /\ block[m] \in Majors
         /\ Laid(m, block[m]) /\ Held(m) \in held
         /\ m \in Nat /\ Page(m) \in Nat /\ m = Page(m) * PageSize /\ KernelPages <= Page(m)
         /\ block[m].pages \in Nat \ {0} /\ block[m].pages * PageSize \in Nat
         /\ Page(m) + block[m].pages <= NPages
         /\ Frames!Span(Held(m)) = Page(m) .. Page(m) + block[m].pages - 1
<1>1. m \in Bases
  <2>1. majors \in Seq(Bases)
    BY DEF Inv, TypeOK
  <2> QED BY <2>1, InList
<1>2. block[m] \in Majors
  BY <1>1, Zenon DEF Inv, TypeOK
<1>3. Laid(m, block[m]) /\ Held(m) \in held
  BY DEF Inv, ListInv
<1>4. m \in Nat /\ Page(m) \in Nat /\ m = Page(m) * PageSize /\ KernelPages <= Page(m)
  BY <1>1, BaseProps, Sizes
<1>5. block[m].pages \in Nat \ {0} /\ block[m].pages * PageSize \in Nat
  <2>1. block[m].pages \in Nat \ {0} /\ PageSize \in Nat
    BY <1>3, Sizes DEF Laid
  <2> QED BY <2>1
<1>6. Held(m).start = Page(m) /\ Held(m).n = block[m].pages
  BY Zenon DEF Held
<1>7. Page(m) + block[m].pages <= NPages
  BY <1>3, <1>6, Zenon DEF Inv, FramesInv
<1> QED BY <1>1, <1>2, <1>3, <1>4, <1>5, <1>6, <1>7 DEF Frames!Span

(* Two majors do not overlap. *)
LEMMA MajorsApart ==
  ASSUME Inv, NEW m \in Elements(majors), NEW o \in Elements(majors), m # o
  PROVE  m + block[m].pages * PageSize <= o \/ o + block[o].pages * PageSize <= m
<1> DEFINE p == Page(m)
           q == Page(o)
           u == block[m].pages
           v == block[o].pages
<1>1. /\ p \in Nat /\ q \in Nat /\ u \in Nat \ {0} /\ v \in Nat \ {0}
      /\ m = p * PageSize /\ o = q * PageSize /\ PageSize \in Nat
      /\ u * PageSize \in Nat /\ v * PageSize \in Nat
  BY MajorProps, Sizes, Zenon
<1>2. (p .. p + u - 1) \cap (q .. q + v - 1) = {}
  <2>1. Held(m) # Held(o)
    BY <1>1, Zenon DEF Held
  <2>2. Frames!Span(Held(m)) \cap Frames!Span(Held(o)) = {}
    BY <2>1, MajorProps, Zenon DEF Inv, FramesInv
  <2> QED BY <2>2, MajorProps, Zenon
<1> HIDE DEF p, q, u, v
<1>3. p + u <= q \/ q + v <= p
  <2>1. p \notin q .. q + v - 1 \/ p \notin p .. p + u - 1
    BY <1>2
  <2>2. q \notin p .. p + u - 1 \/ q \notin q .. q + v - 1
    BY <1>2, Zenon
  <2> QED BY <1>1, <2>1, <2>2
<1>4. CASE p + u <= q
  <2>1. (p + u) * PageSize <= q * PageSize
    BY <1>1, <1>4, TimesMonotonic
  <2>2. (p + u) * PageSize = p * PageSize + u * PageSize
    BY <1>1
  <2> QED BY <1>1, <2>1, <2>2 DEF u
<1>5. CASE q + v <= p
  <2>1. (q + v) * PageSize <= p * PageSize
    BY <1>1, <1>5, TimesMonotonic
  <2>2. (q + v) * PageSize = q * PageSize + v * PageSize
    BY <1>1
  <2> QED BY <1>1, <2>1, <2>2 DEF v
<1> QED BY <1>3, <1>4, <1>5

(* A block, with the word in front of it, is inside its minor, and the     *)
(* minor inside its major.                                                 *)
LEMMA MinorProps ==
  ASSUME Inv, NEW m \in Elements(majors), NEW i \in 1 .. Len(block[m].chain), NEW x,
         x = block[m].chain[i]
  PROVE  /\ x \in Minors /\ x.at \in Nat /\ x.size \in Nat /\ x.req_size \in Nat \ {0}
         /\ Align(x.at) \in Nat /\ Align(x.at) % Alignment = 0 /\ After(x) \in Nat
         /\ x.at + Minor <= Align(x.at) - Info
         /\ x.at < Align(x.at)
         /\ Align(x.at) + x.req_size <= After(x)
         /\ m + Major <= x.at /\ After(x) <= m + block[m].pages * PageSize
<1>1. Laid(m, block[m])
  BY MajorProps
<1>2. x \in Minors
  <2>1. block[m].chain \in Seq(Minors)  BY <1>1, Zenon DEF Laid
  <2>2. block[m].chain[i] \in Minors  BY <2>1, ElementOfSeq
  <2> QED BY <2>2, Zenon
<1>3. /\ m + Major <= x.at /\ After(x) <= m + block[m].pages * PageSize
      /\ x.req_size # 0 /\ Size(x.req_size) <= x.size
  BY <1>1, Zenon DEF Laid
<1>4. x.at \in Nat /\ x.size \in Nat /\ x.req_size \in Nat \ {0}
  BY <1>2, <1>3 DEF Minors
<1>5. /\ Align(x.at) \in Nat /\ Align(x.at) % Alignment = 0
      /\ x.at + Minor + Info <= Align(x.at) /\ Align(x.at) < x.at + Minor + Info + Alignment
  BY <1>4, AlignProps, Zenon
<1>6. Minor \in Nat \ {0} /\ Info \in Nat /\ Alignment \in Nat
  BY Sizes
<1>7. \A a, p, size, req \in Nat :
        a + Minor + Info <= p /\ p < a + Minor + Info + Alignment
        /\ req + Alignment + Info <= size =>
          /\ a + Minor + size \in Nat /\ a + Minor <= p - Info /\ a < p
          /\ p + req <= a + Minor + size
  BY <1>6
<1>8. x.req_size + Alignment + Info <= x.size
  BY <1>3 DEF Size
<1>9. /\ x.at + Minor + x.size \in Nat /\ x.at + Minor <= Align(x.at) - Info
      /\ x.at < Align(x.at) /\ Align(x.at) + x.req_size <= x.at + Minor + x.size
  <2>1. x.req_size \in Nat
    BY <1>4, Zenon
  <2> QED BY <1>4, <1>5, <1>7, <1>8, <2>1, Zenon
<1> QED BY <1>2, <1>3, <1>4, <1>5, <1>9, Zenon DEF After

(* Two minors do not overlap, of one major or of two. *)
LEMMA MinorsApart ==
  ASSUME Inv, NEW m \in Elements(majors), NEW o \in Elements(majors),
         NEW i \in 1 .. Len(block[m].chain), NEW j \in 1 .. Len(block[o].chain),
         m # o \/ i # j,
         NEW x, x = block[m].chain[i], NEW y, y = block[o].chain[j]
  PROVE  After(x) <= y.at \/ After(y) <= x.at
<1>1. CASE m = o
  <2>1. Laid(m, block[m])
    BY MajorProps, Zenon
  <2>2. i < j \/ j < i
    BY <1>1, <2>1, SMTT(40) DEF Laid
  <2> QED BY <1>1, <2>1, <2>2, Zenon DEF Laid
<1>2. CASE m # o
  <2>1. /\ After(x) \in Nat /\ After(y) \in Nat /\ x.at \in Nat /\ y.at \in Nat
        /\ m + Major <= x.at /\ After(x) <= m + block[m].pages * PageSize
        /\ o + Major <= y.at /\ After(y) <= o + block[o].pages * PageSize
    BY MinorProps, Zenon
  <2>2. m \in Nat /\ o \in Nat /\ block[m].pages * PageSize \in Nat
        /\ block[o].pages * PageSize \in Nat /\ Major \in Nat
    BY MajorProps, Sizes, Zenon
  <2>3. m + block[m].pages * PageSize <= o \/ o + block[o].pages * PageSize <= m
    BY <1>2, MajorsApart, Zenon
  <2>4. \A a, b, c, d \in Nat : a <= b /\ b <= c /\ c + Major <= d => a <= d
    BY <2>2
  <2>5. m + block[m].pages * PageSize \in Nat /\ o + block[o].pages * PageSize \in Nat
    <3>1. \A a, b \in Nat : a + b \in Nat
      OBVIOUS
    <3> QED BY <2>2, <3>1, Zenon
  <2> QED BY <2>1, <2>2, <2>3, <2>4, <2>5, ZenonT(40)
<1> QED BY <1>1, <1>2

(* So a pointer leads to one minor, *)
LEMMA PointerUnique ==
  ASSUME Inv, NEW m \in Elements(majors), NEW o \in Elements(majors),
         NEW i \in 1 .. Len(block[m].chain), NEW j \in 1 .. Len(block[o].chain),
         Align(block[m].chain[i].at) = Align(block[o].chain[j].at)
  PROVE  m = o /\ i = j
<1> SUFFICES ASSUME m # o \/ i # j PROVE FALSE
  OBVIOUS
<1> DEFINE x == block[m].chain[i]
           y == block[o].chain[j]
<1>1. Align(x.at) = Align(y.at)
  OBVIOUS
<1>2. /\ x.at \in Nat /\ x.at < Align(x.at) /\ Align(x.at) + x.req_size <= After(x)
      /\ x.req_size \in Nat \ {0} /\ Align(x.at) \in Nat /\ After(x) \in Nat
  BY MinorProps, Zenon
<1>3. /\ y.at \in Nat /\ y.at < Align(y.at) /\ Align(y.at) + y.req_size <= After(y)
      /\ y.req_size \in Nat \ {0} /\ Align(y.at) \in Nat /\ After(y) \in Nat
  BY MinorProps, Zenon
<1>4. After(x) <= y.at \/ After(y) <= x.at
  BY MinorsApart, Zenon
<1> HIDE DEF x, y
<1>5. \A p, n, e, a \in Nat : n # 0 /\ p + n <= e /\ a < p => ~(e <= a)
  OBVIOUS
<1> QED BY <1>1, <1>2, <1>3, <1>4, <1>5, Zenon

(* and the blocks are what HeapAllocator promises: aligned, in the heap's  *)
(* memory, and disjoint.                                                   *)
LEMMA BlockPromise ==
  ASSUME Inv
  PROVE  /\ \A b \in blocks : /\ b.ptr \in Nat /\ b.ptr % Alignment = 0 /\ b.len \in Nat \ {0}
                              /\ Promise!Bytes(b) \subseteq Memory /\ b.ptr \in Memory
         /\ \A b, c \in blocks : b # c => Promise!Bytes(b) \cap Promise!Bytes(c) = {}
<1>1. ASSUME NEW b \in blocks
      PROVE  /\ b.ptr \in Nat /\ b.ptr % Alignment = 0 /\ b.len \in Nat \ {0}
             /\ Promise!Bytes(b) \subseteq Memory /\ b.ptr \in Memory
  <2>1. PICK m \in Elements(majors) : \E i \in 1 .. Len(block[m].chain) :
               IsBlock(b, block[m].chain[i])
    BY Zenon DEF Inv, BlockInv
  <2>2. PICK i \in 1 .. Len(block[m].chain) : IsBlock(b, block[m].chain[i])
    BY <2>1
  <2> DEFINE x == block[m].chain[i]
             end == m + block[m].pages * PageSize
  <2>3. /\ b.ptr = Align(x.at) /\ b.len = x.req_size
        /\ Align(x.at) \in Nat /\ Align(x.at) % Alignment = 0 /\ x.at \in Nat
        /\ x.at < Align(x.at) /\ Align(x.at) + x.req_size <= After(x) /\ After(x) \in Nat
        /\ x.req_size \in Nat \ {0} /\ m + Major <= x.at /\ After(x) <= end
    BY <2>2, MinorProps, Zenon DEF IsBlock
  <2>4. /\ m \in Nat /\ Major \in Nat /\ m = Page(m) * PageSize /\ end \in Nat
        /\ KernelPages * PageSize <= m /\ KernelPages * PageSize \in Nat
        /\ end <= NPages * PageSize /\ NPages * PageSize \in Nat
    <3>1. /\ Page(m) \in Nat /\ block[m].pages \in Nat /\ m \in Nat /\ KernelPages <= Page(m)
          /\ Page(m) + block[m].pages <= NPages /\ m = Page(m) * PageSize
      BY MajorProps, Zenon
    <3>2. KernelPages * PageSize <= Page(m) * PageSize /\ KernelPages * PageSize \in Nat
      BY <3>1, Sizes, TimesMonotonic, Zenon
    <3>3. /\ (Page(m) + block[m].pages) * PageSize <= NPages * PageSize
          /\ NPages * PageSize \in Nat /\ (Page(m) + block[m].pages) * PageSize \in Nat
      <4>1. Page(m) + block[m].pages \in Nat /\ NPages \in Nat /\ PageSize \in Nat
        BY <3>1, Sizes, SMTT(20)
      <4> QED BY <3>1, <4>1, TimesMonotonic, Zenon
    <3>4. (Page(m) + block[m].pages) * PageSize = Page(m) * PageSize + block[m].pages * PageSize
      BY <3>1, Sizes
    <3> QED BY <3>1, <3>2, <3>3, <3>4, Sizes, Zenon
  <2> HIDE DEF x, end
  <2>5. b.ptr \in Nat /\ b.len \in Nat \ {0} /\ b.ptr % Alignment = 0
    BY <2>3, Zenon
  <2>6. KernelPages * PageSize <= b.ptr /\ b.ptr + b.len <= NPages * PageSize
    BY <2>3, <2>4
  <2>7. \A p, n, lo, hi \in Nat : n # 0 /\ lo <= p /\ p + n <= hi =>
          (p .. p + n - 1) \subseteq (lo .. hi - 1) /\ p \in lo .. hi - 1
    OBVIOUS
  <2>8. (b.ptr .. b.ptr + b.len - 1) \subseteq Memory /\ b.ptr \in Memory
    BY <2>4, <2>5, <2>6, <2>7 DEF Memory
  <2> QED BY <2>5, <2>8, Zenon DEF Promise!Bytes
<1>2. ASSUME NEW b \in blocks, NEW c \in blocks, b # c
      PROVE  Promise!Bytes(b) \cap Promise!Bytes(c) = {}
  <2>1. PICK m \in Elements(majors) : \E i \in 1 .. Len(block[m].chain) :
               IsBlock(b, block[m].chain[i])
    BY Zenon DEF Inv, BlockInv
  <2>2. PICK i \in 1 .. Len(block[m].chain) : IsBlock(b, block[m].chain[i])
    BY <2>1, Zenon
  <2>3. PICK o \in Elements(majors) : \E j \in 1 .. Len(block[o].chain) :
               IsBlock(c, block[o].chain[j])
    BY Zenon DEF Inv, BlockInv
  <2>4. PICK j \in 1 .. Len(block[o].chain) : IsBlock(c, block[o].chain[j])
    BY <2>3, Zenon
  <2> DEFINE x == block[m].chain[i]
             y == block[o].chain[j]
  <2>5. m # o \/ i # j
    <3>1. b \in Blocks /\ c \in Blocks
      BY Zenon DEF Inv, TypeOK
    <3> QED BY <1>2, <2>2, <2>4, <3>1 DEF IsBlock, Blocks
  <2>6. After(x) <= y.at \/ After(y) <= x.at
    BY <2>5, MinorsApart
  <2>7. /\ b.ptr = Align(x.at) /\ b.len = x.req_size /\ b.ptr \in Nat /\ b.len \in Nat
        /\ x.at \in Nat /\ x.at < b.ptr /\ b.ptr + b.len <= After(x) /\ After(x) \in Nat
    BY <2>2, MinorProps, Zenon DEF IsBlock
  <2>8. /\ c.ptr = Align(y.at) /\ c.len = y.req_size /\ c.ptr \in Nat /\ c.len \in Nat
        /\ y.at \in Nat /\ y.at < c.ptr /\ c.ptr + c.len <= After(y) /\ After(y) \in Nat
    BY <2>4, MinorProps, Zenon DEF IsBlock
  <2> HIDE DEF x, y
  <2>9. \A p, n, e, a, q, k \in Nat : p + n <= e /\ e <= a /\ a < q =>
          (p .. p + n - 1) \cap (q .. q + k - 1) = {}
    OBVIOUS
  <2>10. \A S, T : S \cap T = {} => T \cap S = {}
    OBVIOUS
  <2>11. (b.ptr .. b.ptr + b.len - 1) \cap (c.ptr .. c.ptr + c.len - 1) = {}
    <3>1. CASE After(x) <= y.at
      BY <2>7, <2>8, <2>9, <3>1
    <3>2. CASE After(y) <= x.at
      BY <2>7, <2>8, <2>9, <2>10, <3>2
    <3> QED BY <2>6, <3>1, <3>2, Zenon
  <2> QED BY <2>11, Zenon DEF Promise!Bytes
<1> QED BY <1>1, <1>2

-----------------------------------------------------------------------------
(* Steps.  A conjunct of the invariant is kept by a step that leaves what  *)
(* it is about alone; for the list, more pages may get mapped.             *)
LEMMA Kept ==
  ASSUME Inv
  PROVE  /\ UNCHANGED pagingVars => PagingInv'
         /\ held' = held /\ taken \subseteq taken' => FramesInv'
         /\ UNCHANGED <<held, majors, block>> /\ mapped \subseteq mapped'
              /\ l_bestBet' \in Elements(majors) \cup {NULL} => ListInv'
         /\ UNCHANGED <<lock, call, majors, block, held>> /\ mapped \subseteq mapped' => CallInv'
         /\ UNCHANGED <<job, blocks>> => JobInv'
         /\ UNCHANGED <<blocks, majors, block>> => BlockInv'
<1>1. UNCHANGED pagingVars => PagingInv'
  BY Zenon DEF Inv, PagingInv, pagingVars, Leads, Page, Directory
<1>2. held' = held /\ taken \subseteq taken' => FramesInv'
  BY DEF Inv, FramesInv, Frames!Span
<1>3. UNCHANGED <<held, majors, block>> /\ mapped \subseteq mapped'
        /\ l_bestBet' \in Elements(majors) \cup {NULL} => ListInv'
  BY Zenon DEF Inv, ListInv, Held, Frames!Span
<1>4. UNCHANGED <<lock, call, majors, block, held>> /\ mapped \subseteq mapped' => CallInv'
  BY Zenon DEF Inv, CallInv, Mapping, NewPages, Visits
<1>5. UNCHANGED <<job, blocks>> => JobInv'
  BY Zenon DEF Inv, JobInv
<1>6. UNCHANGED <<blocks, majors, block>> => BlockInv'
  BY DEF Inv, BlockInv, IsBlock
<1> QED BY <1>1, <1>2, <1>3, <1>4, <1>5, <1>6

(* Nothing has happened yet. *)
LEMMA InitInv ==
  ASSUME Init
  PROVE  Inv
<1>1. TypeOK
  <2>1. block \in [Bases -> Majors]
    BY DEF Init, Empty, Majors
  <2>2. job \in [Callers -> Jobs]
    BY Zenon DEF Init, NoJob, NoBlock, Blocks, NULL, Jobs
  <2>3. call \in Calls
    BY DEF Init, NoCall, PCs, Calls
  <2>4. heap_cur \in Nat
    BY PagingAssumption DEF Init, PagingInit
  <2>5. held \subseteq [start : Nat, n : Nat] /\ taken \subseteq Nat
    BY Sizes DEF Init, Frames!Init
  <2>6. majors \in Seq(Bases) /\ blocks \subseteq Blocks /\ chunks \in Seq(Nat)
    BY HeapAssumption DEF Init
  <2> QED BY <2>1, <2>2, <2>3, <2>4, <2>5, <2>6 DEF Init, TypeOK
<1>2. PagingInv
  BY PagingInitInv DEF Init
<1>3. majors = <<>> /\ Elements(majors) = {} /\ held = {} /\ blocks = {} /\ l_bestBet = NULL
  BY DEF Init, Frames!Init, Elements
<1>4. FramesInv /\ ListInv /\ BlockInv
  <2>1. FramesInv
    BY <1>3 DEF FramesInv
  <2>2. ListInv
    BY <1>3 DEF ListInv
  <2>3. BlockInv
    BY <1>3, Zenon DEF BlockInv
  <2> QED BY <2>1, <2>2, <2>3
<1>5. CallInv
  BY Zenon DEF Init, NoCall, CallInv, Visits, Mapping
<1>6. JobInv
  BY Zenon DEF Init, JobInv, NoJob
<1> QED BY <1>1, <1>2, <1>4, <1>5, <1>6, Zenon DEF Inv

(* The boot maps pages, takes memory from kmalloc and sets frames aside.   *)
LEMMA BootInv ==
  ASSUME Inv, BootMap \/ BootAlloc \/ \E a \in Devices : BootDevice(a)
  PROVE  Inv'
<1>1. /\ PagingInv' /\ mapped \subseteq mapped' /\ taken \subseteq taken' /\ taken' \subseteq Nat
      /\ UNCHANGED <<held, heap, lock, call, job, blocks>> /\ chunks' \in Seq(Nat)
  <2>1. PagingInv /\ taken \subseteq Nat /\ chunks \in Seq(Nat)
    BY DEF Inv, TypeOK
  <2>2. CASE BootMap
    <3>1. PICK r \in 0 .. KernelRegions - 1 : MapTable(r)
      BY <2>2 DEF BootMap, paging_init
    <3>2. r \in Directory
      BY PagingAssumption DEF Directory
    <3>3. PagingInv' /\ mapped \subseteq mapped'
      BY <2>1, <3>1, <3>2, MapTableInv, Zenon DEF MapTable
    <3> QED BY <2>1, <2>2, <3>3, Zenon DEF BootMap, frames
  <2>3. CASE BootAlloc
    <3>1. Kmalloc(Head(chunks)) /\ chunks' = Tail(chunks) /\ chunks # <<>>
      BY <2>3 DEF BootAlloc
    <3>2. Head(chunks) \in Nat /\ Tail(chunks) \in Seq(Nat)
      BY <2>1, <3>1
    <3>3. PagingInv' /\ mapped' = mapped
      BY <2>1, <3>1, <3>2, KmallocInv, Zenon DEF Kmalloc
    <3> QED BY <2>1, <2>3, <3>1, <3>2, <3>3 DEF BootAlloc, frames
  <2>4. CASE \E a \in Devices : BootDevice(a)
    <3>1. PICK a \in Devices : BootDevice(a)
      BY <2>4, Zenon
    <3>2. a \in Addresses /\ MapPage(a) /\ Frames!Reserve([start |-> Page(a), n |-> 1])
      BY <3>1, HeapAssumption, Zenon DEF BootDevice
    <3>3. PagingInv' /\ mapped \subseteq mapped'
      BY <2>1, <3>2, MapPageInv
    <3>4. a \in Nat /\ Page(a) \in Nat
      <4>1. a \in Nat
        BY <3>2, PagingAssumption DEF Addresses
      <4> QED BY <4>1, DivMod, Sizes, Zenon DEF Page
    <3>5. taken \subseteq taken' /\ taken' \subseteq Nat /\ held' = held
      <4>1. Frames!Span([start |-> Page(a), n |-> 1]) \subseteq Nat
        BY <3>4 DEF Frames!Span
      <4> QED BY <2>1, <3>2, <4>1, Zenon DEF Frames!Reserve
    <3> QED BY <2>1, <3>1, <3>3, <3>5 DEF BootDevice
  <2> QED BY <2>2, <2>3, <2>4
<1>2. TypeOK'
  BY <1>1, Zenon DEF Inv, TypeOK, PagingInv, heap
<1>3. FramesInv' /\ ListInv' /\ CallInv' /\ JobInv' /\ BlockInv'
  <2>1. l_bestBet' \in Elements(majors) \cup {NULL}
    BY <1>1 DEF Inv, ListInv, heap
  <2> QED BY <1>1, <2>1, Kept, Zenon DEF heap
<1> QED BY <1>1, <1>2, <1>3, Zenon DEF Inv

(* The lock is given back: the caller's job is the same, or goes on. *)
LEMMA LeaveInv ==
  ASSUME Inv, lock # Nobody, Leave, blocks \subseteq blocks'
  PROVE  /\ CallInv' /\ JobInv'
         /\ lock' \in Callers \cup {Nobody} /\ call' \in Calls /\ job' \in [Callers -> Jobs]
<1>1. lock \in Callers /\ job \in [Callers -> Jobs]
  BY DEF Inv, TypeOK
<1>2. lock' = Nobody /\ call' = NoCall
  BY DEF Leave
<1>3. CallInv' /\ lock' \in Callers \cup {Nobody}
  BY <1>2, Zenon DEF CallInv, NoCall, Visits, Mapping
<1>4. call' \in Calls
  BY <1>2 DEF Calls, NoCall, PCs
<1>5. job' = [job EXCEPT ![lock] = IF @.pc = "malloc" THEN [@ EXCEPT !.pc = "free"] ELSE @]
  BY DEF Leave
<1>6. \A c \in Callers : /\ job'[c] \in Jobs /\ job'[c].old = job[c].old
                         /\ job'[c].len = job[c].len
                         /\ job'[c].pc # "none" => job[c].pc # "none"
  BY <1>1, <1>5 DEF Jobs
<1>7. job' \in [Callers -> Jobs]
  BY <1>1, <1>5, <1>6
<1>8. JobInv'
  BY <1>6, Zenon DEF Inv, JobInv
<1> QED BY <1>3, <1>4, <1>7, <1>8

(* malloc enters *)
LEMMA EnterInv ==
  ASSUME Inv, NEW c \in Callers, NEW n \in Requests, Enter(c, n),
         UNCHANGED <<pagingVars, frames, heap, job, blocks, chunks>>
  PROVE  Inv'
<1>1. /\ lock' = c /\ c # Nobody
      /\ call' = [NoCall EXCEPT !.pc = IF majors = <<>> THEN "root" ELSE "start", !.req = n]
  BY HeapAssumption DEF Enter
<1>2. n \in Nat
  BY RequestSizes
<1>3. /\ call' \in Calls /\ call'.pc = IF majors = <<>> THEN "root" ELSE "start"
      /\ call'.req = n /\ call'.done = 0
  <2> DEFINE pc == IF majors = <<>> THEN "root" ELSE "start"
  <2>1. pc \in PCs
    BY DEF PCs
  <2>2. call' = [NoCall EXCEPT !.pc = pc, !.req = n] /\ NoCall \in Calls
        /\ NoCall.done = 0
    BY <1>1 DEF NoCall, Calls, PCs
  <2> HIDE DEF pc
  <2>3. call' \in Calls /\ call'.pc = pc /\ call'.req = n /\ call'.done = 0
    BY <1>2, <2>1, <2>2, Zenon DEF Calls
  <2> QED BY <2>3 DEF pc
<1>4. CallInv'
  <2>1. majors' = majors /\ lock' # Nobody
    BY <1>1 DEF heap
  <2>2. call'.pc \in {"root", "start"} /\ (call'.pc = "start" => majors # <<>>)
    BY <1>3, Zenon
  <2> QED BY <1>3, <2>1, <2>2, Zenon DEF CallInv, Visits, Mapping
<1>5. PagingInv' /\ FramesInv' /\ ListInv' /\ JobInv' /\ BlockInv'
  <2>1. l_bestBet' \in Elements(majors) \cup {NULL}
    BY DEF Inv, ListInv, heap
  <2> QED BY <2>1, Kept, Zenon DEF heap, frames, pagingVars
<1>6. TypeOK'
  BY <1>1, <1>3 DEF Inv, TypeOK, heap, frames, pagingVars
<1> QED BY <1>4, <1>5, <1>6, Zenon DEF Inv

(* The majors that the search goes to are in the list. *)
LEMMA ListWalk ==
  ASSUME Inv
  PROVE  /\ majors # <<>> => Head(majors) \in Elements(majors)
         /\ \A m \in Elements(majors) : ~IsLast(m) => NextMajor(m) \in Elements(majors)
         /\ \A m \in Elements(majors) : m \in Bases
<1>1. majors \in Seq(Bases)
  BY DEF Inv, TypeOK
<1>2. majors # <<>> => Head(majors) \in Elements(majors)
  <2>1. majors # <<>> => 1 \in 1 .. Len(majors) /\ Head(majors) = majors[1]
    BY <1>1
  <2> QED BY <1>1, <2>1, InList
<1>3. ASSUME NEW m \in Elements(majors), ~IsLast(m)
      PROVE  NextMajor(m) \in Elements(majors)
  <2>1. \E i \in 1 .. Len(majors) : majors[i] = m
    BY <1>1, InList
  <2>2. Position(m) \in 1 .. Len(majors) /\ majors[Position(m)] = m
    BY <2>1 DEF Position
  <2>3. Position(m) + 1 \in 1 .. Len(majors)
    BY <1>1, <1>3, <2>2 DEF IsLast
  <2> QED BY <1>1, <2>3, InList DEF NextMajor
<1> QED BY <1>1, <1>2, <1>3, InList

(* A step that only moves the search on, or notices a better bet *)
LEMMA SearchInv ==
  ASSUME Inv, UNCHANGED <<pagingVars, frames, majors, block, l_inuse, l_allocated, lock, job,
                          blocks, chunks>>,
         call' \in Calls, CallInv', l_bestBet' \in Elements(majors) \cup {NULL}
  PROVE  Inv'
<1>1. PagingInv' /\ FramesInv' /\ ListInv' /\ JobInv' /\ BlockInv'
  BY Kept DEF frames, pagingVars
<1>2. l_bestBet' \in Bases \cup {NULL}
  BY ListWalk, Zenon
<1>3. TypeOK'
  BY <1>2 DEF Inv, TypeOK, frames, pagingVars
<1> QED BY <1>1, <1>3, Zenon DEF Inv

(* The search starts: at the best bet, or at the head of the list. *)
LEMMA StartInv ==
  ASSUME Inv, Start
  PROVE  Inv'
<1>1. call.pc = "start" /\ call \in Calls /\ majors # <<>> /\ CallInv
  BY DEF Start, Inv, TypeOK, CallInv
<1>2. l_bestBet \in Elements(majors) \cup {NULL}
  BY DEF Inv, ListInv
<1>3. PICK size \in Int, started \in BOOLEAN, m \in Elements(majors) :
        call' = [call EXCEPT !.pc = "loop", !.bestSize = size, !.startedBet = started, !.maj = m]
  <2> DEFINE bet == l_bestBet # NULL
             size == IF bet THEN Free(l_bestBet) ELSE 0
             started == bet /\ size > Need(call.req)
             m == IF started THEN l_bestBet ELSE Head(majors)
  <2>1. m \in Elements(majors)
    BY <1>1, <1>2, ListWalk
  <2>2. size \in Int
    <3>1. CASE bet
      <4>1. block[l_bestBet].usage \in Int /\ block[l_bestBet].pages * PageSize \in Nat
        BY <1>2, <3>1, MajorProps, Zenon DEF Majors
      <4> QED BY <3>1, <4>1 DEF Free
    <3> QED BY <3>1
  <2>3. started \in BOOLEAN
    OBVIOUS
  <2>4. call' = [call EXCEPT !.pc = "loop", !.bestSize = size, !.startedBet = started, !.maj = m]
    BY DEF Start
  <2> QED BY <2>1, <2>2, <2>3, <2>4, Zenon
<1>4. /\ call' \in Calls /\ call'.pc = "loop" /\ call'.maj = m /\ call'.req = call.req
      /\ call'.done = call.done
  <2>1. m \in Bases
    BY ListWalk
  <2> QED BY <1>1, <1>3, <2>1, Zenon DEF Calls, PCs
<1>5. /\ UNCHANGED <<pagingVars, frames, majors, block, l_inuse, l_allocated, lock, job,
                     blocks, chunks>>
      /\ l_bestBet' = l_bestBet
  BY DEF Start, heap
<1>6. CallInv'
  <2>1. lock # Nobody /\ call.req \in Requests /\ call.done = 0
    BY <1>1 DEF CallInv, Mapping
  <2> QED BY <1>4, <1>5, <2>1, Zenon DEF CallInv, Visits, Mapping
<1> QED BY <1>2, <1>4, <1>5, <1>6, SearchInv, Zenon

(* The best bet stays in the list. *)
LEMMA NoticeBet ==
  ASSUME Inv, call.maj \in Elements(majors), Notice(call.maj)
  PROVE  l_bestBet' \in Elements(majors) \cup {NULL}
BY Zenon DEF Inv, ListInv, Notice

(* The search goes on: to a major of the list, or to a new one. *)
LEMMA GoOnInv ==
  ASSUME Inv, GoOn
  PROVE  Inv'
<1> DEFINE m == call.maj
<1>1. call.pc = "loop" /\ call \in Calls /\ m \in Elements(majors) /\ lock # Nobody
      /\ call.req \in Requests /\ call.done = 0
  BY Zenon DEF GoOn, Inv, TypeOK, CallInv, Visits, Mapping
<1>2. majors # <<>>
  <2>1. majors \in Seq(Bases)
    BY Zenon DEF Inv, TypeOK
  <2> QED BY <1>1, <2>1, InList
<1>3. Noticed(m) \in Int
  <2>1. block[m].usage \in Int /\ block[m].pages * PageSize \in Nat /\ call.bestSize \in Int
    BY <1>1, MajorProps, Zenon DEF Majors, Calls
  <2> QED BY <2>1 DEF Noticed, Free
<1>4. \A pc \in {"loop", "case1", "case5"}, o \in Elements(majors) :
        /\ To(pc, o) \in Calls /\ To(pc, o).pc = pc /\ To(pc, o).maj = o
        /\ To(pc, o).req = call.req /\ To(pc, o).done = 0
  <2> TAKE pc \in {"loop", "case1", "case5"}, o \in Elements(majors)
  <2>1. o \in Bases
    BY ListWalk
  <2> HIDE DEF m
  <2>2. To(pc, o) = [call EXCEPT !.pc = pc, !.maj = o, !.bestSize = Noticed(m)]
    BY DEF To, m
  <2> QED BY <1>1, <1>3, <2>1, <2>2, Zenon DEF Calls, PCs
<1>5. /\ call' \in Calls /\ call'.pc \in {"loop", "case1", "case5"}
      /\ call'.maj \in Elements(majors) /\ call'.req = call.req /\ call'.done = 0
  <2>1. call' = Onward(m)
    BY Zenon DEF GoOn
  <2>2. CASE ~IsLast(m)
    <3>1. call' = To("loop", NextMajor(m))
      BY <2>1, <2>2 DEF Onward
    <3> QED BY <1>1, <1>4, <2>2, <3>1, ListWalk
  <2>3. CASE IsLast(m) /\ call.startedBet
    <3>1. call' = [To("loop", Head(majors)) EXCEPT !.startedBet = FALSE]
      BY <2>1, <2>3 DEF Onward
    <3>2. Head(majors) \in Elements(majors)
      BY <1>2, ListWalk, Zenon
    <3> DEFINE t == To("loop", Head(majors))
    <3>3. t \in Calls /\ t.pc = "loop" /\ t.maj = Head(majors) /\ t.req = call.req
          /\ t.done = 0
      BY <1>4, <3>2, Zenon
    <3> HIDE DEF t
    <3> QED BY <3>1, <3>2, <3>3, Zenon DEF t, Calls
  <2>4. CASE IsLast(m) /\ ~call.startedBet
    <3>1. call' = To(IF Free(m) < Need(call.req) THEN "case1" ELSE "case5", m)
      BY <2>1, <2>4, Zenon DEF Onward
    <3> QED BY <1>1, <1>4, <3>1
  <2> QED BY <2>2, <2>3, <2>4, Zenon
<1>6. UNCHANGED <<pagingVars, frames, majors, block, l_inuse, l_allocated, lock, job,
                  blocks, chunks>>
  BY DEF GoOn
<1>7. CallInv'
  BY <1>1, <1>5, <1>6, Zenon DEF CallInv, Visits, Mapping
<1>8. l_bestBet' \in Elements(majors) \cup {NULL}
  BY <1>1, NoticeBet DEF GoOn
<1> QED BY <1>5, <1>6, <1>7, <1>8, SearchInv

(* There are no pages for a new major: malloc will fail. *)
LEMMA OutOfPagesInv ==
  ASSUME Inv, OutOfPages
  PROVE  Inv'
<1>1. /\ call.pc \in {"root", "case1", "case5"} /\ call \in Calls /\ lock # Nobody
      /\ call.req \in Requests /\ call' = [call EXCEPT !.pc = "fail"] /\ call.done = 0
  BY DEF OutOfPages, Inv, TypeOK, CallInv, Mapping
<1>2. call' \in Calls /\ call'.pc = "fail" /\ call'.req = call.req /\ call'.done = 0
  BY <1>1 DEF Calls, PCs
<1>3. /\ UNCHANGED <<pagingVars, frames, majors, block, l_inuse, l_allocated, lock, job,
                     blocks, chunks>>
      /\ l_bestBet' = l_bestBet
  BY DEF OutOfPages, heap
<1>4. CallInv'
  BY <1>1, <1>2, <1>3, Zenon DEF CallInv, Visits, Mapping
<1>5. l_bestBet' \in Elements(majors) \cup {NULL}
  BY <1>3, Zenon DEF Inv, ListInv
<1> QED BY <1>2, <1>3, <1>4, <1>5, SearchInv, Zenon

(* A malloc that has failed leaves the heap as it is. *)
LEMMA FailInv ==
  ASSUME Inv, Fail
  PROVE  Inv'
<1>1. /\ lock # Nobody /\ Leave /\ UNCHANGED <<pagingVars, frames, heap, blocks, chunks>>
  BY Zenon DEF Fail, Inv, CallInv
<1>2. /\ CallInv' /\ JobInv'
      /\ lock' \in Callers \cup {Nobody} /\ call' \in Calls /\ job' \in [Callers -> Jobs]
  BY <1>1, LeaveInv, Zenon
<1>3. PagingInv' /\ FramesInv' /\ ListInv' /\ BlockInv'
  <2>1. l_bestBet' \in Elements(majors) \cup {NULL}
    BY <1>1, Zenon DEF Inv, ListInv, heap
  <2> QED BY <1>1, <2>1, Kept, Zenon DEF heap, frames, pagingVars
<1>4. TypeOK'
  BY <1>1, <1>2, Zenon DEF Inv, TypeOK, heap, frames, pagingVars
<1> QED BY <1>2, <1>3, <1>4 DEF Inv

(* Pages are taken for a new major: they are nobody else's. *)
LEMMA GrowInv ==
  ASSUME Inv, Grow
  PROVE  Inv'
<1> DEFINE n == PagesFor(call.req)
<1>1. /\ call.pc \in {"root", "case1", "case5"} /\ call \in Calls /\ lock # Nobody
      /\ call.req \in Requests /\ call.done = 0 /\ held \subseteq [start : Nat, n : Nat]
      /\ taken \subseteq Nat
  BY DEF Grow, Inv, TypeOK, CallInv, Mapping
<1>2. n \in Nat \ {0}
  BY <1>1, NewMajorHasRoom
<1>3. PICK p \in FreeStarts(n) :
        /\ Frames!Give(n)
        /\ [start |-> p, n |-> n] \in held' \ held
        /\ call' = [call EXCEPT !.new = p * PageSize, !.pages = n,
             !.pc = CASE @ = "root" -> "map_root"
                      [] @ = "case1" -> "map_case1"
                      [] @ = "case5" -> "map_case5"]
  BY Zenon DEF Grow
<1>4. /\ UNCHANGED <<pagingVars, heap, lock, job, blocks, chunks>>
  BY DEF Grow
<1> HIDE DEF n
<1> DEFINE r == [start |-> p, n |-> n]
<1>5. /\ p \in Nat /\ KernelPages <= p /\ p + n <= NPages
      /\ p \in KernelPages .. NPages - 1
  BY <1>2, Sizes DEF FreeStarts
<1>6. held' = held \cup {r} /\ taken' = taken \cup Frames!Span(r)
      /\ Frames!Span(r) \cap taken = {}
  <2>1. PICK q \in 0 .. NPages :
          LET s == [start |-> q, n |-> n] IN
          /\ Frames!Span(s) \cap taken = {}
          /\ held' = held \cup {s} /\ taken' = taken \cup Frames!Span(s)
    BY <1>3 DEF Frames!Give
  <2>2. [start |-> q, n |-> n] = r
    BY <1>3, <2>1, Zenon
  <2> QED BY <2>1, <2>2
<1>7. r.start = p /\ r.n = n /\ Frames!Span(r) = p .. p + n - 1 /\ r \in [start : Nat, n : Nat]
  BY <1>2, <1>5, Zenon DEF Frames!Span
<1> HIDE DEF r
<1>8. FramesInv'
  <2>1. \A s \in held : Frames!Span(s) \subseteq taken
    BY Zenon DEF Inv, FramesInv
  <2>2. \A s \in held' : /\ s.n # 0 /\ KernelPages <= s.start /\ s.start + s.n <= NPages
                         /\ Frames!Span(s) \subseteq taken'
    BY <1>2, <1>5, <1>6, <1>7, Zenon DEF Inv, FramesInv
  <2>3. \A s, t \in held' : s # t => Frames!Span(s) \cap Frames!Span(t) = {}
    <3>1. \A s, t \in held : s # t => Frames!Span(s) \cap Frames!Span(t) = {}
      BY DEF Inv, FramesInv
    <3>2. \A s \in held : Frames!Span(s) \cap Frames!Span(r) = {}
                          /\ Frames!Span(r) \cap Frames!Span(s) = {}
      BY <1>6, <2>1, Zenon
    <3> QED BY <1>6, <3>1, <3>2
  <2> QED BY <2>2, <2>3 DEF FramesInv, Frames!Span
<1> DEFINE new == p * PageSize
<1>9. new \in Bases /\ Page(new) = p
  <2>1. new \in Bases
    BY <1>5 DEF Bases
  <2>2. p * PageSize + 0 = p * PageSize /\ 0 \in 0 .. PageSize - 1
    BY <1>5, Sizes
  <2> QED BY <1>5, <2>1, <2>2, DivModUnique, Sizes DEF Page
<1> HIDE DEF new
<1>10. new \notin Elements(majors)
  <2> SUFFICES ASSUME new \in Elements(majors) PROVE FALSE
    OBVIOUS
  <2>1. /\ Held(new) \in held /\ block[new].pages \in Nat \ {0}
        /\ Frames!Span(Held(new)) = p .. p + block[new].pages - 1
    BY <1>9, MajorProps, Zenon
  <2>2. p \in Frames!Span(Held(new)) /\ p \in Frames!Span(r)
    BY <1>2, <1>5, <1>7, <2>1
  <2>3. Frames!Span(Held(new)) \subseteq taken
    BY <2>1, Zenon DEF Inv, FramesInv
  <2> QED BY <1>6, <2>2, <2>3
<1>11. /\ call' \in Calls /\ call'.new = new /\ call'.pages = n /\ call'.req = call.req
       /\ call'.done = 0 /\ call'.maj = call.maj
       /\ call'.pc \in {"map_root", "map_case1", "map_case5"}
       /\ call'.pc # "map_root" => call.pc \in {"case1", "case5"}
  <2> DEFINE pc == CASE call.pc = "root" -> "map_root"
                     [] call.pc = "case1" -> "map_case1"
                     [] call.pc = "case5" -> "map_case5"
  <2>1. pc \in {"map_root", "map_case1", "map_case5"} /\ pc \in PCs
        /\ (pc # "map_root" => call.pc \in {"case1", "case5"})
    BY <1>1 DEF PCs
  <2>2. call' = [call EXCEPT !.new = new, !.pages = n, !.pc = pc]
    BY <1>1, <1>3 DEF new
  <2> HIDE DEF pc
  <2> QED BY <1>1, <1>2, <1>9, <2>1, <2>2, Zenon DEF Calls
<1>12. CallInv'
  <2>1. call'.pc # "map_root" => call.maj \in Elements(majors)
    BY <1>11, Zenon DEF Inv, CallInv, Visits
  <2>2. NewPages' = r /\ r \in held'
    BY <1>6, <1>9, <1>11, Zenon DEF NewPages, r
  <2>3. \A q \in Page(call'.new) .. Page(call'.new) + call'.done - 1 : q \in mapped'
    BY <1>5, <1>9, <1>11
  <2>4. majors' = majors /\ lock' = lock
    BY <1>4, Zenon DEF heap
  <2>5. call'.pages = PagesFor(call'.req) /\ call'.done <= call'.pages
    BY <1>2, <1>11, SMTT(40) DEF n
  <2> QED BY <1>1, <1>9, <1>10, <1>11, <2>1, <2>2, <2>3, <2>4, <2>5, Zenon DEF CallInv, Visits, Mapping
<1>13. ListInv'
  BY <1>4, <1>6, Zenon DEF Inv, ListInv, heap, pagingVars, Held, Frames!Span
<1>14. PagingInv' /\ JobInv' /\ BlockInv'
  BY <1>4, Kept DEF heap
<1>15. TypeOK'
  <2>1. held' \subseteq [start : Nat, n : Nat] /\ taken' \subseteq Nat
    BY <1>1, <1>2, <1>5, <1>6, <1>7
  <2> QED BY <1>4, <1>11, <2>1, Zenon DEF Inv, TypeOK, heap, pagingVars
<1> QED BY <1>8, <1>12, <1>13, <1>14, <1>15 DEF Inv
=============================================================================
