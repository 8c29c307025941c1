----------------------------- MODULE TalkProofs -----------------------------
(***************************************************************************)
(* Of the talk with the control plane (Talk.tla), for any log requests,    *)
(* ages of the control plane, files and cap: what is sent of a log is its  *)
(* end, a log request is answered once, and a refused report is not lost.  *)
(***************************************************************************)
EXTENDS Talk, FiniteSetTheorems, SequenceTheorems, WellFoundedInduction, TLAPS

USE TalkConstants

(***************************************************************************)
(* Facts about data.                                                       *)
(***************************************************************************)

LEMMA LeastNatural ==
    ASSUME NEW T, T \subseteq Nat, T # {}
    PROVE  \E n \in T : \A m \in T : n <= m
<1>1. IsWellFoundedOn(OpToRel(<, Nat), Nat)
  BY NatLessThanWellFounded
<1>2. PICK n \in T : \A m \in T : ~(<<m, n>> \in OpToRel(<, Nat))
  <2> HIDE DEF OpToRel
  <2> QED
    BY ONLY <1>1, WFMin, T \subseteq Nat, T # {}
<1>3. \A m \in T : ~(m < n)
  BY <1>2, Zenon DEF OpToRel
<1> QED
  BY <1>3

(* Induction up to a bound, the claim being membership in a set. *)
LEMMA UpTo ==
    ASSUME NEW n \in Nat, NEW S, 0 \in S, \A k \in 0..n : k \in S /\ k # n => k + 1 \in S
    PROVE  \A k \in 0..n : k \in S
<1> DEFINE Out == {k \in 0..n : k \notin S}
<1> SUFFICES ASSUME Out # {} PROVE FALSE
  OBVIOUS
<1>1. PICK k \in Out : \A m \in Out : k <= m
  <2>1. Out \subseteq Nat
    OBVIOUS
  <2> HIDE DEF Out
  <2> QED
    BY <2>1, LeastNatural
<1>2. k \in 0..n /\ k \notin S /\ k # 0
  BY <1>1
<1>3. k - 1 \in 0..n /\ k - 1 # n /\ (k - 1) + 1 = k /\ ~(k <= k - 1)
  BY <1>2
<1>4. k - 1 \in S
  BY <1>1, <1>3
<1> QED
  BY <1>2, <1>3, <1>4

(* The sums of a file's sizes obey the equation they are defined by. *)
LEMMA FromIs ==
    ASSUME NEW T, NEW file \in Seq(T), NEW size, \A i \in 1..Len(file) : file[i][size] \in Nat
    PROVE  /\ From(file, size, Len(file) + 1) = 0
           /\ \A i \in 1..Len(file) :
                From(file, size, i) = file[i][size] + From(file, size, i + 1)
           /\ \A i \in 1..(Len(file) + 1) : From(file, size, i) \in Nat
<1> DEFINE N == Len(file)
           Def(g, j) == IF j > N THEN 0 ELSE file[j][size] + g[j + 1]
           Fns(m) == [m..(N + 1) -> Nat]
           Good(g, m) == \A j \in m..(N + 1) : g[j] = Def(g, j)
           Has == {k \in 0..N : \E g \in Fns(N + 1 - k) : Good(g, N + 1 - k)}
           from == CHOOSE g : g = [j \in 1..(N + 1) |-> Def(g, j)]
<1>1. N \in Nat
  OBVIOUS
<1>2. 0 \in Has
  <2> DEFINE g == [j \in (N + 1)..(N + 1) |-> 0]
  <2>1. g \in Fns(N + 1) /\ Good(g, N + 1)
    BY <1>1
  <2>2. 0 \in 0..N /\ N + 1 - 0 = N + 1
    BY <1>1
  <2> HIDE DEF g, Good, Fns
  <2> QED
    BY <2>1, <2>2
<1>3. ASSUME NEW k \in 0..N, k \in Has, k # N PROVE k + 1 \in Has
  <2> DEFINE m == N - k
  <2>1. m \in 1..N /\ m = N + 1 - (k + 1) /\ m + 1 = N + 1 - k /\ k + 1 \in 0..N
    BY <1>1, <1>3
  <2>2. PICK g \in Fns(m + 1) : Good(g, m + 1)
    BY <1>3, <2>1
  <2> DEFINE x == file[m][size] + g[m + 1]
             h == [j \in m..(N + 1) |-> IF j = m THEN x ELSE g[j]]
  <2> HIDE DEF m
  <2>3. g[m + 1] \in Nat
    <3>1. m + 1 \in (m + 1)..(N + 1)
      BY <1>1, <2>1
    <3>2. g \in [(m + 1)..(N + 1) -> Nat]
      BY <2>2
    <3> QED
      BY ONLY <3>1, <3>2
  <2>4. x \in Nat
    <3>1. file[m][size] \in Nat
      BY <2>1
    <3> QED
      BY <2>3, <3>1
  <2>5. h \in Fns(m)
    <3> HIDE DEF x
    <3> QED
      BY <1>1, <2>1, <2>4
  <2>6. Good(h, m)
    <3> SUFFICES ASSUME NEW j \in m..(N + 1) PROVE h[j] = Def(h, j)
      OBVIOUS
    <3>1. CASE j = m
      <4>1. m + 1 \in m..(N + 1) /\ m + 1 # m /\ ~(m > N)
        BY <1>1, <2>1
      <4>2. h[m + 1] = g[m + 1] /\ h[j] = x
        BY <3>1, <4>1
      <4> QED
        BY <3>1, <4>1, <4>2
    <3>2. CASE j # m
      <4>1. j \in (m + 1)..(N + 1)
        BY <1>1, <2>1, <3>2
      <4>2. h[j] = g[j] /\ g[j] = Def(g, j)
        BY <2>2, <3>2, <4>1
      <4>3. ~(j > N) => j + 1 \in m..(N + 1) /\ j + 1 # m
        BY <1>1, <2>1, <4>1
      <4>4. ~(j > N) => h[j + 1] = g[j + 1]
        BY <4>3
      <4> QED
        BY <4>2, <4>4
    <3> QED
      BY <3>1, <3>2
  <2> HIDE DEF h, Good, Fns
  <2> QED
    BY <2>1, <2>5, <2>6
<1>4. N \in Has
  <2> HIDE DEF Has, N
  <2>1. \A k \in 0..N : k \in Has /\ k # N => k + 1 \in Has
    BY ONLY <1>3
  <2>2. \A k \in 0..N : k \in Has
    BY ONLY <1>1, <1>2, <2>1, UpTo
  <2>3. N \in 0..N
    BY ONLY <1>1
  <2> QED
    BY ONLY <2>2, <2>3
<1>5. PICK g \in Fns(1) : Good(g, 1)
  BY <1>1, <1>4
<1>6. g = [j \in 1..(N + 1) |-> Def(g, j)]
  BY <1>5
<1>7. from = [j \in 1..(N + 1) |-> Def(from, j)]
  <2> HIDE DEF Def
  <2> QED
    BY <1>6
<1>8. \A i : From(file, size, i) = from[i]
  BY DEF From
<1> HIDE DEF from
<1>9. \A k \in 0..N : k \in {j \in 0..N : from[N + 1 - j] \in Nat}
  <2> DEFINE S == {k \in 0..N : from[N + 1 - k] \in Nat}
  <2>1. 0 \in S
    <3>1. N + 1 \in 1..(N + 1) /\ N + 1 > N /\ N + 1 - 0 = N + 1 /\ 0 \in 0..N
      BY <1>1
    <3>2. from[N + 1] = 0
      BY <1>7, <3>1
    <3> QED
      BY <3>1, <3>2
  <2>2. ASSUME NEW k \in 0..N, k \in S, k # N PROVE k + 1 \in S
    <3> DEFINE m == N - k
    <3>1. m \in 1..N /\ m = N + 1 - (k + 1) /\ m + 1 = N + 1 - k /\ k + 1 \in 0..N
          /\ m \in 1..(N + 1) /\ ~(m > N)
      BY <1>1, <2>2
    <3> HIDE DEF m
    <3>2. from[m] = file[m][size] + from[m + 1]
      BY <1>7, <3>1
    <3>3. file[m][size] \in Nat
      BY <3>1
    <3>4. from[m + 1] \in Nat
      BY <2>2, <3>1
    <3>5. from[m] \in Nat
      BY <3>2, <3>3, <3>4
    <3> QED
      BY <3>1, <3>5
  <2> HIDE DEF S
  <2>3. \A k \in 0..N : k \in S
    BY <1>1, <2>1, <2>2, UpTo
  <2> QED
    BY <2>3 DEF S
<1>10. \A i \in 1..(N + 1) : from[i] \in Nat
  <2> SUFFICES ASSUME NEW i \in 1..(N + 1) PROVE from[i] \in Nat
    OBVIOUS
  <2>1. N + 1 - i \in 0..N /\ N + 1 - (N + 1 - i) = i
    BY <1>1
  <2> QED
    BY <1>9, <2>1
<1>11. from[N + 1] = 0 /\ \A i \in 1..N : from[i] = file[i][size] + from[i + 1]
  <2>1. N + 1 \in 1..(N + 1) /\ N + 1 > N /\ \A i \in 1..N : i \in 1..(N + 1) /\ ~(i > N)
    BY <1>1
  <2> QED
    BY <1>7, <2>1
<1> QED
  BY <1>8, <1>10, <1>11

(* No suffix of a file is larger than one that has it. *)
LEMMA FromFalls ==
    ASSUME NEW T, NEW file \in Seq(T), NEW size, \A i \in 1..Len(file) : file[i][size] \in Nat
    PROVE  \A i, j \in 1..(Len(file) + 1) : i <= j => From(file, size, j) <= From(file, size, i)
<1> DEFINE N == Len(file)
           F(i) == From(file, size, i)
           S(j) == {k \in 0..N : N + 1 - k <= j => F(j) <= F(N + 1 - k)}
<1>1. N \in Nat
  OBVIOUS
<1>2. /\ \A i \in 1..(N + 1) : F(i) \in Nat
      /\ \A i \in 1..N : F(i) = file[i][size] + F(i + 1)
  BY FromIs
<1>3. \A i \in 1..N : F(i + 1) <= F(i)
  <2> SUFFICES ASSUME NEW i \in 1..N PROVE F(i + 1) <= F(i)
    OBVIOUS
  <2>1. file[i][size] \in Nat /\ F(i) = file[i][size] + F(i + 1)
    BY <1>2
  <2>2. F(i + 1) \in Nat /\ F(i) \in Nat
    <3>1. i \in 1..(N + 1) /\ i + 1 \in 1..(N + 1)
      BY <1>1
    <3> QED
      BY <1>2, <3>1
  <2> HIDE DEF F
  <2> QED
    BY <2>1, <2>2
<1> HIDE DEF F
<1>4. ASSUME NEW j \in 1..(N + 1) PROVE \A k \in 0..N : k \in S(j)
  <2>1. 0 \in S(j)
    <3>1. N + 1 - 0 <= j => j = N + 1 - 0
      BY <1>1
    <3>2. F(j) <= F(j)
      BY <1>2
    <3> QED
      BY <1>1, <3>1, <3>2
  <2>2. ASSUME NEW k \in 0..N, k \in S(j), k # N PROVE k + 1 \in S(j)
    <3> DEFINE m == N - k
    <3>1. m \in 1..N /\ m = N + 1 - (k + 1) /\ m + 1 = N + 1 - k /\ k + 1 \in 0..N
          /\ m \in 1..(N + 1) /\ m + 1 \in 1..(N + 1)
      BY <1>1, <2>2
    <3> HIDE DEF m
    <3>2. F(m + 1) <= F(m)
      BY <1>3, <3>1
    <3>3. m + 1 <= j => F(j) <= F(m + 1)
      BY <2>2, <3>1
    <3>4. F(m) \in Nat /\ F(m + 1) \in Nat /\ F(j) \in Nat
      BY <1>2, <3>1
    <3>5. m <= j => m = j \/ m + 1 <= j
      BY <3>1
    <3>6. m <= j => F(j) <= F(m)
      <4>1. CASE m = j
        BY <3>4, <4>1
      <4>2. CASE m + 1 <= j
        BY <3>2, <3>3, <3>4, <4>2
      <4> QED
        BY <3>5, <4>1, <4>2
    <3> QED
      BY <3>1, <3>6
  <2> HIDE DEF S, N
  <2>3. \A k \in 0..N : k \in S(j) /\ k # N => k + 1 \in S(j)
    BY ONLY <2>2
  <2> QED
    BY ONLY <1>1, <2>1, <2>3, UpTo
<1> SUFFICES ASSUME NEW i \in 1..(N + 1), NEW j \in 1..(N + 1), i <= j PROVE F(j) <= F(i)
  BY DEF F
<1>5. N + 1 - i \in 0..N /\ N + 1 - (N + 1 - i) = i
  BY <1>1
<1> QED
  BY <1>4, <1>5

(* The last k lines of a file. *)
LEMMA TheLastIs ==
    ASSUME NEW T, NEW file \in Seq(T), NEW k \in 0..Len(file)
    PROVE  LET s == SubSeq(file, Len(file) - k + 1, Len(file)) IN
           /\ s \in Seq(T) /\ Len(s) = k
           /\ \A i \in 1..k : s[i] = file[Len(file) - k + i]
<1> DEFINE N == Len(file)
           a == N - k + 1
<1>1. N \in Nat /\ a \in Int /\ N \in Int
  OBVIOUS
<1>2. \A i \in a..N : file[i] \in T
  <2>1. \A i \in a..N : i \in 1..N
    BY <1>1
  <2> QED
    BY <2>1
<1>3. N - a + 1 = k /\ (IF a <= N THEN N - a + 1 ELSE 0) = k
      /\ \A i \in 1..k : a + i - 1 = N - k + i
  BY <1>1
<1>4. /\ SubSeq(file, a, N) \in Seq(T)
      /\ Len(SubSeq(file, a, N)) = IF a <= N THEN N - a + 1 ELSE 0
      /\ \A i \in 1..(N - a + 1) : SubSeq(file, a, N)[i] = file[a + i - 1]
  <2> HIDE DEF a, N
  <2> QED
    BY ONLY <1>1, <1>2, SubSeqProperties
<1> QED
  BY <1>3, <1>4

(* ... and their size is the file's, from there on. *)
LEMMA FromLast ==
    ASSUME NEW T, NEW file \in Seq(T), NEW size, NEW k \in 0..Len(file),
           \A i \in 1..Len(file) : file[i][size] \in Nat
    PROVE  LET s == SubSeq(file, Len(file) - k + 1, Len(file)) IN
           From(s, size, 1) = From(file, size, Len(file) - k + 1)
<1> DEFINE N == Len(file)
           s == SubSeq(file, N - k + 1, N)
           F(i) == From(file, size, i)
           G(i) == From(s, size, i)
           S == {n \in 0..k : G(k + 1 - n) = F(N - k + (k + 1 - n))}
<1>1. N \in Nat /\ k \in Nat /\ k <= N
  OBVIOUS
<1>2. s \in Seq(T) /\ Len(s) = k /\ \A i \in 1..k : s[i] = file[N - k + i]
  BY TheLastIs
<1> HIDE DEF s
<1>3. \A i \in 1..k : N - k + i \in 1..N /\ (N - k + i) + 1 = N - k + (i + 1)
  BY <1>1
<1>4. \A i \in 1..k : s[i][size] \in Nat
  BY <1>2, <1>3
<1>5. G(k + 1) = 0 /\ \A i \in 1..k : G(i) = s[i][size] + G(i + 1)
  BY <1>2, <1>4, FromIs
<1>6. F(N + 1) = 0 /\ \A i \in 1..N : F(i) = file[i][size] + F(i + 1)
  BY FromIs
<1> HIDE DEF F, G
<1>7. 0 \in S
  <2>1. k + 1 - 0 = k + 1 /\ N - k + (k + 1) = N + 1 /\ 0 \in 0..k
    BY <1>1
  <2> QED
    BY <1>5, <1>6, <2>1
<1>8. ASSUME NEW n \in 0..k, n \in S, n # k PROVE n + 1 \in S
  <2> DEFINE i == k - n
  <2>1. i \in 1..k /\ i = k + 1 - (n + 1) /\ i + 1 = k + 1 - n /\ n + 1 \in 0..k
    BY <1>1, <1>8
  <2> HIDE DEF i
  <2>2. G(i + 1) = F(N - k + (i + 1))
    BY <1>8, <2>1
  <2>3. G(i) = s[i][size] + G(i + 1) /\ s[i] = file[N - k + i]
    BY <1>2, <1>5, <2>1
  <2>4. F(N - k + i) = file[N - k + i][size] + F(N - k + (i + 1))
    BY <1>3, <1>6, <2>1
  <2>5. G(i) = F(N - k + i)
    BY <2>2, <2>3, <2>4
  <2> QED
    BY <2>1, <2>5
<1>9. k \in S
  <2> HIDE DEF S, N
  <2>1. \A n \in 0..k : n \in S /\ n # k => n + 1 \in S
    BY ONLY <1>8
  <2>2. \A n \in 0..k : n \in S
    BY ONLY <1>1, <1>7, <2>1, UpTo
  <2>3. k \in 0..k
    BY ONLY <1>1
  <2> QED
    BY ONLY <2>2, <2>3
<1>10. k + 1 - k = 1
  BY <1>1
<1>11. G(1) = F(N - k + 1)
  BY <1>9, <1>10
<1> QED
  BY <1>11 DEF F, G, s

(* What holds of all after one for which it holds, holds of the last so many. *)
LEMMA LastSoMany ==
    ASSUME NEW N \in Nat, NEW fit \in SUBSET (1..N),
           \A i, j \in 1..N : i \in fit /\ i <= j => j \in fit
    PROVE  /\ Cardinality(fit) \in 0..N
           /\ \A i \in 1..N : i \in fit <=> i >= N - Cardinality(fit) + 1
<1>1. CASE fit = {}
  BY <1>1, FS_EmptySet
<1>2. CASE fit # {}
  <2>1. PICK k \in fit : \A m \in fit : k <= m
    <3>1. fit \subseteq Nat
      OBVIOUS
    <3> QED
      BY ONLY <1>2, <3>1, LeastNatural
  <2>2. fit = k..N
    <3>1. \A i \in fit : i \in k..N
      BY <2>1
    <3>2. \A i \in k..N : i \in 1..N /\ k <= i /\ k \in 1..N
      BY <2>1
    <3>3. \A i \in k..N : i \in fit
      BY <2>1, <3>2
    <3> QED
      BY <3>1, <3>3
  <2>3. Cardinality(fit) = N - k + 1
    <3>1. k \in Int /\ N \in Int /\ ~(k > N)
      BY <2>1
    <3> QED
      BY <2>2, <3>1, FS_Interval
  <2>4. k \in 1..N
    BY <2>1
  <2> HIDE DEF Cardinality
  <2> QED
    BY <2>2, <2>3, <2>4
<1> QED
  BY <1>1, <1>2

(* The last k lines of a file, and the last of them. *)
EndOf(file, k) == SubSeq(file, Len(file) - k + 1, Len(file))

LEMMA EndOfAll ==
    ASSUME NEW T, NEW file \in Seq(T)
    PROVE  EndOf(file, Len(file)) = file
<1> DEFINE s == EndOf(file, Len(file))
<1>1. Len(file) \in 0..Len(file) /\ \A i \in 1..Len(file) : Len(file) - Len(file) + i = i
  OBVIOUS
<1>2. s \in Seq(T) /\ Len(s) = Len(file) /\ \A i \in 1..Len(file) : s[i] = file[i]
  BY <1>1, TheLastIs DEF EndOf
<1> HIDE DEF s
<1> QED
  BY <1>2, SeqEqual DEF s

LEMMA EndOfEnd ==
    ASSUME NEW T, NEW file \in Seq(T), NEW k \in 0..Len(file), NEW j \in 0..k
    PROVE  EndOf(EndOf(file, k), j) = EndOf(file, j)
<1> DEFINE s == EndOf(file, k)
           t == EndOf(s, j)
           u == EndOf(file, j)
<1>1. s \in Seq(T) /\ Len(s) = k /\ \A i \in 1..k : s[i] = file[Len(file) - k + i]
  BY TheLastIs DEF EndOf
<1> HIDE DEF s
<1>2. t \in Seq(T) /\ Len(t) = j /\ \A i \in 1..j : t[i] = s[k - j + i]
  BY <1>1, TheLastIs DEF EndOf
<1>3. j \in 0..Len(file)
  OBVIOUS
<1>4. u \in Seq(T) /\ Len(u) = j /\ \A i \in 1..j : u[i] = file[Len(file) - j + i]
  BY <1>3, TheLastIs DEF EndOf
<1> HIDE DEF t, u
<1>5. \A i \in 1..j : k - j + i \in 1..k /\ Len(file) - k + (k - j + i) = Len(file) - j + i
  OBVIOUS
<1>6. ASSUME NEW i \in 1..j PROVE t[i] = u[i]
  <2>1. t[i] = s[k - j + i] /\ u[i] = file[Len(file) - j + i]
    BY <1>2, <1>4
  <2>2. s[k - j + i] = file[Len(file) - k + (k - j + i)]
    BY <1>1, <1>5
  <2>3. file[Len(file) - k + (k - j + i)] = file[Len(file) - j + i]
    BY <1>5
  <2> QED
    BY ONLY <2>1, <2>2, <2>3
<1> QED
  BY <1>2, <1>4, <1>6, SeqEqual DEF s, t, u

(***************************************************************************)
(* What a tail is.                                                         *)
(***************************************************************************)

FileLine == [raw : Nat, text : Nat]

LEMMA SizesAre ==
    ASSUME NEW file \in Seq(FileLine)
    PROVE  /\ \A i \in 1..Len(file) : file[i]["raw"] \in Nat
           /\ \A i \in 1..Len(file) : file[i]["text"] \in Nat
<1>1. \A i \in 1..Len(file) : file[i] \in FileLine
  BY ElementOfSeq
<1>2. \A l \in FileLine : l["raw"] \in Nat /\ l["text"] \in Nat
  BY DEF FileLine
<1> QED
  BY <1>1, <1>2

(* The lines in reach are the last so many, and so are those whose text     *)
(* fits; all of a short file is in reach, and not all of a long one.        *)
LEMMA InReachIs ==
    ASSUME NEW file \in Seq(FileLine)
    PROVE  LET m == Cardinality(InReach(file)) IN
           /\ m \in 0..Len(file)
           /\ From(file, "raw", 1) <= Cap => m = Len(file)
           /\ From(file, "raw", 1) > Cap /\ Len(file) > 0 => m < Len(file)
<1> DEFINE N == Len(file)
           F(i) == From(file, "raw", i)
           fit == InReach(file)
           m == Cardinality(fit)
<1>1. N \in Nat
  OBVIOUS
<1>2. /\ \A i \in 1..(N + 1) : F(i) \in Nat
      /\ \A i, j \in 1..(N + 1) : i <= j => F(j) <= F(i)
  BY SizesAre, FromIs, FromFalls
<1>3. fit = {i \in 1..N : F(1) <= Cap \/ F(i) < Cap}
  BY DEF InReach
<1> HIDE DEF F, fit
<1>4. \A i, j \in 1..N : i \in fit /\ i <= j => j \in fit
  <2> SUFFICES ASSUME NEW i \in 1..N, NEW j \in 1..N, i \in fit, i <= j, ~(F(1) <= Cap)
               PROVE  F(j) < Cap
    BY <1>3
  <2>1. F(i) < Cap
    BY <1>3
  <2>2. F(j) <= F(i) /\ F(i) \in Nat /\ F(j) \in Nat
    BY <1>1, <1>2
  <2> QED
    BY <2>1, <2>2
<1>5. /\ m \in 0..N
      /\ \A i \in 1..N : i \in fit <=> i >= N - m + 1
  <2>1. fit \in SUBSET (1..N)
    BY <1>3
  <2> HIDE DEF N
  <2> QED
    BY ONLY <1>1, <1>4, <2>1, LastSoMany
<1> HIDE DEF m
<1>6. CASE N = 0
  BY <1>1, <1>5, <1>6 DEF F, m, fit
<1>7. CASE N > 0
  <2>1. 1 \in 1..N /\ (1 >= N - m + 1 <=> m = N)
    BY <1>1, <1>5, <1>7
  <2>2. F(1) \in Nat
    BY <1>1, <1>2
  <2>3. 1 \in fit <=> F(1) <= Cap
    BY <1>3, <2>1, <2>2
  <2>4. F(1) <= Cap => m = N
    BY <1>5, <2>1, <2>3
  <2>5. F(1) > Cap => m < N
    BY <1>1, <1>5, <2>1, <2>2, <2>3
  <2> QED
    BY <1>5, <2>4, <2>5 DEF F, m, fit
<1> QED
  BY <1>1, <1>6, <1>7

LEMMA TextFitsIs ==
    ASSUME NEW file \in Seq(FileLine)
    PROVE  LET p == Cardinality(TextFits(file)) IN
           /\ p \in 0..Len(file)
           /\ From(EndOf(file, p), "text", 1) <= Cap
<1> DEFINE N == Len(file)
           F(i) == From(file, "text", i)
           fit == TextFits(file)
           p == Cardinality(fit)
<1>1. N \in Nat
  OBVIOUS
<1>2. /\ F(N + 1) = 0
      /\ \A i \in 1..(N + 1) : F(i) \in Nat
      /\ \A i, j \in 1..(N + 1) : i <= j => F(j) <= F(i)
  BY SizesAre, FromIs, FromFalls
<1>3. fit = {i \in 1..N : F(i) <= Cap}
  BY DEF TextFits
<1> HIDE DEF F, fit
<1>4. \A i, j \in 1..N : i \in fit /\ i <= j => j \in fit
  <2> SUFFICES ASSUME NEW i \in 1..N, NEW j \in 1..N, i \in fit, i <= j
               PROVE  F(j) <= Cap
    BY <1>3
  <2>1. F(i) <= Cap
    BY <1>3
  <2>2. F(j) <= F(i) /\ F(i) \in Nat /\ F(j) \in Nat
    BY <1>1, <1>2
  <2> QED
    BY <2>1, <2>2
<1>5. /\ p \in 0..N
      /\ \A i \in 1..N : i \in fit <=> i >= N - p + 1
  <2>1. fit \in SUBSET (1..N)
    BY <1>3
  <2> HIDE DEF N
  <2> QED
    BY ONLY <1>1, <1>4, <2>1, LastSoMany
<1>6. From(EndOf(file, p), "text", 1) = F(N - p + 1)
  <2> HIDE DEF p
  <2> QED
    BY <1>5, SizesAre, FromLast DEF EndOf, F
<1> HIDE DEF p
<1>7. F(N - p + 1) <= Cap
  <2>1. CASE p = 0
    BY <1>1, <1>2, <2>1
  <2>2. CASE p # 0
    <3>1. N - p + 1 \in 1..N /\ N - p + 1 >= N - p + 1
      BY <1>1, <1>5, <2>2
    <3>2. N - p + 1 \in fit
      BY <1>5, <3>1
    <3> QED
      BY <1>3, <3>2
  <2> QED
    BY <2>1, <2>2
<1> QED
  BY <1>5, <1>6, <1>7 DEF p, fit

(* What is read of a file is its end, fits, and is said to be cut just when *)
(* it is not all that was asked for.                                        *)
LEMMA ReadTailIs ==
    ASSUME NEW file \in Seq(FileLine), NEW n \in Nat
    PROVE  LET got == ReadTail(file, n) IN
           /\ got.lines = TheLast(file, Len(got.lines))
           /\ From(got.lines, "text", 1) <= Cap
           /\ got.cut <=> got.lines # TheLast(file, n)
<1> DEFINE N == Len(file)
           m == Cardinality(InReach(file))
           out == EndOf(file, m)
           a == Least(n, m)
           asked == EndOf(file, a)
           p == Cardinality(TextFits(asked))
           whole == EndOf(file, p)
           r == Least(n, N)
<1>1. N \in Nat /\ m \in 0..N
  BY InReachIs
<1>2. /\ From(file, "raw", 1) <= Cap => m = N
      /\ From(file, "raw", 1) > Cap /\ N > 0 => m < N
      /\ From(file, "raw", 1) \in Nat
  <2>1. 1 \in 1..(N + 1)
    BY <1>1
  <2> QED
    BY <2>1, InReachIs, FromIs, SizesAre
<1> HIDE DEF m
<1>3. \A k \in 0..N : EndOf(file, k) \in Seq(FileLine) /\ Len(EndOf(file, k)) = k
  BY TheLastIs DEF EndOf
<1>4. out \in Seq(FileLine) /\ Len(out) = m
  BY <1>1, <1>3
<1>5. a \in 0..m /\ a <= n /\ (n > m => a = m) /\ (n <= m => a = n)
  BY <1>1 DEF Least
<1>6. asked \in Seq(FileLine) /\ Len(asked) = a /\ a \in 0..N
  BY <1>1, <1>3, <1>5
<1>7. TheLast(out, n) = asked
  <2>1. TheLast(out, n) = EndOf(out, a)
    BY <1>4 DEF TheLast, EndOf
  <2> QED
    BY <1>1, <1>5, <2>1, EndOfEnd
<1> HIDE DEF asked, a, out
<1>8. p \in 0..a /\ p \in 0..N /\ From(EndOf(asked, p), "text", 1) <= Cap
  BY <1>6, TextFitsIs
<1> HIDE DEF p
<1>9. EndOf(asked, p) = whole
  BY <1>6, <1>8, EndOfEnd DEF asked
<1>10. whole \in Seq(FileLine) /\ Len(whole) = p
  BY <1>3, <1>8
<1>11. ReadTail(file, n) = [lines |-> whole, cut |-> whole # asked \/ Short(file, out, n)]
  <2>1. Newest(file, InReach(file)) = out
    BY DEF Newest, EndOf, out, m
  <2>2. Newest(asked, TextFits(asked)) = EndOf(asked, p)
    BY DEF Newest, EndOf, p
  <2> HIDE DEF whole
  <2> QED
    BY <1>7, <1>9, <2>1, <2>2 DEF ReadTail
<1>12. TheLast(file, p) = whole
  <2>1. Least(p, N) = p
    BY <1>1, <1>8 DEF Least
  <2> QED
    BY <2>1 DEF TheLast, EndOf
<1>13. TheLast(file, n) = EndOf(file, r) /\ r \in 0..N /\ (n <= N => r = n) /\ (n > N => r = N)
  BY <1>1 DEF TheLast, EndOf, Least
<1> HIDE DEF r
<1>14. Len(EndOf(file, r)) = r
  BY <1>3, <1>13
<1>15. (whole # asked \/ Short(file, out, n)) <=> whole # EndOf(file, r)
  <2>1. CASE Short(file, out, n)
    <3>1. From(file, "raw", 1) > Cap /\ m < n
      BY <1>4, <2>1 DEF Short
    <3>2. CASE N = 0
      <4>1. From(file, "raw", N + 1) = 0
        BY FromIs, SizesAre
      <4>2. N + 1 = 1
        BY <3>2
      <4>3. From(file, "raw", 1) = 0
        BY ONLY <4>1, <4>2
      <4> QED
        BY <3>1, <4>3
    <3>3. CASE N > 0
      <4>1. m < N
        BY <1>2, <3>1, <3>3
      <4>2. p < r
        BY <1>1, <1>5, <1>8, <1>13, <3>1, <4>1
      <4> QED
        BY <1>10, <1>14, <2>1, <4>2
    <3> QED
      BY <1>1, <3>2, <3>3
  <2>2. CASE ~Short(file, out, n)
    <3>1. From(file, "raw", 1) <= Cap \/ m >= n
      BY <1>1, <1>2, <1>4, <2>2 DEF Short
    <3>2. a = r
      <4>1. CASE m = N
        BY <1>1, <1>5, <1>13, <4>1
      <4>2. CASE m >= n
        BY <1>1, <1>5, <1>13, <4>2
      <4> QED
        BY <1>2, <3>1, <4>1, <4>2
    <3>3. asked = EndOf(file, r)
      BY <3>2 DEF asked
    <3> QED
      BY <2>2, <3>3
  <2> QED
    BY <2>1, <2>2
<1> HIDE DEF whole
<1>16. /\ ReadTail(file, n).lines = whole
       /\ ReadTail(file, n).cut = (whole # asked \/ Short(file, out, n))
  BY <1>11
<1>17. ReadTail(file, n).lines = TheLast(file, Len(ReadTail(file, n).lines))
  BY <1>10, <1>12, <1>16
<1>18. From(ReadTail(file, n).lines, "text", 1) <= Cap
  BY <1>8, <1>9, <1>16
<1>19. ReadTail(file, n).cut <=> ReadTail(file, n).lines # TheLast(file, n)
  BY <1>13, <1>15, <1>16
<1> QED
  BY <1>17, <1>18, <1>19

(***************************************************************************)
(* Types, and whom a log request keeps busy.                               *)
(***************************************************************************)

ThreadType ==
    /\ pc \in [Threads -> Places] /\ keys \in [Threads -> SUBSET Keys]
    /\ status \in [Threads -> {0, 200, 401, 404, 422, 500}]

PlaneType ==
    /\ host \in {"init", "boot", "sidecar"} /\ known \subseteq Uses(host)
    /\ asking \in Requests \cup {"none"} /\ reply \in Requests \cup {"none"}
    /\ heard \subseteq Requests \cup Reports /\ excused \subseteq Reports
    /\ malformed \subseteq Reports \cup {"client"}
    /\ refused \in BOOLEAN /\ stop \in BOOLEAN
    /\ watched \in BOOLEAN /\ working \in BOOLEAN /\ fresh \in BOOLEAN
    /\ unsupported \in BOOLEAN

(* A request is one the Responder is busy with from the reply to the answer,*)
(* and not one it is done with.                                             *)
BusyInv == done \subseteq Requests /\ busy = {r \in Requests : pc[r] # "idle"}
OnceInv == \A r \in Requests : pc[r] # "idle" => r \notin done

BodyType == body \in [Requests -> {<<>>} \cup {[want |-> w, got |-> ReadTail(w.file, w.n)] : w \in Wants}]

Typed == ThreadType /\ PlaneType /\ BusyInv /\ BodyType

LEMMA TypeParts == Typed => TypeOK
BY DEF Typed, ThreadType, PlaneType, BusyInv, BodyType, TypeOK

LEMMA ThreadsAre ==
    /\ {"beat", "line", "end"} \cup Requests = Threads /\ Reports = {"line", "end"}
    /\ \A r \in Requests : r \notin {"beat", "line", "end", "none"}
BY DEF Threads, Reports

LEMMA ProcessIs == \A t : Process(t) \in Reports \cup {"client"}
BY DEF Process

LEMMA TypeInit == Init => Typed
<1> SUFFICES ASSUME Init PROVE Typed
  OBVIOUS
<1>1. ThreadType
  BY DEF Init, ThreadType, Places
<1>2. PlaneType
  BY ThreadsAre DEF Init, PlaneType, MayBeWatched
<1>3. BusyInv
  BY ThreadsAre DEF Init, BusyInv
<1>4. BodyType
  BY DEF Init, BodyType
<1> QED
  BY <1>1, <1>2, <1>3, <1>4 DEF Typed

LEMMA ThreadStep ==
    ASSUME ThreadType, PlaneType, [Next]_vars
    PROVE  ThreadType'
<1>0. /\ "beat" \in Threads /\ "line" \in Threads /\ "end" \in Threads
      /\ Requests \subseteq Threads
  BY ThreadsAre
<1>a. /\ {"idle", "sent", "back", "collect", "upload", "links", "over"} = Places
      /\ {"busy"} \in SUBSET Keys /\ {"reason"} \in SUBSET Keys /\ {} \in SUBSET Keys
      /\ \A k \in LineKeys : k \in SUBSET Keys
  BY DEF Places, Keys, LineKeys
<1>1. ASSUME NEW t \in Threads, NEW k \in SUBSET Keys, Start(t, k) PROVE ThreadType'
  BY <1>a, <1>1 DEF Start, To, ThreadType
<1>2. ASSUME NEW t \in Threads, NEW l \in Places, To(t, l), Through(t) PROVE ThreadType'
  BY <1>a, <1>2 DEF Through, To, ThreadType
<1>3. ASSUME NEW t \in Threads, NEW l \in Places, To(t, l), UNCHANGED <<keys, status>>
      PROVE  ThreadType'
  BY <1>3 DEF To, ThreadType
<1>4. ASSUME NEW t \in Threads, Posts(t) PROVE ThreadType'
  <2>1. CASE Returns(t)
    <3>1. /\ pc' = [pc EXCEPT ![t] = "back"] /\ keys' = keys
          /\ \E c \in {0, 200, 401, 404, 422, 500} : status' = [status EXCEPT ![t] = c]
      BY <2>1 DEF Returns, To, Code, Seen
    <3> QED
      BY <1>a, <3>1 DEF ThreadType
  <2>2. CASE WithoutNumbers(t) \/ Resends(t)
    <3>1. keys[t] \ {"numbers"} \in SUBSET Keys
      BY DEF ThreadType
    <3> QED
      BY <1>a, <1>1, <2>2, <3>1 DEF WithoutNumbers, Resends
  <2> QED
    BY <1>4, <2>1, <2>2 DEF Posts
<1>5. CASE Beat \/ BeatEnds
  BY <1>0, <1>a, <1>1, <1>3, <1>5 DEF Beat, BeatEnds, BeatKeys
<1>6. CASE TakesReply
  <2> DEFINE r == IF status["beat"] = 200 THEN reply ELSE "none"
  <2>1. CASE Heeded(r)
    <3>1. r \in Requests
      BY <2>1 DEF Heeded, PlaneType
    <3>2. pc' = [pc EXCEPT !["beat"] = "idle", ![r] = "collect"] /\ Through("beat")
      BY <1>6, <2>1 DEF TakesReply
    <3> HIDE DEF r
    <3> QED
      BY <1>0, <1>a, <3>1, <3>2 DEF Through, ThreadType
  <2>2. CASE ~Heeded(r)
    <3>1. To("beat", "idle") /\ Through("beat")
      BY <1>6, <2>2 DEF TakesReply
    <3> QED
      BY <1>0, <1>a, <1>2, <3>1
  <2> QED
    BY <2>1, <2>2
<1>7. ASSUME NEW r \in Requests, Pushes(r) \/ Answered(r) PROVE ThreadType'
  BY <1>0, <1>a, <1>1, <1>2, <1>7 DEF Pushes, Answered
<1>8. CASE Line
  <2>1. PICK k \in LineKeys : Start("line", IF refused THEN k \ {"numbers"} ELSE k)
    BY <1>8 DEF Line
  <2>2. (IF refused THEN k \ {"numbers"} ELSE k) \in SUBSET Keys
    BY <1>a
  <2> QED
    BY <1>0, <1>1, <2>1, <2>2
<1>9. CASE LineOver \/ EndOver
  BY <1>0, <1>a, <1>2, <1>9 DEF LineOver, EndOver
<1>10. CASE End \/ Upload \/ Report
  BY <1>0, <1>a, <1>1, <1>3, <1>10 DEF End, Upload, Report
<1>11. CASE Ask \/ Ready \/ Hangs \/ Stale \/ UNCHANGED vars
  BY <1>11 DEF Ask, Ready, Hangs, Stale, vars, ThreadType
<1> QED
  BY <1>0, <1>4, <1>5, <1>6, <1>7, <1>8, <1>9, <1>10, <1>11
     DEF Next, BeatStep, LineStep, EndStep, PushStep

LEMMA PlaneStep ==
    ASSUME ThreadType, PlaneType, [Next]_vars
    PROVE  PlaneType'
<1>0. /\ "beat" \in Threads /\ "line" \in Threads /\ "end" \in Threads
      /\ Requests \subseteq Threads /\ Threads \ {"beat"} = Requests \cup Reports
      /\ Reports \subseteq Threads
  BY ThreadsAre
<1> DEFINE Globals == excused \subseteq Reports /\ malformed \subseteq Reports \cup {"client"}
<1>1. ASSUME NEW t, Clears(t) \/ \E c : Refuses(t, c) PROVE Globals'
  <2>1. malformed' \subseteq malformed \cup {Process(t)}
    BY <1>1 DEF Clears, Refuses
  <2>2. excused' \subseteq excused \cup Reports
    BY <1>1 DEF Clears, Refuses, Crossed
  <2> QED
    BY <2>1, <2>2, ProcessIs DEF PlaneType
<1> DEFINE Rest == <<host, known, heard, asking, reply>>
           Flags == /\ refused \in BOOLEAN /\ stop \in BOOLEAN
                    /\ watched \in BOOLEAN /\ working \in BOOLEAN /\ fresh \in BOOLEAN /\ unsupported \in BOOLEAN
<1>2. ASSUME UNCHANGED Rest, Globals', Flags' PROVE PlaneType'
  BY <1>2 DEF PlaneType
<1>3. ASSUME NEW t \in Threads, Posts(t) PROVE PlaneType'
  <2>1. CASE Returns(t)
    <3>1. UNCHANGED <<host, known>> /\ Flags'
      BY <2>1 DEF Returns, workVars, PlaneType
    <3>2. (Takes(t) \/ Ignores) => heard' \subseteq Requests \cup Reports /\ asking' \in Requests \cup {"none"}
      BY <1>0 DEF Takes, Ignores, PlaneType
    <3>3. Takes(t) \/ Ignores
      BY <2>1 DEF Returns, Refuses
    <3>4. reply' = reply \/ reply' = asking
      BY <2>1 DEF Returns
    <3>5. Globals'
      <4>1. CASE \E c : Refuses(t, c)
        BY <1>1, <4>1
      <4>2. CASE malformed' = malformed /\ (excused' = excused \/ excused' = excused \cup ({t} \cap Reports))
        BY <4>2 DEF PlaneType
      <4> QED
        BY <2>1, <4>1, <4>2 DEF Returns
    <3> HIDE DEF Rest
    <3> QED
      BY <3>1, <3>2, <3>3, <3>4, <3>5 DEF PlaneType
  <2>2. CASE WithoutNumbers(t) \/ Resends(t)
    <3>1. Globals'
      BY <1>1, <2>2 DEF WithoutNumbers, Resends, Start
    <3>2. UNCHANGED Rest /\ Flags'
      BY <2>2 DEF WithoutNumbers, Resends, planeVars, workVars, responder, PlaneType
    <3> QED
      BY <1>2, <3>1, <3>2
  <2> QED
    BY <1>3, <2>1, <2>2 DEF Posts
<1>4. CASE Beat \/ Line \/ Upload \/ Report \/ End \/ \E r \in Requests : Pushes(r)
  <2>1. Globals'
    BY <1>1, <1>4 DEF Beat, Line, Upload, Report, End, Pushes, Start, PlaneType
  <2>2. UNCHANGED Rest /\ Flags'
    BY <1>4 DEF Beat, Line, Upload, Report, End, Pushes, planeVars, workVars, responder, PlaneType
  <2> QED
    BY <1>2, <2>1, <2>2
<1>5. CASE BeatEnds \/ Ready \/ Hangs \/ Stale \/ UNCHANGED vars
  <2>1. UNCHANGED Rest /\ Globals' /\ Flags'
    BY <1>5 DEF BeatEnds, Ready, Hangs, Stale, vars, planeVars, globals, workVars, responder, PlaneType
  <2> QED
    BY <1>2, <2>1
<1>6. CASE \E r \in Requests : Answered(r)
  <2>1. PICK r \in Requests : Answered(r)
    BY <1>6
  <2>2. UNCHANGED Rest /\ UNCHANGED <<excused, malformed, refused, stop, watched, working, fresh>>
    BY <2>1 DEF Answered, Says, planeVars, globals
  <2>3. unsupported' \in BOOLEAN
    BY <2>1, Zenon DEF Answered
  <2> QED
    BY <2>2, <2>3 DEF PlaneType
<1>7. CASE TakesReply
  BY <1>7 DEF TakesReply, planeVars, globals, workVars, PlaneType
<1>8. CASE LineOver \/ EndOver
  BY <1>8 DEF LineOver, EndOver, Forget, workVars, responder, PlaneType
<1>9. CASE Ask
  BY <1>9 DEF Ask, planeVars, globals, workVars, responder, PlaneType
<1> QED
  BY <1>0, <1>3, <1>4, <1>5, <1>6, <1>7, <1>8, <1>9
     DEF Next, BeatStep, LineStep, EndStep, PushStep

(* Whom a step of a thread leaves busy. *)
LEMMA BusyKept ==
    ASSUME ThreadType, BusyInv, OnceInv, NEW t \in Threads, NEW l,
           t \in Requests => pc[t] # "idle" /\ l # "idle",
           pc' = [pc EXCEPT ![t] = l], UNCHANGED <<busy, done>>
    PROVE  BusyInv' /\ OnceInv'
<1>1. \A r \in Requests : pc'[r] # "idle" <=> pc[r] # "idle"
  BY ThreadsAre DEF ThreadType
<1> QED
  BY <1>1 DEF BusyInv, OnceInv

LEMMA BusyStep ==
    ASSUME ThreadType, PlaneType, BusyInv, OnceInv, [Next]_vars
    PROVE  BusyInv' /\ OnceInv'
<1>0. /\ "beat" \in Threads /\ "line" \in Threads /\ "end" \in Threads
      /\ "beat" \notin Requests /\ "line" \notin Requests /\ "end" \notin Requests
      /\ Requests \subseteq Threads
  BY ThreadsAre
<1>1. ASSUME NEW t \in Threads, Posts(t) PROVE BusyInv' /\ OnceInv'
  <2>1. pc[t] # "idle" /\ \E l \in {"sent", "back"} : pc' = [pc EXCEPT ![t] = l]
    BY <1>1 DEF Posts, Returns, WithoutNumbers, Resends, Start, To
  <2>2. UNCHANGED <<busy, done>>
    BY <1>1 DEF Posts, Returns, WithoutNumbers, Resends, responder
  <2> QED
    BY <2>1, <2>2, BusyKept
<1>2. CASE Beat \/ BeatEnds \/ Line \/ LineOver \/ End \/ Upload \/ Report \/ EndOver
  <2>1. \E t \in {"beat", "line", "end"} : \E l : pc' = [pc EXCEPT ![t] = l]
    BY <1>2 DEF Beat, BeatEnds, Line, LineOver, End, Upload, Report, EndOver, Start, To
  <2>2. UNCHANGED <<busy, done>>
    BY <1>2 DEF Beat, BeatEnds, Line, LineOver, End, Upload, Report, EndOver, responder
  <2> QED
    BY <1>0, <2>1, <2>2, BusyKept
<1>3. CASE TakesReply
  <2> DEFINE r == IF status["beat"] = 200 THEN reply ELSE "none"
  <2>1. CASE Heeded(r)
    <3>1. r \in Requests /\ r \notin busy \cup done
      BY <2>1 DEF Heeded, PlaneType
    <3>2. /\ pc' = [pc EXCEPT !["beat"] = "idle", ![r] = "collect"]
          /\ busy' = busy \cup {r} /\ done' = done
      BY <1>3, <2>1 DEF TakesReply
    <3> HIDE DEF r
    <3>3. pc'[r] = "collect" /\ \A q \in Requests : q # r => pc'[q] = pc[q]
      BY <1>0, <3>1, <3>2 DEF ThreadType
    <3> QED
      BY <3>1, <3>2, <3>3 DEF BusyInv, OnceInv
  <2>2. CASE ~Heeded(r)
    <3>1. To("beat", "idle") /\ UNCHANGED <<busy, done>>
      BY <1>3, <2>2 DEF TakesReply
    <3> QED
      BY <1>0, <3>1, BusyKept DEF To
  <2> QED
    BY <2>1, <2>2
<1>4. ASSUME NEW r \in Requests, Pushes(r) PROVE BusyInv' /\ OnceInv'
  <2>1. pc[r] # "idle" /\ pc' = [pc EXCEPT ![r] = "sent"] /\ UNCHANGED <<busy, done>>
    BY <1>4 DEF Pushes, Start, To
  <2> QED
    BY <1>0, <2>1, BusyKept
<1>5. ASSUME NEW r \in Requests, Answered(r) PROVE BusyInv' /\ OnceInv'
  <2>1. /\ pc' = [pc EXCEPT ![r] = "idle"] /\ busy' = busy \ {r}
        /\ done' = done \/ done' = done \cup {r}
    BY <1>5 DEF Answered, To
  <2>2. pc'[r] = "idle" /\ \A q \in Requests : q # r => pc'[q] = pc[q]
    BY <1>0, <2>1 DEF ThreadType
  <2> QED
    BY <2>1, <2>2 DEF BusyInv, OnceInv
<1>6. CASE Ask \/ Ready \/ Hangs \/ Stale \/ UNCHANGED vars
  BY <1>6 DEF Ask, Ready, Hangs, Stale, vars, responder, BusyInv, OnceInv
<1> QED
  BY <1>0, <1>1, <1>2, <1>3, <1>4, <1>5, <1>6 DEF Next, BeatStep, LineStep, EndStep, PushStep

LEMMA BodyStep ==
    ASSUME BodyType, [Next]_vars
    PROVE  BodyType'
<1> DEFINE Cut(w) == [want |-> w, got |-> ReadTail(w.file, w.n)]
           Bodies == {<<>>} \cup {Cut(w) : w \in Wants}
<1>0. BodyType <=> body \in [Requests -> Bodies]
  BY DEF BodyType
<1> HIDE DEF Cut
<1>1. <<>> \in Bodies /\ \A w \in Wants : Cut(w) \in Bodies
  OBVIOUS
<1>a. BodyType' <=> body' \in [Requests -> Bodies]
  BY DEF BodyType, Cut
<1> HIDE DEF Bodies
<1>2. ASSUME NEW t, Returns(t) PROVE BodyType'
  <2>1. body' = [r \in Requests |-> IF r = t THEN <<>> ELSE body[r]]
    BY <1>2 DEF Returns
  <2> QED
    BY <1>0, <1>1, <1>a, <2>1
<1>3. ASSUME NEW r \in Requests, Pushes(r) PROVE BodyType'
  <2>1. \E w \in Wants : body' = [body EXCEPT ![r] = Cut(w)]
    BY <1>3 DEF Pushes, Cut
  <2> QED
    BY <1>0, <1>1, <1>a, <2>1
<1>4. ASSUME body' = body PROVE BodyType'
  BY <1>0, <1>a, <1>4
<1>5. ASSUME NEW t, Posts(t) PROVE BodyType'
  BY <1>2, <1>4, <1>5 DEF Posts, WithoutNumbers, Resends, responder
<1>6. CASE \/ Beat \/ BeatEnds \/ TakesReply \/ Line \/ LineOver \/ End \/ Upload \/ Report
           \/ EndOver \/ Ask \/ Ready \/ Hangs \/ Stale \/ UNCHANGED vars \/ \E r \in Requests : Answered(r)
  <2>1. body' = body
    BY <1>6 DEF Beat, BeatEnds, TakesReply, Line, LineOver, End, Upload, Report, EndOver, Ask,
                Ready, Hangs, Stale, Answered, vars, responder
  <2> QED
    BY <1>4, <2>1
<1> QED
  BY <1>3, <1>5, <1>6 DEF Next, BeatStep, LineStep, EndStep, PushStep

LEMMA TypeStep ==
    ASSUME Typed, OnceInv, [Next]_vars
    PROVE  Typed' /\ OnceInv'
BY ThreadStep, PlaneStep, BusyStep, BodyStep DEF Typed

(***************************************************************************)
(* A report that was refused.                                              *)
(***************************************************************************)

(* What is back of a report was taken or is excused, or was refused for its *)
(* keys and the global still says so.                                       *)
RefusedInv ==
    \A t \in Reports :
        pc[t] = "back" /\ t \notin excused =>
            t \in heard \/ (keys[t] # {} /\ status[t] # 200 /\ Process(t) \in malformed)

(* Another thread's request leaves the global alone, or the report is excused. *)
LEMMA GlobalCrossed ==
    ASSUME NEW t, Clears(t) \/ \E c : Refuses(t, c), NEW u \in Reports, u # t, pc[u] = "back",
           u \notin excused'
    PROVE  u \notin excused /\ (Process(u) \in malformed => Process(u) \in malformed')
<1>1. Process(u) # Process(t) /\ u \notin excused
  BY DEF Clears, Refuses, Crossed
<1> QED
  BY <1>1 DEF Clears, Refuses

(* A request of t's begins, and the other reports are as they were. *)
LEMMA RefusedStart ==
    ASSUME ThreadType, RefusedInv, NEW t \in Threads, NEW k, Start(t, k), host' = host, heard' = heard
    PROVE  RefusedInv'
<1> SUFFICES ASSUME NEW u \in Reports, pc'[u] = "back", u \notin excused'
             PROVE  (u \in heard \/ (keys[u] # {} /\ status[u] # 200 /\ Process(u) \in malformed))'
  BY DEF RefusedInv
<1>0. u \in Threads
  BY ThreadsAre
<1>1. u # t /\ pc[u] = "back" /\ keys'[u] = keys[u] /\ status'[u] = status[u]
  BY <1>0 DEF Start, To, ThreadType
<1>2. Clears(t)
  BY DEF Start
<1>3. u \notin excused /\ (Process(u) \in malformed => Process(u) \in malformed')
  BY <1>1, <1>2, GlobalCrossed
<1>4. Process(u)' = Process(u)
  BY DEF Process
<1> QED
  BY <1>1, <1>3, <1>4 DEF RefusedInv

(* Neither the reports nor the global of their processes change. *)
LEMMA RefusedKept ==
    ASSUME RefusedInv, UNCHANGED <<host, malformed>>,
           \A u \in Reports : pc'[u] = "back" =>
               /\ pc[u] = "back" /\ keys'[u] = keys[u] /\ status'[u] = status[u]
               /\ u \in heard => u \in heard'
               /\ u \in excused => u \in excused'
    PROVE  RefusedInv'
<1>1. \A u : Process(u)' = Process(u)
  BY DEF Process
<1> QED
  BY <1>1 DEF RefusedInv

(* The answer, or its absence. *)
LEMMA RefusedReturns ==
    ASSUME ThreadType, PlaneType, RefusedInv, NEW t \in Threads, Returns(t)
    PROVE  RefusedInv'
<1>0. Reports \subseteq Threads
  BY ThreadsAre
<1>1. /\ pc[t] = "sent" /\ pc'[t] = "back" /\ \A u \in Threads : u # t => pc'[u] = pc[u]
      /\ keys' = keys /\ host' = host
      /\ \A u \in Threads : u # t => status'[u] = status[u]
  BY DEF Returns, To, ThreadType
<1>2. \A u : Process(u)' = Process(u)
  BY <1>1 DEF Process
<1>3. heard \subseteq heard'
  BY DEF Returns, Refuses, Takes, Ignores
<1>4. ASSUME NEW u \in Reports, u # t, pc'[u] = "back", u \notin excused'
      PROVE  u \notin excused /\ (Process(u) \in malformed => Process(u) \in malformed')
  <2>1. pc[u] = "back"
    BY <1>0, <1>1, <1>4
  <2>2. CASE \E c : Refuses(t, c)
    BY <1>4, <2>1, <2>2, GlobalCrossed
  <2>3. CASE malformed' = malformed /\ (excused' = excused \/ excused' = excused \cup ({t} \cap Reports))
    BY <1>4, <2>3
  <2> QED
    BY <2>2, <2>3 DEF Returns
<1>5. ASSUME NEW u \in Reports, u # t, pc'[u] = "back", u \notin excused'
      PROVE  (u \in heard \/ (keys[u] # {} /\ status[u] # 200 /\ Process(u) \in malformed))'
  BY <1>0, <1>1, <1>2, <1>3, <1>4, <1>5 DEF RefusedInv
<1>6. ASSUME t \in Reports, t \notin excused'
      PROVE  (t \in heard \/ (keys[t] # {} /\ status[t] # 200 /\ Process(t) \in malformed))'
  <2>1. PICK code \in Code(t) :
            /\ status' = [status EXCEPT ![t] = Seen(t, code)]
            /\ code = 200 => Takes(t)
            /\ code # 200 => Refuses(t, code)
    BY <1>6 DEF Returns
  <2>2. t # "beat" /\ t \notin Requests
    BY <1>6, ThreadsAre
  <2>3. CASE code = 200
    BY <2>1, <2>2, <2>3 DEF Takes
  <2>4. CASE code # 200
    <3>1. code = 422
      BY <1>6, <2>1, <2>4 DEF Refuses
    <3>2. ~(keys[t] \subseteq known)
      BY <2>1, <3>1 DEF Code
    <3>3. keys'[t] # {} /\ status'[t] # 200
      BY <1>1, <2>1, <3>1, <3>2 DEF ThreadType, Seen
    <3>4. Process(t) \in malformed'
      BY <2>1, <2>4, <3>1 DEF Refuses
    <3> QED
      BY <1>2, <3>3, <3>4
  <2> QED
    BY <2>3, <2>4
<1> QED
  BY <1>1, <1>5, <1>6 DEF RefusedInv

LEMMA RefusedStep ==
    ASSUME ThreadType, PlaneType, RefusedInv, [Next]_vars
    PROVE  RefusedInv'
<1>0. /\ "beat" \in Threads /\ "line" \in Threads /\ "end" \in Threads
      /\ Requests \subseteq Threads /\ Reports \subseteq Threads
      /\ "beat" \notin Reports /\ Requests \cap Reports = {} /\ Reports = {"line", "end"}
  BY ThreadsAre
<1>1. ASSUME NEW t \in Threads, Posts(t) PROVE RefusedInv'
  <2>1. CASE WithoutNumbers(t) \/ Resends(t)
    <3>1. host' = host /\ heard' = heard /\ \E k : Start(t, k)
      BY <2>1 DEF WithoutNumbers, Resends, planeVars
    <3> QED
      BY <3>1, RefusedStart
  <2> QED
    BY <1>1, <2>1, RefusedReturns DEF Posts
<1>2. ASSUME NEW t \in Threads, NEW l, l # "back", To(t, l), UNCHANGED <<host, malformed>>,
             UNCHANGED <<keys, status>> \/ Through(t), UNCHANGED <<heard, excused>>
      PROVE  RefusedInv'
  <2>1. ASSUME NEW u \in Reports, pc'[u] = "back" PROVE u # t /\ pc[u] = "back"
    BY <1>0, <1>2, <2>1 DEF To, ThreadType
  <2>2. ASSUME NEW u \in Reports, u # t
        PROVE  keys'[u] = keys[u] /\ status'[u] = status[u]
    BY <1>0, <1>2, <2>2 DEF Through, ThreadType
  <2>3. ASSUME NEW u \in Reports, u # t
        PROVE  (u \in heard => u \in heard') /\ (u \in excused => u \in excused')
    BY <1>2, <2>3
  <2> QED
    BY <1>2, <2>1, <2>2, <2>3, RefusedKept
<1>3. CASE Beat \/ Line \/ Report \/ \E r \in Requests : Pushes(r)
  <2>1. host' = host /\ heard' = heard /\ \E t \in Threads : \E k : Start(t, k)
    BY <1>0, <1>3 DEF Beat, Line, Report, Pushes, planeVars
  <2> QED
    BY <2>1, RefusedStart
<1>4. CASE End
  <2>1. CASE host = "boot"
    <3>1. To("end", "upload") /\ UNCHANGED <<host, heard, keys, status, malformed, excused>>
      BY <1>4, <2>1 DEF End, planeVars
    <3> QED
      BY ONLY <1>0, <1>2, <3>1
  <2>2. CASE host # "boot"
    <3>1. Start("end", {"reason"}) /\ host' = host /\ heard' = heard
      BY <1>4, <2>2 DEF End, planeVars
    <3> QED
      BY <1>0, <3>1, RefusedStart
  <2> QED
    BY <2>1, <2>2
<1>5. CASE BeatEnds \/ \E r \in Requests : Answered(r)
  <2>1. PICK t \in Threads, l \in {"over", "idle"} :
              To(t, l) /\ (UNCHANGED <<keys, status>> \/ Through(t))
    BY <1>0, <1>5 DEF BeatEnds, Answered
  <2>2. UNCHANGED <<host, malformed>> /\ UNCHANGED <<heard, excused>>
    BY <1>5 DEF BeatEnds, Answered, planeVars, globals
  <2>3. l # "back"
    OBVIOUS
  <2> QED
    BY ONLY <1>2, <2>1, <2>2, <2>3
<1>6. CASE TakesReply
  <2>1. \A u \in Reports : pc'[u] = pc[u]
    <3> DEFINE r == IF status["beat"] = 200 THEN reply ELSE "none"
    <3>1. Heeded(r) => r \in Requests
      BY DEF Heeded, PlaneType
    <3>2. \/ Heeded(r) /\ pc' = [pc EXCEPT !["beat"] = "idle", ![r] = "collect"]
          \/ To("beat", "idle")
      BY <1>6 DEF TakesReply
    <3> HIDE DEF r
    <3> QED
      BY <1>0, <3>1, <3>2 DEF To, ThreadType
  <2>2. Through("beat") /\ UNCHANGED <<host, malformed, heard, excused>>
    BY <1>6 DEF TakesReply, planeVars, globals
  <2>3. \A u \in Reports : keys'[u] = keys[u] /\ status'[u] = status[u]
    BY <1>0, <2>2 DEF Through, ThreadType
  <2> QED
    BY <2>1, <2>2, <2>3, RefusedKept
<1>7. ASSUME NEW t \in Reports, NEW l, l # "back", To(t, l), Through(t), Forget(t), host' = host
      PROVE  RefusedInv'
  <2> SUFFICES ASSUME NEW u \in Reports, pc'[u] = "back", u \notin excused'
               PROVE  (u \in heard \/ (keys[u] # {} /\ status[u] # 200 /\ Process(u) \in malformed))'
    BY DEF RefusedInv
  <2>1. u # t /\ pc[u] = "back" /\ keys'[u] = keys[u] /\ status'[u] = status[u]
    BY <1>0, <1>7 DEF To, Through, ThreadType
  <2>2. /\ u \in heard => u \in heard' /\ u \notin excused
        /\ malformed' = malformed \ {t}
    BY <1>7, <2>1 DEF Forget
  <2>3. Process(u)' = Process(u) /\ Process(u) \in {u, "client"}
    BY <1>7 DEF Process
  <2>4. Process(u) # t
    BY <1>0, <1>7, <2>1, <2>3
  <2> QED
    BY <1>7, <2>1, <2>2, <2>3, <2>4 DEF RefusedInv, Forget
<1>8. CASE LineOver \/ EndOver
  BY <1>0, <1>7, <1>8 DEF LineOver, EndOver
<1>9. CASE Upload
  <2>1. /\ pc' = [pc EXCEPT !["end"] = "links"] /\ Clears("end")
        /\ UNCHANGED <<host, heard, keys, status>>
    BY <1>9 DEF Upload, To, planeVars
  <2> SUFFICES ASSUME NEW u \in Reports, pc'[u] = "back", u \notin excused'
               PROVE  (u \in heard \/ (keys[u] # {} /\ status[u] # 200 /\ Process(u) \in malformed))'
    BY DEF RefusedInv
  <2>2. u # "end" /\ pc[u] = "back"
    BY <1>0, <2>1 DEF ThreadType
  <2>3. u \notin excused /\ (Process(u) \in malformed => Process(u) \in malformed')
    BY <2>1, <2>2, GlobalCrossed
  <2>4. Process(u)' = Process(u)
    BY <2>1 DEF Process
  <2> QED
    BY <2>1, <2>2, <2>3, <2>4 DEF RefusedInv
<1>10. CASE Ask \/ Ready \/ Hangs \/ Stale \/ UNCHANGED vars
  <2>1. UNCHANGED <<host, malformed, pc, keys, status, heard, excused>>
    BY <1>10 DEF Ask, Ready, Hangs, Stale, vars, planeVars, globals
  <2> QED
    BY <2>1, RefusedKept
<1> QED
  BY <1>0, <1>1, <1>3, <1>4, <1>5, <1>6, <1>8, <1>9, <1>10
     DEF Next, BeatStep, LineStep, EndStep, PushStep

(***************************************************************************)
(* The theorems.                                                           *)
(***************************************************************************)

IInv == Typed /\ OnceInv /\ RefusedInv

LEMMA Inductive == (Init => IInv) /\ (IInv /\ [Next]_vars => IInv')
<1>1. Init => IInv
  <2>1. Init => OnceInv /\ RefusedInv
    BY ThreadsAre DEF Init, OnceInv, RefusedInv
  <2> QED
    BY <2>1, TypeInit DEF IInv
<1>2. IInv /\ [Next]_vars => IInv'
  BY TypeStep, RefusedStep DEF IInv, Typed
<1> QED
  BY <1>1, <1>2

(* Every variable of the client has its type, and a log request is one the  *)
(* Responder is busy with just as long as a thread answers it.              *)
THEOREM TalkTypes == Spec => []TypeOK
<1>1. IInv => TypeOK
  BY TypeParts DEF IInv
<1> QED
  BY <1>1, Inductive, PTL DEF Spec

(* A report of which all was answered, and turned away for its keys only,   *)
(* and that no other thread crossed, is with the control plane when its     *)
(* thread lets go of it - however old the control plane and whatever keys   *)
(* it refused (_post_tolerant, boot).                                       *)
THEOREM RefusalLosesNoReport == Spec => []RefusalCostsNothing
<1>1. IInv => RefusalCostsNothing
  BY DEF IInv, RefusedInv, RefusalCostsNothing, Over, Malformed
<1> QED
  BY <1>1, Inductive, PTL DEF Spec

(* No log request the Responder is done with is sent an answer again, be    *)
(* the replies that name it as many and as late as they like.               *)
THEOREM OneAnswerEach == Spec => []AnsweredOnce
<1>1. IInv => AnsweredOnce
  BY DEF IInv, OnceInv, AnsweredOnce
<1> QED
  BY <1>1, Inductive, PTL DEF Spec

(* What is sent of a log is its end, fits, and is said to be cut just when  *)
(* lines of those asked for are missing: for every file and every cap.      *)
THEOREM TailsAreTrue == Spec => []TailIsTrue
<1>1. IInv => TailIsTrue
  <2> SUFFICES ASSUME IInv, NEW r \in Requests, body[r] # <<>>
               PROVE  LET got == body[r].got
                          file == body[r].want.file IN
                      /\ got.lines = TheLast(file, Len(got.lines))
                      /\ From(got.lines, "text", 1) <= Cap
                      /\ got.cut <=> got.lines # TheLast(file, body[r].want.n)
    BY DEF TailIsTrue
  <2>1. PICK w \in Wants : body[r] = [want |-> w, got |-> ReadTail(w.file, w.n)]
    BY DEF IInv, Typed, BodyType
  <2>2. w.file \in Seq(FileLine) /\ w.n \in Nat
    BY DEF FileLine
  <2>3. body[r].got = ReadTail(w.file, w.n) /\ body[r].want = w
    BY <2>1
  <2> QED
    BY <2>2, <2>3, ReadTailIs
<1> QED
  BY <1>1, Inductive, PTL DEF Spec
=============================================================================
