----------------------------- MODULE QueueProofs -----------------------------
(***************************************************************************)
(* The write path keeps its promises for every batch size, any refused     *)
(* rows, however many rows and outages: what is on disk stays there        *)
(* whatever ends the process, and as long as nothing ends it the rows are  *)
(* dealt with in the order of submit() and none is lost.                   *)
(***************************************************************************)
EXTENDS WriteQueue, SequenceTheorems, FiniteSetTheorems, TLAPS

(* Sequences of rows and of spool files *)

RowSeq == Seq(Nat)

SpoolFile == [rows : RowSeq, torn : BOOLEAN]

Sorted(s) == \A i, j \in DOMAIN s : i < j => s[i] < s[j]

Before(A, B) == \A a \in A, b \in B : a < b

(* Every file is in the order of submit(), and so are the files. *)
InOrder(fs) ==
    /\ \A i \in DOMAIN fs : Sorted(fs[i].rows)
    /\ \A i, j \in DOMAIN fs : i < j => Before(ToSet(fs[i].rows), ToSet(fs[j].rows))

LEMMA ElementsAreRows ==
    ASSUME NEW s \in RowSeq
    PROVE  /\ ToSet(s) \subseteq Nat
           /\ DOMAIN s = 1 .. Len(s) /\ Len(s) \in Nat
           /\ \A i \in 1 .. Len(s) : s[i] \in ToSet(s)
           /\ \A r \in ToSet(s) : \E i \in 1 .. Len(s) : r = s[i]
  <1>1. Len(s) \in Nat /\ s \in [1 .. Len(s) -> Nat] /\ DOMAIN s = 1 .. Len(s)
    BY LenProperties DEF RowSeq
  <1> QED  BY <1>1 DEF ToSet

LEMMA EmptyRows ==
    /\ <<>> \in RowSeq /\ ToSet(<<>>) = {} /\ Sorted(<<>>)
    /\ \A s \in RowSeq : ToSet(s) = {} => s = <<>>
  <1>1. ASSUME NEW s \in RowSeq, s # <<>> PROVE ToSet(s) # {}
    <2>1. Len(s) \in Nat \ {0}
      BY <1>1, EmptySeq DEF RowSeq
    <2>2. s[1] \in ToSet(s)
      BY <2>1, ElementsAreRows
    <2> QED  BY <2>2
  <1>2. DOMAIN <<>> = {}
    OBVIOUS
  <1> QED  BY <1>1, <1>2 DEF RowSeq, ToSet, Sorted

LEMMA OneRow ==
    ASSUME NEW r \in Nat
    PROVE  <<r>> \in RowSeq /\ ToSet(<<r>>) = {r} /\ Sorted(<<r>>)
  <1>1. DOMAIN <<r>> = {1} /\ <<r>>[1] = r
    OBVIOUS
  <1> QED  BY <1>1 DEF RowSeq, ToSet, Sorted

(* A row submitted behind the others. *)
LEMMA AppendRow ==
    ASSUME NEW s \in RowSeq, NEW r \in Nat
    PROVE  /\ Append(s, r) \in RowSeq
           /\ ToSet(Append(s, r)) = ToSet(s) \cup {r}
           /\ Sorted(s) /\ Before(ToSet(s), {r}) => Sorted(Append(s, r))
  <1> DEFINE a == Append(s, r)
  <1>1. /\ a \in RowSeq /\ Len(a) = Len(s) + 1 /\ Len(s) \in Nat
        /\ \A i \in 1 .. Len(s) : a[i] = s[i]
        /\ a[Len(s) + 1] = r
    BY AppendProperties, LenProperties DEF RowSeq
  <1> HIDE DEF a
  <1>2. DOMAIN a = 1 .. Len(s) + 1 /\ DOMAIN s = 1 .. Len(s)
    BY <1>1, ElementsAreRows
  <1>3. ToSet(a) = ToSet(s) \cup {r}
    <2>1. \A i \in 1 .. Len(s) + 1 : i \in 1 .. Len(s) \/ i = Len(s) + 1
      BY <1>1
    <2>2. \A i \in 1 .. Len(s) : i \in 1 .. Len(s) + 1
      BY <1>1
    <2>3. Len(s) + 1 \in 1 .. Len(s) + 1
      BY <1>1
    <2> QED  BY <1>1, <1>2, <2>1, <2>2, <2>3 DEF ToSet
  <1>4. Sorted(s) /\ Before(ToSet(s), {r}) => Sorted(a)
    <2> SUFFICES ASSUME Sorted(s), Before(ToSet(s), {r}),
                        NEW i \in DOMAIN a, NEW j \in DOMAIN a, i < j
                 PROVE  a[i] < a[j]
      BY DEF Sorted
    <2>1. i \in 1 .. Len(s) /\ a[i] = s[i] /\ s[i] \in ToSet(s)
      BY <1>1, <1>2, ElementsAreRows
    <2>2. CASE j \in 1 .. Len(s)
      BY <1>1, <1>2, <2>1, <2>2 DEF Sorted
    <2>3. CASE j = Len(s) + 1
      BY <1>1, <2>1, <2>3 DEF Before
    <2> QED  BY <1>1, <1>2, <2>2, <2>3
  <1> QED  BY <1>1, <1>3, <1>4 DEF a

(* A batch and what is left behind it. *)
LEMMA SplitRows ==
    ASSUME NEW s \in RowSeq, NEW n \in 0 .. Len(s)
    PROVE  LET a == SubSeq(s, 1, n)
               b == From(s, n + 1)
           IN  /\ a \in RowSeq /\ Len(a) = n
               /\ b \in RowSeq /\ Len(b) = Len(s) - n
               /\ ToSet(s) = ToSet(a) \cup ToSet(b)
               /\ ToSet(a) = {s[i] : i \in 1 .. n}
               /\ ToSet(b) = {s[i] : i \in n + 1 .. Len(s)}
               /\ Sorted(s) => Sorted(a) /\ Sorted(b) /\ Before(ToSet(a), ToSet(b))
  <1> DEFINE a == SubSeq(s, 1, n)
             b == From(s, n + 1)
  <1>1. Len(s) \in Nat /\ n \in Nat /\ n <= Len(s) /\ DOMAIN s = 1 .. Len(s)
        /\ \A i \in 1 .. Len(s) : s[i] \in Nat
    BY ElementsAreRows DEF RowSeq
  <1>2. /\ a \in RowSeq /\ Len(a) = n
        /\ \A i \in 1 .. n : a[i] = s[i]
    <2>1. \A i \in 1 .. n : s[i] \in Nat
      BY <1>1
    <2>2. /\ SubSeq(s, 1, n) \in Seq(Nat)
          /\ Len(SubSeq(s, 1, n)) = IF 1 <= n THEN n - 1 + 1 ELSE 0
          /\ \A i \in 1 .. n - 1 + 1 : SubSeq(s, 1, n)[i] = s[1 + i - 1]
      BY <1>1, <2>1, SubSeqProperties
    <2>3. n - 1 + 1 = n /\ \A i \in 1 .. n : 1 + i - 1 = i
      BY <1>1
    <2> QED  BY <1>1, <2>2, <2>3 DEF RowSeq
  <1>3. /\ b \in RowSeq /\ Len(b) = Len(s) - n
        /\ \A i \in 1 .. Len(s) - n : b[i] = s[n + i]
    <2>1. \A i \in n + 1 .. Len(s) : s[i] \in Nat
      BY <1>1
    <2>2. n + 1 \in Int /\ Len(s) \in Int
      BY <1>1
    <2>3. /\ b \in Seq(Nat)
          /\ Len(b) = IF n + 1 <= Len(s) THEN Len(s) - (n + 1) + 1 ELSE 0
          /\ \A i \in 1 .. Len(s) - (n + 1) + 1 : b[i] = s[(n + 1) + i - 1]
      BY <2>1, <2>2, SubSeqProperties DEF From
    <2>4. Len(s) - (n + 1) + 1 = Len(s) - n /\ \A i \in 1 .. Len(s) - n : (n + 1) + i - 1 = n + i
      BY <1>1
    <2>5. Len(b) = Len(s) - n
      <3>0. n + 1 <= Len(s) \/ n = Len(s)
        <4>1. \A k, m \in Nat : m <= k => m + 1 <= k \/ m = k
          OBVIOUS
        <4> QED  BY <1>1, <4>1
      <3>1. CASE n + 1 <= Len(s)  BY <1>1, <2>3, <2>4, <3>1
      <3>2. CASE n = Len(s)       BY <1>1, <2>3, <3>2
      <3> QED  BY <3>0, <3>1, <3>2
    <2> QED  BY <2>3, <2>4, <2>5 DEF RowSeq
  <1> HIDE DEF a, b
  <1>4. DOMAIN a = 1 .. n /\ DOMAIN b = 1 .. Len(s) - n
    BY <1>2, <1>3, ElementsAreRows
  <1>5. ToSet(a) = {s[i] : i \in 1 .. n}
    BY <1>2, <1>4 DEF ToSet
  <1>6. ToSet(b) = {s[i] : i \in n + 1 .. Len(s)}
    <2>1. \A i \in 1 .. Len(s) - n : n + i \in n + 1 .. Len(s)
      BY <1>1
    <2>2. \A i \in n + 1 .. Len(s) : i - n \in 1 .. Len(s) - n /\ n + (i - n) = i
      BY <1>1
    <2>3. ASSUME NEW i \in n + 1 .. Len(s) PROVE s[i] \in ToSet(b)
      <3>1. b[i - n] = s[i]
        BY <1>3, <2>2
      <3> QED  BY <1>4, <2>2, <3>1 DEF ToSet
    <2>4. ASSUME NEW i \in 1 .. Len(s) - n PROVE b[i] \in {s[j] : j \in n + 1 .. Len(s)}
      BY <1>3, <2>1
    <2> QED  BY <1>4, <2>3, <2>4 DEF ToSet
  <1>7. ToSet(s) = ToSet(a) \cup ToSet(b)
    <2>1. \A i : i \in 1 .. Len(s) <=> i \in 1 .. n \/ i \in n + 1 .. Len(s)
      BY <1>1
    <2> QED  BY <1>1, <1>5, <1>6, <2>1 DEF ToSet
  <1>8. Sorted(s) => Sorted(a) /\ Sorted(b) /\ Before(ToSet(a), ToSet(b))
    <2> SUFFICES ASSUME Sorted(s) PROVE Sorted(a) /\ Sorted(b) /\ Before(ToSet(a), ToSet(b))
      OBVIOUS
    <2>0. \A i, j \in 1 .. Len(s) : i < j => s[i] < s[j]
      BY <1>1 DEF Sorted
    <2>1. Sorted(a)
      BY <1>1, <1>2, <1>4, <2>0 DEF Sorted
    <2>2. Sorted(b)
      <3> SUFFICES ASSUME NEW i \in 1 .. Len(s) - n, NEW j \in 1 .. Len(s) - n, i < j
                   PROVE  b[i] < b[j]
        BY <1>4 DEF Sorted
      <3>1. n + i \in 1 .. Len(s) /\ n + j \in 1 .. Len(s) /\ n + i < n + j
        BY <1>1
      <3> QED  BY <1>3, <2>0, <3>1
    <2>3. Before(ToSet(a), ToSet(b))
      <3> SUFFICES ASSUME NEW i \in 1 .. n, NEW j \in n + 1 .. Len(s) PROVE s[i] < s[j]
        BY <1>5, <1>6 DEF Before
      <3>1. i \in 1 .. Len(s) /\ j \in 1 .. Len(s) /\ i < j
        BY <1>1
      <3> QED  BY <2>0, <3>1
    <2> QED  BY <2>1, <2>2, <2>3
  <1> QED  BY <1>2, <1>3, <1>5, <1>6, <1>7, <1>8 DEF a, b

(* Rows put back in front of others. *)
LEMMA JoinRows ==
    ASSUME NEW s \in RowSeq, NEW t \in RowSeq
    PROVE  /\ s \o t \in RowSeq
           /\ ToSet(s \o t) = ToSet(s) \cup ToSet(t)
           /\ Sorted(s) /\ Sorted(t) /\ Before(ToSet(s), ToSet(t)) => Sorted(s \o t)
  <1> DEFINE c == s \o t
  <1>1. /\ c \in RowSeq /\ Len(c) = Len(s) + Len(t)
        /\ \A i \in 1 .. Len(s) + Len(t) : c[i] = IF i <= Len(s) THEN s[i] ELSE t[i - Len(s)]
    BY ConcatProperties DEF RowSeq
  <1> HIDE DEF c
  <1>2. /\ Len(s) \in Nat /\ Len(t) \in Nat /\ DOMAIN s = 1 .. Len(s) /\ DOMAIN t = 1 .. Len(t)
        /\ DOMAIN c = 1 .. Len(s) + Len(t)
    BY <1>1, ElementsAreRows
  <1>3. \A i \in 1 .. Len(s) : i \in 1 .. Len(s) + Len(t) /\ c[i] = s[i]
    BY <1>1, <1>2
  <1>4. \A i \in 1 .. Len(t) : Len(s) + i \in 1 .. Len(s) + Len(t) /\ c[Len(s) + i] = t[i]
    BY <1>1, <1>2
  <1>5. \A i \in 1 .. Len(s) + Len(t) : \/ i \in 1 .. Len(s)
                                        \/ i - Len(s) \in 1 .. Len(t) /\ i = Len(s) + (i - Len(s))
    BY <1>2
  <1>6. ToSet(c) = ToSet(s) \cup ToSet(t)
    <2>1. ToSet(s) \cup ToSet(t) \subseteq ToSet(c)
      BY <1>2, <1>3, <1>4 DEF ToSet
    <2>2. ASSUME NEW i \in 1 .. Len(s) + Len(t) PROVE c[i] \in ToSet(s) \cup ToSet(t)
      <3>1. CASE i \in 1 .. Len(s)
        BY <1>2, <1>3, <3>1 DEF ToSet
      <3>2. CASE i - Len(s) \in 1 .. Len(t) /\ i = Len(s) + (i - Len(s))
        <4>1. c[i] = t[i - Len(s)]
          BY <1>4, <3>2
        <4> QED  BY <1>2, <3>2, <4>1 DEF ToSet
      <3> QED  BY <1>5, <3>1, <3>2
    <2>3. ToSet(c) \subseteq ToSet(s) \cup ToSet(t)
      BY <1>2, <2>2 DEF ToSet
    <2> QED  BY <2>1, <2>3
  <1>7. Sorted(s) /\ Sorted(t) /\ Before(ToSet(s), ToSet(t)) => Sorted(c)
    <2> SUFFICES ASSUME Sorted(s), Sorted(t), Before(ToSet(s), ToSet(t)),
                        NEW i \in 1 .. Len(s) + Len(t), NEW j \in 1 .. Len(s) + Len(t), i < j
                 PROVE  c[i] < c[j]
      BY <1>2 DEF Sorted
    <2>1. CASE i \in 1 .. Len(s) /\ j \in 1 .. Len(s)
      BY <1>2, <1>3, <2>1 DEF Sorted
    <2>2. CASE i \in 1 .. Len(s) /\ j - Len(s) \in 1 .. Len(t)
      <3>1. c[i] = s[i] /\ c[j] = t[j - Len(s)]
        BY <1>2, <1>3, <1>4, <1>5, <2>2
      <3>2. s[i] \in ToSet(s) /\ t[j - Len(s)] \in ToSet(t)
        BY <2>2, ElementsAreRows
      <3> QED  BY <3>1, <3>2 DEF Before
    <2>3. CASE i - Len(s) \in 1 .. Len(t) /\ j - Len(s) \in 1 .. Len(t)
      <3>1. c[i] = t[i - Len(s)] /\ c[j] = t[j - Len(s)]
        BY <1>2, <1>4, <1>5, <2>3
      <3>2. i - Len(s) < j - Len(s)
        BY <1>2
      <3> QED  BY <1>2, <2>3, <3>1, <3>2 DEF Sorted
    <2> QED  BY <1>2, <1>5, <2>1, <2>2, <2>3
  <1> QED  BY <1>1, <1>6, <1>7 DEF c


LEMMA FilesHaveRows ==
    ASSUME NEW fs \in Seq(SpoolFile)
    PROVE  /\ Len(fs) \in Nat /\ DOMAIN fs = 1 .. Len(fs)
           /\ \A i \in 1 .. Len(fs) : fs[i] \in SpoolFile /\ fs[i].rows \in RowSeq
  <1>1. Len(fs) \in Nat /\ fs \in [1 .. Len(fs) -> SpoolFile] /\ DOMAIN fs = 1 .. Len(fs)
    BY LenProperties
  <1> QED  BY <1>1 DEF SpoolFile

LEMMA NoFiles == <<>> \in Seq(SpoolFile) /\ OnDisk(<<>>) = {} /\ InOrder(<<>>)
  <1>1. DOMAIN <<>> = {}
    OBVIOUS
  <1> QED  BY <1>1 DEF OnDisk, InOrder

(* What is on disk is in the first file or in the later ones. *)
LEMMA FirstFile ==
    ASSUME NEW fs \in Seq(SpoolFile), fs # <<>>
    PROVE  /\ Head(fs) \in SpoolFile /\ Tail(fs) \in Seq(SpoolFile)
           /\ OnDisk(fs) = ToSet(Head(fs).rows) \cup OnDisk(Tail(fs))
           /\ InOrder(fs) => /\ Sorted(Head(fs).rows) /\ InOrder(Tail(fs))
                             /\ Before(ToSet(Head(fs).rows), OnDisk(Tail(fs)))
  <1> DEFINE t == Tail(fs)
  <1>0. Len(fs) \in Nat \ {0} /\ DOMAIN fs = 1 .. Len(fs) /\ \A i \in 1 .. Len(fs) : fs[i] \in SpoolFile
    BY EmptySeq, FilesHaveRows
  <1>1. /\ Head(fs) = fs[1] /\ Head(fs) \in SpoolFile
        /\ t \in Seq(SpoolFile) /\ Len(t) = Len(fs) - 1
        /\ \A i \in 1 .. Len(t) : t[i] = fs[i + 1]
    BY <1>0, HeadTailProperties
  <1> HIDE DEF t
  <1>2. DOMAIN t = 1 .. Len(t) /\ Len(t) \in Nat
    BY <1>1, FilesHaveRows
  <1>3. \A i \in 1 .. Len(t) : i + 1 \in 1 .. Len(fs)
    BY <1>0, <1>1, <1>2
  <1>4. \A i \in 1 .. Len(fs) : i = 1 \/ (i - 1 \in 1 .. Len(t) /\ i = (i - 1) + 1)
    BY <1>0, <1>1
  <1>5. 1 \in 1 .. Len(fs)
    BY <1>0
  <1>6. OnDisk(fs) \subseteq ToSet(Head(fs).rows) \cup OnDisk(t)
    <2> SUFFICES ASSUME NEW i \in 1 .. Len(fs), NEW r \in ToSet(fs[i].rows)
                 PROVE  r \in ToSet(Head(fs).rows) \cup OnDisk(t)
      BY <1>0 DEF OnDisk
    <2>1. CASE i = 1
      BY <1>1, <2>1
    <2>2. CASE i - 1 \in 1 .. Len(t) /\ i = (i - 1) + 1
      <3>1. t[i - 1] = fs[i]
        BY <1>1, <2>2
      <3> QED  BY <1>2, <2>2, <3>1 DEF OnDisk
    <2> QED  BY <1>4, <2>1, <2>2
  <1>7. OnDisk(t) \subseteq OnDisk(fs)
    BY <1>0, <1>1, <1>2, <1>3 DEF OnDisk
  <1>8. ToSet(Head(fs).rows) \subseteq OnDisk(fs)
    BY <1>0, <1>1, <1>5 DEF OnDisk
  <1>9. ASSUME InOrder(fs)
        PROVE  Sorted(Head(fs).rows) /\ InOrder(t) /\ Before(ToSet(Head(fs).rows), OnDisk(t))
    <2>1. Sorted(Head(fs).rows)
      BY <1>0, <1>1, <1>5, <1>9 DEF InOrder
    <2>2. \A i \in DOMAIN t : Sorted(t[i].rows)
      BY <1>0, <1>1, <1>2, <1>3, <1>9 DEF InOrder
    <2>3. ASSUME NEW i \in 1 .. Len(t), NEW j \in 1 .. Len(t), i < j
          PROVE  Before(ToSet(t[i].rows), ToSet(t[j].rows))
      <3>1. i + 1 < j + 1
        BY <2>3
      <3> QED  BY <1>0, <1>1, <1>3, <1>9, <3>1 DEF InOrder
    <2>4. ASSUME NEW j \in 1 .. Len(t) PROVE Before(ToSet(fs[1].rows), ToSet(t[j].rows))
      <3>1. 1 < j + 1
        BY <2>4
      <3> QED  BY <1>0, <1>1, <1>3, <1>5, <1>9, <3>1 DEF InOrder
    <2>5. Before(ToSet(Head(fs).rows), OnDisk(t))
      BY <1>1, <1>2, <2>4 DEF OnDisk, Before
    <2> QED  BY <1>2, <2>1, <2>2, <2>3, <2>5 DEF InOrder
  <1> QED  BY <1>1, <1>6, <1>7, <1>8, <1>9 DEF t

(* A file written behind the others. *)
LEMMA LastFile ==
    ASSUME NEW fs \in Seq(SpoolFile), NEW f \in SpoolFile
    PROVE  /\ Append(fs, f) \in Seq(SpoolFile)
           /\ OnDisk(Append(fs, f)) = OnDisk(fs) \cup ToSet(f.rows)
           /\ InOrder(fs) /\ Sorted(f.rows) /\ Before(OnDisk(fs), ToSet(f.rows)) => InOrder(Append(fs, f))
  <1> DEFINE a == Append(fs, f)
  <1>0. Len(fs) \in Nat /\ DOMAIN fs = 1 .. Len(fs)
    BY FilesHaveRows
  <1>1. /\ a \in Seq(SpoolFile) /\ Len(a) = Len(fs) + 1
        /\ \A i \in 1 .. Len(fs) : a[i] = fs[i]
        /\ a[Len(fs) + 1] = f
    BY AppendProperties
  <1> HIDE DEF a
  <1>2. DOMAIN a = 1 .. Len(fs) + 1
    BY <1>1, FilesHaveRows
  <1>3. \A i : i \in 1 .. Len(fs) + 1 <=> i \in 1 .. Len(fs) \/ i = Len(fs) + 1
    BY <1>0
  <1>4. OnDisk(a) = OnDisk(fs) \cup ToSet(f.rows)
    <2>1. OnDisk(a) \subseteq OnDisk(fs) \cup ToSet(f.rows)
      <3> SUFFICES ASSUME NEW i \in 1 .. Len(fs) + 1, NEW r \in ToSet(a[i].rows)
                   PROVE  r \in OnDisk(fs) \cup ToSet(f.rows)
        BY <1>2 DEF OnDisk
      <3> QED  BY <1>0, <1>1, <1>3 DEF OnDisk
    <2>2. OnDisk(fs) \subseteq OnDisk(a)
      BY <1>0, <1>1, <1>2, <1>3 DEF OnDisk
    <2>3. ToSet(f.rows) \subseteq OnDisk(a)
      BY <1>1, <1>2, <1>3 DEF OnDisk
    <2> QED  BY <2>1, <2>2, <2>3
  <1>5. ASSUME InOrder(fs), Sorted(f.rows), Before(OnDisk(fs), ToSet(f.rows)) PROVE InOrder(a)
    <2>1. \A i \in DOMAIN a : Sorted(a[i].rows)
      BY <1>0, <1>1, <1>2, <1>3, <1>5 DEF InOrder
    <2>2. ASSUME NEW i \in DOMAIN a, NEW j \in DOMAIN a, i < j
          PROVE  Before(ToSet(a[i].rows), ToSet(a[j].rows))
      <3>1. i \in 1 .. Len(fs)
        BY <1>0, <1>2, <2>2
      <3>2. CASE j \in 1 .. Len(fs)
        BY <1>0, <1>1, <1>5, <2>2, <3>1, <3>2 DEF InOrder
      <3>3. CASE j = Len(fs) + 1
        <4>1. ToSet(a[i].rows) \subseteq OnDisk(fs)
          BY <1>0, <1>1, <3>1 DEF OnDisk
        <4> QED  BY <1>1, <1>5, <3>3, <4>1 DEF Before
      <3> QED  BY <1>2, <1>3, <3>2, <3>3
    <2> QED  BY <2>1, <2>2 DEF InOrder
  <1> QED  BY <1>1, <1>4, <1>5 DEF a

(* A file in the place of the first. *)
LEMMA PlaceOfFirst ==
    ASSUME NEW fs \in Seq(SpoolFile), NEW f \in SpoolFile
    PROVE  /\ <<f>> \o fs \in Seq(SpoolFile)
           /\ OnDisk(<<f>> \o fs) = ToSet(f.rows) \cup OnDisk(fs)
           /\ InOrder(fs) /\ Sorted(f.rows) /\ Before(ToSet(f.rows), OnDisk(fs)) => InOrder(<<f>> \o fs)
  <1> DEFINE c == <<f>> \o fs
  <1>0. Len(fs) \in Nat /\ DOMAIN fs = 1 .. Len(fs)
    BY FilesHaveRows
  <1>a. <<f>> \in Seq(SpoolFile) /\ Len(<<f>>) = 1 /\ <<f>>[1] = f
    OBVIOUS
  <1>b. /\ c \in Seq(SpoolFile) /\ Len(c) = 1 + Len(fs)
        /\ \A i \in 1 .. 1 + Len(fs) : c[i] = IF i <= 1 THEN <<f>>[i] ELSE fs[i - 1]
    <2>1. /\ <<f>> \o fs \in Seq(SpoolFile) /\ Len(<<f>> \o fs) = Len(<<f>>) + Len(fs)
          /\ \A i \in 1 .. Len(<<f>>) + Len(fs) :
                (<<f>> \o fs)[i] = IF i <= Len(<<f>>) THEN <<f>>[i] ELSE fs[i - Len(<<f>>)]
      BY <1>a, ConcatProperties
    <2> QED  BY <1>a, <2>1
  <1> HIDE DEF c
  <1>1. c[1] = f /\ \A i \in 1 .. Len(fs) : c[i + 1] = fs[i]
    <2>1. 1 \in 1 .. 1 + Len(fs) /\ 1 <= 1
      BY <1>0
    <2>2. ASSUME NEW i \in 1 .. Len(fs) PROVE c[i + 1] = fs[i]
      <3>1. i + 1 \in 1 .. 1 + Len(fs) /\ ~(i + 1 <= 1) /\ (i + 1) - 1 = i
        BY <1>0
      <3> QED  BY <1>b, <3>1
    <2> QED  BY <1>a, <1>b, <2>1, <2>2
  <1>2. DOMAIN c = 1 .. Len(fs) + 1
    BY <1>0, <1>b, FilesHaveRows
  <1>3. \A i \in 1 .. Len(fs) + 1 : i = 1 \/ (i - 1 \in 1 .. Len(fs) /\ i = (i - 1) + 1)
    BY <1>0
  <1>4. 1 \in 1 .. Len(fs) + 1 /\ \A i \in 1 .. Len(fs) : i + 1 \in 1 .. Len(fs) + 1
    BY <1>0
  <1>5. OnDisk(c) = ToSet(f.rows) \cup OnDisk(fs)
    <2>1. OnDisk(c) \subseteq ToSet(f.rows) \cup OnDisk(fs)
      <3> SUFFICES ASSUME NEW i \in 1 .. Len(fs) + 1, NEW r \in ToSet(c[i].rows)
                   PROVE  r \in ToSet(f.rows) \cup OnDisk(fs)
        BY <1>2 DEF OnDisk
      <3>1. CASE i = 1
        BY <1>1, <3>1
      <3>2. CASE i - 1 \in 1 .. Len(fs) /\ i = (i - 1) + 1
        <4>1. c[i] = fs[i - 1]
          BY <1>1, <3>2
        <4> QED  BY <1>0, <3>2, <4>1 DEF OnDisk
      <3> QED  BY <1>3, <3>1, <3>2
    <2>2. OnDisk(fs) \subseteq OnDisk(c)
      BY <1>0, <1>1, <1>2, <1>4 DEF OnDisk
    <2>3. ToSet(f.rows) \subseteq OnDisk(c)
      BY <1>1, <1>2, <1>4 DEF OnDisk
    <2> QED  BY <2>1, <2>2, <2>3
  <1>6. ASSUME InOrder(fs), Sorted(f.rows), Before(ToSet(f.rows), OnDisk(fs)) PROVE InOrder(c)
    <2>1. ASSUME NEW i \in DOMAIN c PROVE Sorted(c[i].rows)
      <3>1. CASE i = 1
        BY <1>1, <1>6, <3>1
      <3>2. CASE i - 1 \in 1 .. Len(fs) /\ i = (i - 1) + 1
        <4>1. c[i] = fs[i - 1]
          BY <1>1, <3>2
        <4> QED  BY <1>0, <1>6, <3>2, <4>1 DEF InOrder
      <3> QED  BY <1>2, <1>3, <2>1, <3>1, <3>2
    <2>2. ASSUME NEW i \in DOMAIN c, NEW j \in DOMAIN c, i < j
          PROVE  Before(ToSet(c[i].rows), ToSet(c[j].rows))
      <3>1. j - 1 \in 1 .. Len(fs) /\ j = (j - 1) + 1
        BY <1>0, <1>2, <2>2
      <3>2. c[j] = fs[j - 1]
        BY <1>1, <3>1
      <3>3. CASE i = 1
        <4>1. ToSet(c[j].rows) \subseteq OnDisk(fs)
          BY <1>0, <3>1, <3>2 DEF OnDisk
        <4> QED  BY <1>1, <1>6, <3>3, <4>1 DEF Before
      <3>4. CASE i - 1 \in 1 .. Len(fs) /\ i = (i - 1) + 1
        <4>1. c[i] = fs[i - 1]
          BY <1>1, <3>4
        <4>2. i - 1 < j - 1
          BY <1>2, <2>2
        <4> QED  BY <1>0, <1>6, <3>1, <3>2, <3>4, <4>1, <4>2 DEF InOrder
      <3> QED  BY <1>2, <1>3, <2>2, <3>3, <3>4
    <2> QED  BY <2>1, <2>2 DEF InOrder
  <1> QED  BY <1>b, <1>5, <1>6 DEF c


(* The flushing task *)

(* The rows of the batch before the one being tried are dealt with. *)
Done == {task.rows[i] : i \in 1 .. task.index - 1}

(* The files behind the batch. *)
Behind == IF task.source = "spool" THEN Tail(files) ELSE files

(* Only an insert has rows in its hands: the first file, or rows of memory
   taken when there was no file. *)
InTask(t, fs) ==
    /\ t \in [pc : {"idle", "connecting", "pinging", "inserting"},
              source : {"none", "memory", "spool"}, rows : RowSeq, index : Nat]
    /\ t.pc # "inserting" => t = Waiting(t.pc)
    /\ t.pc = "inserting" => t.source # "none" /\ t.index <= Len(t.rows)
    /\ t.source = "spool" => fs # <<>> /\ Head(fs).rows = t.rows
    /\ t.source = "memory" => fs = <<>>

(* What may be in the hands of the task, on disk and in memory, whatever
   happened before. *)
Sane ==
    /\ sent \in Nat
    /\ pending \in RowSeq
    /\ files \in Seq(SpoolFile)
    /\ InTask(task, files)
    /\ Done \subseteq stored \cup refused

(* Disk before hands before memory, each in the order of submit(). *)
InLine(fs, hand, rows) ==
    /\ InOrder(fs) /\ Sorted(hand) /\ Sorted(rows)
    /\ Before(OnDisk(fs) \cup ToSet(hand), ToSet(rows))

(* A flush that ends or goes on leaves no row behind and keeps their order. *)
Placed(fs, rows) ==
    /\ files' \in Seq(SpoolFile) /\ pending' \in RowSeq
    /\ InTask(task', files') /\ task'.index = 0
    /\ OnDisk(fs) \subseteq OnDisk(files')
    /\ OnDisk(files') \cup ToSet(task'.rows) \cup ToSet(pending') = OnDisk(fs) \cup ToSet(rows)
    /\ InLine(fs, <<>>, rows) => InLine(files', task'.rows, pending')

LEMMA WaitingTask ==
    ASSUME NEW pc \in {"idle", "connecting", "pinging"}, NEW fs
    PROVE  InTask(Waiting(pc), fs) /\ Waiting(pc).index = 0 /\ Waiting(pc).rows = <<>>
  BY EmptyRows DEF InTask, Waiting, Idle

LEMMA IdleTask == Idle = Waiting("idle")
  BY DEF Idle, Waiting

LEMMA FinishPlaces ==
    ASSUME NEW fs \in Seq(SpoolFile), NEW rows \in RowSeq, NEW count, NEW spool, Finish(fs, rows, count, spool)
    PROVE  Placed(fs, rows)
  <1>1. /\ task' = Idle
        /\ \/ files' = Append(fs, File(rows)) /\ pending' = <<>>
           \/ files' = fs /\ pending' = rows
    BY DEF Finish, SpoolAppend
  <1>2. InTask(task', files') /\ task'.index = 0 /\ task'.rows = <<>>
    BY <1>1, WaitingTask, IdleTask
  <1>3. CASE files' = Append(fs, File(rows)) /\ pending' = <<>>
    <2>1. File(rows) \in SpoolFile /\ File(rows).rows = rows
      BY DEF File, SpoolFile
    <2>2. /\ files' \in Seq(SpoolFile) /\ OnDisk(files') = OnDisk(fs) \cup ToSet(rows)
          /\ InOrder(fs) /\ Sorted(rows) /\ Before(OnDisk(fs), ToSet(rows)) => InOrder(files')
      BY <1>3, <2>1, LastFile
    <2> QED  BY <1>2, <1>3, <2>2, EmptyRows DEF Placed, InLine, Before
  <1>4. CASE files' = fs /\ pending' = rows
    BY <1>2, <1>4, EmptyRows DEF Placed
  <1> QED  BY <1>1, <1>3, <1>4

LEMMA AbortPlaces ==
    ASSUME NEW fs \in Seq(SpoolFile), NEW rows \in RowSeq, NEW count, Abort(fs, rows, count)
    PROVE  Placed(fs, rows)
  <1>1. CASE stage = "starting"
    <2>1. task' = Idle /\ files' = fs /\ pending' = rows
      BY <1>1 DEF Abort
    <2>2. InTask(task', files') /\ task'.index = 0 /\ task'.rows = <<>>
      BY <2>1, WaitingTask, IdleTask
    <2> QED  BY <2>1, <2>2, EmptyRows DEF Placed
  <1>2. CASE stage # "starting"
    BY <1>2, FinishPlaces DEF Abort
  <1> QED  BY <1>1, <1>2

LEMMA AdvancePlaces ==
    ASSUME NEW fs \in Seq(SpoolFile), NEW rows \in RowSeq, NEW count, MaxBatch \in Nat, Advance(fs, rows, count)
    PROVE  Placed(fs, rows)
  <1>1. CASE fs # <<>> /\ Head(fs).torn
    BY <1>1, AbortPlaces DEF Advance
  <1>2. CASE fs # <<>> /\ ~Head(fs).torn
    <2>1. task' = Inserting("spool", Head(fs).rows, 0) /\ files' = fs /\ pending' = rows
      BY <1>2 DEF Advance
    <2>2. /\ Head(fs).rows \in RowSeq /\ ToSet(Head(fs).rows) \subseteq OnDisk(fs)
          /\ InOrder(fs) => Sorted(Head(fs).rows)
      BY <1>2, FirstFile DEF SpoolFile
    <2>3. /\ task'.pc = "inserting" /\ task'.source = "spool" /\ task'.index = 0
          /\ task'.rows = Head(fs).rows
      BY <2>1 DEF Inserting
    <2>4. 0 <= Len(Head(fs).rows)
      BY <2>2, ElementsAreRows
    <2>5. InTask(task', files')
      BY <1>2, <2>1, <2>2, <2>3, <2>4 DEF InTask, Inserting
    <2>6. OnDisk(fs) \cup ToSet(Head(fs).rows) = OnDisk(fs)
      BY <2>2
    <2>7. InLine(fs, <<>>, rows) => InLine(files', task'.rows, pending')
      BY <2>1, <2>2, <2>3, <2>6, EmptyRows DEF InLine
    <2> QED  BY <2>1, <2>3, <2>5, <2>6, <2>7 DEF Placed
  <1>3. CASE fs = <<>> /\ rows # <<>>
    <2> DEFINE n == Lesser(Len(rows), MaxBatch)
               a == SubSeq(rows, 1, n)
               b == From(rows, n + 1)
    <2>1. task' = Inserting("memory", a, 0) /\ files' = fs /\ pending' = b
      BY <1>3 DEF Advance
    <2>2. n \in 0 .. Len(rows)
      BY ElementsAreRows DEF Lesser
    <2> HIDE DEF n
    <2>3. /\ a \in RowSeq /\ b \in RowSeq /\ ToSet(rows) = ToSet(a) \cup ToSet(b)
          /\ Sorted(rows) => Sorted(a) /\ Sorted(b) /\ Before(ToSet(a), ToSet(b))
      BY <2>2, SplitRows
    <2> HIDE DEF a, b
    <2>4. /\ task'.pc = "inserting" /\ task'.source = "memory" /\ task'.index = 0
          /\ task'.rows = a
      BY <2>1 DEF Inserting
    <2>5. 0 <= Len(a)
      BY <2>3, ElementsAreRows
    <2>6. InTask(task', files')
      BY <1>3, <2>1, <2>3, <2>4, <2>5 DEF InTask, Inserting
    <2>7. OnDisk(fs) = {}
      BY <1>3, NoFiles
    <2>8. InLine(fs, <<>>, rows) => InLine(files', task'.rows, pending')
      BY <2>1, <2>3, <2>4, <2>7 DEF InLine
    <2> QED  BY <2>1, <2>3, <2>4, <2>6, <2>8 DEF Placed
  <1>4. CASE fs = <<>> /\ rows = <<>>
    BY <1>4, FinishPlaces DEF Advance
  <1> QED  BY <1>1, <1>2, <1>3, <1>4


-----------------------------------------------------------------------------
(* The rows in hand *)

LEMMA TaskIsEmpty ==
    ASSUME Sane, task.pc # "inserting"
    PROVE  /\ task.source = "none" /\ task.rows = <<>> /\ task.index = 0
           /\ Done = {}
  <1>1. task = Waiting(task.pc)
    BY DEF Sane, InTask
  <1>2. task.source = "none" /\ task.rows = <<>> /\ task.index = 0
    BY <1>1 DEF Waiting, Idle
  <1> QED  BY <1>2 DEF Done

LEMMA RowsInHand ==
    ASSUME Sane, task.pc = "inserting"
    PROVE  /\ task.rows \in RowSeq /\ task.index \in 0 .. Len(task.rows) /\ Len(task.rows) \in Nat
           /\ Remaining \in RowSeq /\ Attempt \in RowSeq
           /\ ToSet(task.rows) = Done \cup ToSet(Remaining)
           /\ ToSet(Attempt) \subseteq ToSet(Remaining)
           /\ Behind \in Seq(SpoolFile)
           /\ OnDisk(files) \cup ToSet(task.rows) = ToSet(task.rows) \cup OnDisk(Behind)
           /\ task.index = 0 => Done = {} /\ Attempt = task.rows /\ Remaining = task.rows
           /\ task.index # 0 => /\ ToSet(Attempt) = {task.rows[task.index]}
                                /\ ToSet(Remaining) = {task.rows[i] : i \in task.index .. Len(task.rows)}
           /\ Sorted(task.rows) => /\ Sorted(Remaining) /\ Sorted(Attempt)
                                   /\ Before(Done, ToSet(Remaining))
  <1>1. task.rows \in RowSeq /\ task.index \in 0 .. Len(task.rows) /\ Len(task.rows) \in Nat
    BY ElementsAreRows DEF Sane, InTask
  <1>2. Behind \in Seq(SpoolFile) /\ OnDisk(files) \cup ToSet(task.rows) = ToSet(task.rows) \cup OnDisk(Behind)
    <2>1. CASE task.source = "spool"
      <3>1. files # <<>> /\ Head(files).rows = task.rows /\ files \in Seq(SpoolFile)
        BY <2>1 DEF Sane, InTask
      <3> QED  BY <2>1, <3>1, FirstFile DEF Behind
    <2>2. CASE task.source # "spool"
      BY <2>2 DEF Behind, Sane
    <2> QED  BY <2>1, <2>2
  <1>3. CASE task.index = 0
    <2>1. Done = {}
      BY <1>3 DEF Done
    <2>2. Attempt = task.rows /\ Remaining = task.rows
      BY <1>3 DEF Attempt, Remaining
    <2> QED  BY <1>1, <1>2, <1>3, <2>1, <2>2 DEF Before
  <1>4. CASE task.index # 0
    <2> DEFINE n == task.index - 1
               a == SubSeq(task.rows, 1, n)
               b == From(task.rows, n + 1)
    <2>1. n \in 0 .. Len(task.rows) /\ n + 1 = task.index
      BY <1>1, <1>4
    <2>3. Remaining = b
      BY <1>4, <2>1 DEF Remaining
    <2>4. Done = {task.rows[i] : i \in 1 .. n}
      BY DEF Done
    <2> HIDE DEF n
    <2>5. /\ b \in RowSeq
          /\ ToSet(task.rows) = ToSet(a) \cup ToSet(b)
          /\ ToSet(a) = {task.rows[i] : i \in 1 .. n}
          /\ ToSet(b) = {task.rows[i] : i \in n + 1 .. Len(task.rows)}
          /\ Sorted(task.rows) => Sorted(a) /\ Sorted(b) /\ Before(ToSet(a), ToSet(b))
      BY <1>1, <2>1, SplitRows
    <2> HIDE DEF a, b
    <2>6. task.index \in 1 .. Len(task.rows) /\ task.index \in task.index .. Len(task.rows)
      BY <1>1, <1>4
    <2>7. task.rows[task.index] \in Nat
      BY <1>1, <2>6, ElementsAreRows
    <2>8. Attempt = <<task.rows[task.index]>>
      BY <1>4 DEF Attempt
    <2>9. Attempt \in RowSeq /\ ToSet(Attempt) = {task.rows[task.index]} /\ Sorted(Attempt)
      BY <2>7, <2>8, OneRow
    <2>10. ToSet(Remaining) = {task.rows[i] : i \in task.index .. Len(task.rows)}
      BY <2>1, <2>3, <2>5
    <2>11. ToSet(Attempt) \subseteq ToSet(Remaining)
      BY <2>6, <2>9, <2>10
    <2> QED  BY <1>1, <1>2, <1>4, <2>3, <2>4, <2>5, <2>9, <2>10, <2>11
  <1> QED  BY <1>3, <1>4

(* The end of a write: the rows in hand are behind the task. *)
LEMMA WrittenPlaces ==
    ASSUME Sane, task.pc = "inserting", MaxBatch \in Nat, Written
    PROVE  Placed(Behind, pending)
  <1>1. Behind \in Seq(SpoolFile) /\ pending \in RowSeq
    BY RowsInHand DEF Sane
  <1>2. CASE task.source = "spool"
    BY <1>1, <1>2, AdvancePlaces DEF Written, Behind
  <1>3. CASE task.source # "spool"
    BY <1>1, <1>3, AdvancePlaces DEF Written, Behind
  <1> QED  BY <1>2, <1>3

(* What was being inserted is dealt with: the next row is tried, or all are. *)
LEMMA NextRowPlaces ==
    ASSUME Sane, task.pc = "inserting", MaxBatch \in Nat, NextRow
    PROVE  \/ /\ files' = files /\ pending' = pending /\ task'.rows = task.rows /\ InTask(task', files')
              /\ ToSet(task.rows) # {}
              /\ Done' = Done \cup ToSet(Attempt) /\ Done \cup ToSet(Attempt) \subseteq ToSet(task.rows)
           \/ Placed(Behind, pending) /\ ToSet(task.rows) = Done \cup ToSet(Attempt)
  <1> DEFINE k == task.index
  <1>1. /\ task.rows \in RowSeq /\ k \in 0 .. Len(task.rows) /\ Len(task.rows) \in Nat
        /\ ToSet(task.rows) = Done \cup ToSet(Remaining) /\ ToSet(Attempt) \subseteq ToSet(Remaining)
    BY RowsInHand
  <1>2. CASE k \in 1 .. Len(task.rows) - 1
    <2>1. task' = [task EXCEPT !.index = @ + 1] /\ files' = files /\ pending' = pending
      BY <1>2 DEF NextRow, queueVars
    <2>3. /\ task'.rows = task.rows /\ task'.index = k + 1 /\ task'.pc = task.pc
          /\ task'.source = task.source
      BY <2>1 DEF Sane, InTask
    <2>4. k + 1 \in Nat /\ k + 1 <= Len(task.rows)
      BY <1>1, <1>2
    <2>5. InTask(task', files')
      BY <1>1, <2>1, <2>3, <2>4 DEF InTask, Sane
    <2>6. ToSet(Attempt) = {task.rows[k]}
      BY <1>2, RowsInHand
    <2>7. \A i : i \in 1 .. k <=> i \in 1 .. k - 1 \/ i = k
      BY <1>1, <1>2
    <2>8. \A j \in Nat : j = k + 1 => j - 1 = k
      BY <1>1
    <2>9. Done' = {task.rows[i] : i \in 1 .. k}
      <3>1. Done' = {task'.rows[i] : i \in 1 .. task'.index - 1}
        BY DEF Done
      <3>2. task'.index - 1 = k
        BY <2>3, <2>4, <2>8
      <3> QED  BY <2>3, <3>1, <3>2
    <2>10. Done' = Done \cup ToSet(Attempt)
      BY <2>6, <2>7, <2>9 DEF Done
    <2>11. Done \cup ToSet(Attempt) \subseteq ToSet(task.rows) /\ ToSet(task.rows) # {}
      BY <1>1, <2>6
    <2> QED  BY <2>1, <2>3, <2>5, <2>10, <2>11
  <1>3. CASE k \notin 1 .. Len(task.rows) - 1
    <2>1. Written
      BY <1>3 DEF NextRow
    <2>2. ToSet(task.rows) = Done \cup ToSet(Attempt)
      <3>1. CASE k = 0
        BY <3>1, <1>1, RowsInHand
      <3>2. CASE k # 0
        <4>1. k = Len(task.rows)
          BY <1>1, <1>3, <3>2
        <4>2. ToSet(Remaining) = {task.rows[i] : i \in k .. k} /\ ToSet(Attempt) = {task.rows[k]}
          BY <3>2, <4>1, RowsInHand
        <4>3. \A i : i \in k .. k <=> i = k
          BY <1>1
        <4> QED  BY <1>1, <4>2, <4>3
      <3> QED  BY <3>1, <3>2
    <2> QED  BY <2>1, <2>2, WrittenPlaces
  <1> QED  BY <1>2, <1>3

(* A lost insert: the rows left go back to where they were taken from. *)
LEMMA LostInsertPlaces ==
    ASSUME Sane, task.pc = "inserting", InsertLost
    PROVE  \E fs, rows :
              /\ Placed(fs, rows) /\ rows \in RowSeq
              /\ OnDisk(fs) \cup ToSet(rows) = ToSet(Remaining) \cup OnDisk(Behind) \cup ToSet(pending)
              /\ OnDisk(files) \subseteq OnDisk(fs) \cup Done
              /\ InLine(files, task.rows, pending) => InLine(fs, <<>>, rows)
  <1>1. /\ Remaining \in RowSeq /\ ToSet(task.rows) = Done \cup ToSet(Remaining)
        /\ Behind \in Seq(SpoolFile) /\ pending \in RowSeq /\ files \in Seq(SpoolFile)
        /\ OnDisk(files) \cup ToSet(task.rows) = ToSet(task.rows) \cup OnDisk(Behind)
        /\ Sorted(task.rows) => Sorted(Remaining)
    BY RowsInHand DEF Sane
  <1>2. CASE task.source = "spool"
    <2> DEFINE fs == ReplaceFile(Remaining)
    <2>1. files # <<>> /\ Head(files).rows = task.rows
      BY <1>2 DEF Sane, InTask
    <2>2. Finish(fs, pending, spooled - CountedOff, TRUE)
      BY <1>2 DEF InsertLost
    <2>3. File(Remaining) \in SpoolFile /\ File(Remaining).rows = Remaining
      BY <1>1 DEF File, SpoolFile
    <2>4. fs = <<File(Remaining)>> \o Behind
      BY <1>2 DEF ReplaceFile, Behind
    <2> HIDE DEF fs
    <2>5. /\ fs \in Seq(SpoolFile) /\ OnDisk(fs) = ToSet(Remaining) \cup OnDisk(Behind)
          /\ InOrder(Behind) /\ Sorted(Remaining) /\ Before(ToSet(Remaining), OnDisk(Behind)) => InOrder(fs)
      BY <1>1, <2>3, <2>4, PlaceOfFirst
    <2>6. Placed(fs, pending)
      BY <1>1, <2>2, <2>5, FinishPlaces
    <2>7. OnDisk(files) = ToSet(task.rows) \cup OnDisk(Behind)
      BY <1>1, <1>2, <2>1, FirstFile DEF Behind
    <2>8. ASSUME InLine(files, task.rows, pending) PROVE InLine(fs, <<>>, pending)
      <3>1. InOrder(Behind) /\ Before(ToSet(task.rows), OnDisk(Behind))
        BY <1>1, <1>2, <2>1, <2>8, FirstFile DEF Behind, InLine
      <3>2. Sorted(Remaining) /\ Before(ToSet(Remaining), OnDisk(Behind))
        BY <1>1, <2>8, <3>1 DEF InLine, Before
      <3>3. Before(OnDisk(fs), ToSet(pending))
        BY <1>1, <2>5, <2>7, <2>8 DEF InLine, Before
      <3> QED  BY <2>5, <2>8, <3>1, <3>2, <3>3, EmptyRows DEF InLine, Before
    <2>9. OnDisk(files) \subseteq OnDisk(fs) \cup Done
      BY <1>1, <2>5, <2>7
    <2> QED  BY <1>1, <2>5, <2>6, <2>8, <2>9
  <1>3. CASE task.source # "spool"
    <2> DEFINE rows == PutBack(Remaining)
    <2>1. task.source = "memory" /\ files = <<>> /\ Behind = files
      BY <1>3 DEF Sane, InTask, Behind
    <2>2. Finish(files, rows, spooled, TRUE)
      BY <1>3 DEF InsertLost
    <2>3. rows = Remaining \o pending
      BY DEF PutBack
    <2> HIDE DEF rows
    <2>4. /\ rows \in RowSeq /\ ToSet(rows) = ToSet(Remaining) \cup ToSet(pending)
          /\ Sorted(Remaining) /\ Sorted(pending) /\ Before(ToSet(Remaining), ToSet(pending)) => Sorted(rows)
      BY <1>1, <2>3, JoinRows
    <2>5. Placed(files, rows)
      BY <1>1, <2>2, <2>4, FinishPlaces
    <2>6. OnDisk(files) = {} /\ InOrder(files)
      BY <2>1, NoFiles
    <2>7. ASSUME InLine(files, task.rows, pending) PROVE InLine(files, <<>>, rows)
      <3>1. Sorted(rows)
        BY <1>1, <2>4, <2>7 DEF InLine, Before
      <3> QED  BY <2>6, <3>1, EmptyRows DEF InLine, Before
    <2> QED  BY <1>1, <2>1, <2>4, <2>5, <2>6, <2>7
  <1> QED  BY <1>2, <1>3


-----------------------------------------------------------------------------
(* Whatever happens, what is on disk is kept *)

KeptOnDisk == OnDisk(files) \subseteq OnDisk(files') \cup stored' \cup refused'

LEMMA PlacedIsSane ==
    ASSUME sent' \in Nat, NEW fs, NEW rows, Placed(fs, rows)
    PROVE  Sane' /\ Done' = {}
  <1>1. Done' = {task'.rows[i] : i \in 1 .. 0 - 1}
    BY DEF Placed, Done
  <1>2. Done' = {}
    BY <1>1
  <1> QED  BY <1>2 DEF Placed, Sane

LEMMA WorkPlaces ==
    ASSUME Sane, MaxBatch \in Nat, Work
    PROVE  \/ Placed(files, pending)
           \/ task' = Waiting("pinging") /\ files' = files /\ pending' = pending
  BY AdvancePlaces DEF Sane, Work, queueVars

(* The steps that end or begin a flush without an insert. *)
QuietStep ==
    \/ TooEarly \/ StartConnect \/ ConnectFails \/ Connected \/ Flush \/ PingAnswered \/ PingFails

LEMMA QuietSteps ==
    ASSUME Sane, MaxBatch \in Nat, QuietStep
    PROVE  /\ \/ Placed(files, pending)
              \/ \E pc \in {"connecting", "pinging"} :
                    task' = Waiting(pc) /\ files' = files /\ pending' = pending
           /\ sent' = sent /\ stored' = stored /\ refused' = refused /\ newest' = newest
           /\ task.pc # "inserting"
  <1> USE DEF Sane, dbVars, queueVars
  <1>1. Flushable => task.pc # "inserting"
    BY DEF Flushable, Idle
  <1>2. CASE TooEarly       BY <1>1, <1>2, FinishPlaces DEF TooEarly
  <1>3. CASE StartConnect   BY <1>1, <1>3 DEF StartConnect
  <1>4. CASE ConnectFails   BY <1>4, FinishPlaces DEF ConnectFails
  <1>5. CASE Connected      BY <1>5, WorkPlaces DEF Connected
  <1>6. CASE Flush          BY <1>1, <1>6, WorkPlaces DEF Flush
  <1>7. CASE PingAnswered   BY <1>7, AdvancePlaces DEF PingAnswered
  <1>8. CASE PingFails      BY <1>8, FinishPlaces DEF PingFails
  <1> QED  BY <1>2, <1>3, <1>4, <1>5, <1>6, <1>7, <1>8 DEF QuietStep

LEMMA WaitingIsSane ==
    ASSUME Sane, NEW pc \in {"idle", "connecting", "pinging"}, task' = Waiting(pc),
           files' \in Seq(SpoolFile), pending' \in RowSeq, sent' \in Nat
    PROVE  Sane' /\ Done' = {} /\ task'.rows = <<>> /\ task'.index = 0
  <1>1. task'.rows = <<>> /\ task'.index = 0
    BY DEF Waiting, Idle
  <1>2. Done' = {task'.rows[i] : i \in 1 .. 0 - 1}
    BY <1>1 DEF Done
  <1>3. Done' = {}
    BY <1>2
  <1> QED  BY <1>1, <1>3, WaitingTask DEF Sane

LEMMA QuietKeeps ==
    ASSUME Sane, MaxBatch \in Nat, QuietStep
    PROVE  Sane' /\ KeptOnDisk
  <1>1. CASE Placed(files, pending)
    BY <1>1, QuietSteps, PlacedIsSane DEF Sane, Placed, KeptOnDisk
  <1>2. ASSUME NEW pc \in {"connecting", "pinging"},
               task' = Waiting(pc), files' = files, pending' = pending
        PROVE  Sane' /\ KeptOnDisk
    BY <1>2, QuietSteps, WaitingIsSane DEF Sane, KeptOnDisk
  <1> QED  BY <1>1, <1>2, QuietSteps

(* Rows that are dealt with, one by one or together. *)
LEMMA DealtKeeps ==
    ASSUME Sane, MaxBatch \in Nat, task.pc = "inserting", NextRow, sent' = sent,
           stored \cup refused \subseteq stored' \cup refused',
           ToSet(Attempt) \subseteq stored' \cup refused'
    PROVE  Sane' /\ KeptOnDisk
  <1>1. Done \cup ToSet(Attempt) \subseteq stored' \cup refused'
    BY DEF Sane
  <1>2. CASE /\ files' = files /\ pending' = pending /\ InTask(task', files')
             /\ Done' = Done \cup ToSet(Attempt)
    BY <1>1, <1>2 DEF Sane, KeptOnDisk
  <1>3. CASE Placed(Behind, pending) /\ ToSet(task.rows) = Done \cup ToSet(Attempt)
    <2>1. OnDisk(Behind) \subseteq OnDisk(files')
      BY <1>3 DEF Placed
    <2>2. OnDisk(files) \subseteq ToSet(task.rows) \cup OnDisk(Behind)
      BY RowsInHand
    <2>3. KeptOnDisk
      BY <1>1, <1>3, <2>1, <2>2 DEF KeptOnDisk
    <2> QED  BY <1>3, <2>3, PlacedIsSane DEF Sane
  <1> QED  BY <1>2, <1>3, NextRowPlaces

LEMMA HeardKeeps ==
    ASSUME Unheard
    PROVE  stored \subseteq stored' /\ refused' = refused
  BY DEF Unheard, Apply, dbVars

LEMMA InsertsKeep ==
    ASSUME Sane, MaxBatch \in Nat, Inserted \/ BatchRefused \/ RowRefused \/ InsertLost
    PROVE  Sane' /\ KeptOnDisk
  <1>1. CASE Inserted
    BY <1>1, DealtKeeps DEF Inserted, Apply
  <1>2. CASE RowRefused
    BY <1>2, DealtKeeps DEF RowRefused
  <1>3. CASE BatchRefused
    <2>1. /\ task.pc = "inserting" /\ task.index = 0 /\ task' = [task EXCEPT !.index = 1]
          /\ files' = files /\ pending' = pending /\ sent' = sent
          /\ stored' = stored /\ refused' = refused /\ Refusable
      BY <1>3 DEF BatchRefused, queueVars, dbVars
    <2>2. /\ task'.rows = task.rows /\ task'.index = 1 /\ task'.pc = task.pc
          /\ task'.source = task.source
      BY <2>1 DEF Sane, InTask
    <2>3. 1 <= Len(task.rows)
      <3>1. ToSet(task.rows) # {}
        BY <2>1, RowsInHand DEF Refusable
      <3>2. task.rows # <<>> /\ task.rows \in RowSeq
        BY <2>1, <3>1, EmptyRows, RowsInHand
      <3> QED  BY <3>2, EmptySeq DEF RowSeq
    <2>4. InTask(task', files')
      BY <2>1, <2>2, <2>3 DEF Sane, InTask
    <2>5. Done' = {}
      <3>1. Done' = {task'.rows[i] : i \in 1 .. 1 - 1}
        BY <2>2 DEF Done
      <3> QED  BY <3>1
    <2> QED  BY <2>1, <2>4, <2>5 DEF Sane, KeptOnDisk
  <1>4. CASE InsertLost
    <2>1. sent' = sent /\ Unheard /\ task.pc = "inserting"
      BY <1>4 DEF InsertLost
    <2>2. PICK fs, rows : Placed(fs, rows) /\ OnDisk(files) \subseteq OnDisk(fs) \cup Done
      BY <1>4, <2>1, LostInsertPlaces
    <2>3. Done \subseteq stored' \cup refused'
      BY <2>1, HeardKeeps DEF Sane
    <2> QED  BY <2>1, <2>2, <2>3, PlacedIsSane DEF Sane, Placed, KeptOnDisk
  <1> QED  BY <1>1, <1>2, <1>3, <1>4

LEMMA TornKeeps ==
    ASSUME NEW fs \in Seq(SpoolFile), NEW rows \in RowSeq, Torn(fs, rows)
    PROVE  files' \in Seq(SpoolFile) /\ OnDisk(fs) \subseteq OnDisk(files')
  <1>1. PICK n \in 0 .. Len(rows) - 1, cut \in BOOLEAN :
           files' = Append(fs, [rows |-> SubSeq(rows, 1, n), torn |-> cut])
    BY DEF Torn
  <1>2. n \in 0 .. Len(rows)
    BY ElementsAreRows
  <1>3. SubSeq(rows, 1, n) \in RowSeq
    BY <1>2, SplitRows
  <1>4. [rows |-> SubSeq(rows, 1, n), torn |-> cut] \in SpoolFile
    BY <1>3 DEF SpoolFile
  <1> QED  BY <1>1, <1>4, LastFile

LEMMA CrashKeeps ==
    ASSUME Sane, Crash
    PROVE  Sane' /\ KeptOnDisk
  <1>1. /\ pending' = <<>> /\ task' = Waiting("idle") /\ sent' = sent /\ Unheard
        /\ files' = files \/ Spooling
    BY IdleTask DEF Crash
  <1>2. files \in Seq(SpoolFile) /\ pending \in RowSeq /\ sent \in Nat
    BY DEF Sane
  <1>3. Done \subseteq stored' \cup refused'
    BY <1>1, HeardKeeps DEF Sane
  <1>4. files' \in Seq(SpoolFile) /\ OnDisk(files) \subseteq OnDisk(files') \cup Done
    <2>1. CASE files' = files
      BY <1>2, <2>1
    <2>2. CASE Torn(files, pending)
      BY <1>2, <2>2, TornKeeps
    <2>3. CASE task.pc = "inserting" /\ task.source = "spool" /\ Torn(ReplaceFile(Remaining), pending)
      <3>1. File(Remaining) \in SpoolFile /\ File(Remaining).rows = Remaining
        BY <2>3, RowsInHand DEF File, SpoolFile
      <3>2. ReplaceFile(Remaining) = <<File(Remaining)>> \o Behind
        BY <2>3 DEF ReplaceFile, Behind
      <3>3. /\ ReplaceFile(Remaining) \in Seq(SpoolFile)
            /\ OnDisk(ReplaceFile(Remaining)) = ToSet(Remaining) \cup OnDisk(Behind)
        BY <2>3, <3>1, <3>2, RowsInHand, PlaceOfFirst
      <3>4. OnDisk(files) \subseteq Done \cup ToSet(Remaining) \cup OnDisk(Behind)
        BY <2>3, RowsInHand
      <3> QED  BY <1>2, <2>3, <3>3, <3>4, TornKeeps
    <2>4. CASE task.pc = "inserting" /\ Torn(files, PutBack(Remaining))
      <3>1. PutBack(Remaining) \in RowSeq
        BY <1>2, <2>4, RowsInHand, JoinRows DEF PutBack
      <3> QED  BY <1>2, <2>4, <3>1, TornKeeps
    <2> QED  BY <1>1, <2>1, <2>2, <2>3, <2>4 DEF Spooling
  <1>5. Sane'
    BY <1>1, <1>2, <1>4, EmptyRows, WaitingIsSane
  <1> QED  BY <1>3, <1>4, <1>5 DEF KeptOnDisk

LEMMA OthersKeep ==
    ASSUME Sane, Submit \/ Outage \/ Recover \/ Shutdown \/ Start
    PROVE  Sane' /\ KeptOnDisk
  <1>1. CASE Submit
    <2>1. /\ sent' = sent + 1 /\ pending' = Append(pending, sent + 1) /\ files' = files /\ task' = task
          /\ stored' = stored /\ refused' = refused
      BY <1>1 DEF Submit, dbVars
    <2>2. sent + 1 \in Nat /\ pending \in RowSeq
      BY DEF Sane
    <2>3. pending' \in RowSeq /\ sent' \in Nat
      BY <2>1, <2>2, AppendRow
    <2> QED  BY <2>1, <2>3 DEF Sane, KeptOnDisk, Done
  <1>2. CASE Outage \/ Recover
    <2>1. UNCHANGED <<sent, queueVars, task, dbVars>>
      BY <1>2 DEF Outage, Recover
    <2> QED  BY <2>1 DEF Sane, KeptOnDisk, Done, queueVars, dbVars
  <1>3. CASE Shutdown
    <2>1. task' = Waiting("idle") /\ sent' = sent /\ files' = files /\ pending' = pending /\ Unheard
      BY <1>3, IdleTask DEF Shutdown, queueVars
    <2> QED  BY <2>1, WaitingIsSane DEF Sane, KeptOnDisk
  <1>4. CASE Start
    <2>1. /\ pending' = <<>> /\ sent' = sent /\ files' = files /\ task' = task
          /\ stored' = stored /\ refused' = refused
      BY <1>4 DEF Start, dbVars
    <2> QED  BY <2>1, EmptyRows DEF Sane, KeptOnDisk, Done
  <1> QED  BY <1>1, <1>2, <1>3, <1>4

LEMMA NextKeeps ==
    ASSUME Sane, MaxBatch \in Nat, [Next]_vars
    PROVE  Sane' /\ KeptOnDisk
  <1>1. CASE UNCHANGED vars
    BY <1>1 DEF vars, queueVars, dbVars, Sane, KeptOnDisk, Done
  <1>2. CASE Next
    <2>1. \/ QuietStep \/ Inserted \/ BatchRefused \/ RowRefused \/ InsertLost \/ Crash
          \/ Submit \/ Outage \/ Recover \/ Shutdown \/ Start
      BY <1>2 DEF Next, TaskStep, QuietStep
    <2> QED  BY <2>1, QuietKeeps, InsertsKeep, CrashKeeps, OthersKeep
  <1> QED  BY <1>1, <1>2

LEMMA InitIsSane ==
    ASSUME Init
    PROVE  Sane
  <1>1. /\ sent = 0 /\ pending = <<>> /\ files = <<>> /\ task = Waiting("idle")
    BY IdleTask DEF Init
  <1>2. task.rows = <<>> /\ task.index = 0
    BY <1>1 DEF Waiting, Idle
  <1>3. Done = {}
    BY <1>2 DEF Done
  <1> QED  BY <1>1, <1>3, WaitingTask, EmptyRows, NoFiles DEF Sane

(* A row that is on disk stays there until the database has it or refused it:
   for every batch size, however many rows, outages and restarts. *)
THEOREM DiskKept ==
    ASSUME MaxBatch \in Nat
    PROVE  Spec => SpooledIsKept
  <1>1. Sane /\ [Next]_vars => [OnDisk(files) \subseteq OnDisk(files') \cup stored' \cup refused']_vars
    BY NextKeeps DEF KeptOnDisk
  <1>2. Sane /\ [Next]_vars => Sane'
    BY NextKeeps
  <1> QED  BY <1>1, <1>2, InitIsSane, PTL DEF Spec, SpooledIsKept


-----------------------------------------------------------------------------
(* The lines on disk are counted *)

Places(fs) == UNION {{i} \X (1 .. LinesOf(fs[i])) : i \in DOMAIN fs}

LEMMA PlacesOfLines ==
    ASSUME NEW fs \in Seq(SpoolFile)
    PROVE  /\ \A i \in 1 .. Len(fs) : LinesOf(fs[i]) \in Nat
           /\ \A p : p \in Places(fs) <=> \E i \in 1 .. Len(fs) : \E k \in 1 .. LinesOf(fs[i]) : p = <<i, k>>
           /\ IsFiniteSet(Places(fs))
           /\ Lines(fs) = Cardinality(Places(fs)) /\ Lines(fs) \in Nat
  <1>1. Len(fs) \in Nat /\ DOMAIN fs = 1 .. Len(fs)
    BY FilesHaveRows
  <1>2. ASSUME NEW i \in 1 .. Len(fs) PROVE LinesOf(fs[i]) \in Nat
    <2>1. Len(fs[i].rows) \in Nat
      BY FilesHaveRows, ElementsAreRows
    <2>2. CASE fs[i].torn   BY <2>1, <2>2 DEF LinesOf
    <2>3. CASE ~fs[i].torn  BY <2>1, <2>3 DEF LinesOf
    <2> QED  BY <2>2, <2>3
  <1>3. \A p : p \in Places(fs) <=> \E i \in 1 .. Len(fs) : \E k \in 1 .. LinesOf(fs[i]) : p = <<i, k>>
    BY <1>1 DEF Places
  <1>4. IsFiniteSet(Places(fs))
    <2> DEFINE most == {LinesOf(fs[i]) : i \in 1 .. Len(fs)}
               parts == {{i} \X (1 .. LinesOf(fs[i])) : i \in 1 .. Len(fs)}
               f == [i \in 1 .. Len(fs) |-> {i} \X (1 .. LinesOf(fs[i]))]
    <2>1. IsFiniteSet(1 .. Len(fs))
      BY <1>1, FS_Interval
    <2>2. f \in Surjection(1 .. Len(fs), parts)
      BY DEF Surjection
    <2>3. IsFiniteSet(parts)
      BY <2>1, <2>2, FS_Surjection
    <2>4. ASSUME NEW i \in 1 .. Len(fs) PROVE IsFiniteSet({i} \X (1 .. LinesOf(fs[i])))
      <3>1. IsFiniteSet({i})
        BY FS_Singleton
      <3>2. IsFiniteSet(1 .. LinesOf(fs[i]))
        BY <1>2, FS_Interval
      <3> QED  BY <3>1, <3>2, FS_Product
    <2>5. \A T \in parts : IsFiniteSet(T)
      BY <2>4
    <2> HIDE DEF parts
    <2>6. IsFiniteSet(UNION parts)
      BY <2>3, <2>5, FS_UNION
    <2> QED  BY <1>1, <2>6 DEF Places, parts
  <1>5. Lines(fs) = Cardinality(Places(fs))
    BY DEF Lines, Places
  <1> QED  BY <1>2, <1>3, <1>4, <1>5, FS_CardinalityType

(* The lines of one file. *)
LEMMA LinesOfOne ==
    ASSUME NEW i, NEW n \in Nat
    PROVE  IsFiniteSet({i} \X (1 .. n)) /\ Cardinality({i} \X (1 .. n)) = n
  <1>1. IsFiniteSet({i}) /\ Cardinality({i}) = 1
    BY FS_Singleton
  <1>2. IsFiniteSet(1 .. n) /\ Cardinality(1 .. n) = n
    BY FS_Interval
  <1>3. /\ IsFiniteSet({i} \X (1 .. n))
        /\ Cardinality({i} \X (1 .. n)) = Cardinality({i}) * Cardinality(1 .. n)
    BY <1>1, <1>2, FS_Product
  <1> QED  BY <1>1, <1>2, <1>3

LEMMA NoLines == Lines(<<>>) = 0
  <1>1. DOMAIN <<>> = {}
    OBVIOUS
  <1>2. Places(<<>>) = {}
    BY <1>1 DEF Places
  <1>3. Lines(<<>>) = Cardinality(Places(<<>>))
    BY DEF Lines, Places
  <1> QED  BY <1>2, <1>3, FS_EmptySet

LEMMA LinesOfLast ==
    ASSUME NEW fs \in Seq(SpoolFile), NEW f \in SpoolFile
    PROVE  Lines(Append(fs, f)) = Lines(fs) + LinesOf(f)
  <1> DEFINE a == Append(fs, f)
             n == Len(fs) + 1
             one == {n} \X (1 .. LinesOf(f))
  <1>1. a \in Seq(SpoolFile) /\ Len(a) = n /\ a[n] = f /\ \A i \in 1 .. Len(fs) : a[i] = fs[i]
    BY AppendProperties
  <1>2. Len(fs) \in Nat /\ n \in 1 .. n
    BY FilesHaveRows
  <1> HIDE DEF a
  <1>3. LinesOf(f) \in Nat
    BY <1>1, <1>2, PlacesOfLines
  <1>4. \A i : i \in 1 .. n <=> i \in 1 .. Len(fs) \/ i = n
    BY <1>2
  <1>5. n \notin 1 .. Len(fs)
    BY <1>2
  <1> HIDE DEF n
  <1>6. \A p : p \in Places(a) <=> p \in Places(fs) \/ p \in one
    <2>1. \A p : p \in one <=> \E k \in 1 .. LinesOf(f) : p = <<n, k>>
      OBVIOUS
    <2>2. \A i \in 1 .. Len(fs) : LinesOf(a[i]) = LinesOf(fs[i])
      BY <1>1
    <2>3. LinesOf(a[n]) = LinesOf(f)
      BY <1>1
    <2>4. \A p : p \in Places(a) <=> \E i \in 1 .. n : \E k \in 1 .. LinesOf(a[i]) : p = <<i, k>>
      <3>1. Len(a) = n /\ a \in Seq(SpoolFile)
        BY <1>1
      <3>2. \A p : p \in Places(a) <=> \E i \in 1 .. Len(a) : \E k \in 1 .. LinesOf(a[i]) : p = <<i, k>>
        BY <3>1, PlacesOfLines
      <3> QED  BY <3>1, <3>2, Zenon
    <2>5. \A p : p \in Places(fs) <=> \E i \in 1 .. Len(fs) : \E k \in 1 .. LinesOf(fs[i]) : p = <<i, k>>
      BY PlacesOfLines
    <2> HIDE DEF one
    <2> QED  BY <1>4, <2>1, <2>2, <2>3, <2>4, <2>5, Zenon
  <1>7. Places(fs) \cap one = {}
    BY <1>5, PlacesOfLines
  <1>8. Places(a) = Places(fs) \cup one
    BY <1>6
  <1>9. IsFiniteSet(one) /\ Cardinality(one) = LinesOf(f)
    BY <1>3, LinesOfOne
  <1>10. /\ IsFiniteSet(Places(fs)) /\ Lines(fs) = Cardinality(Places(fs)) /\ Lines(fs) \in Nat
         /\ Lines(a) = Cardinality(Places(a))
    BY <1>1, PlacesOfLines
  <1> HIDE DEF one
  <1>11. Cardinality(Places(a)) = Cardinality(Places(fs)) + Cardinality(one) - Cardinality({})
    BY <1>7, <1>8, <1>9, <1>10, FS_Union
  <1>12. Cardinality({}) = 0
    BY FS_EmptySet
  <1> QED  BY <1>3, <1>9, <1>10, <1>11, <1>12 DEF a

LEMMA LinesOfFirst ==
    ASSUME NEW f \in SpoolFile, NEW fs \in Seq(SpoolFile)
    PROVE  Lines(<<f>> \o fs) = LinesOf(f) + Lines(fs)
  <1> DEFINE c == <<f>> \o fs
             one == {1} \X (1 .. LinesOf(f))
             rest == {<<p[1] + 1, p[2]>> : p \in Places(fs)}
             move == [p \in Places(fs) |-> <<p[1] + 1, p[2]>>]
  <1>1. c \in Seq(SpoolFile) /\ Len(c) = 1 + Len(fs) /\ c[1] = f /\ \A i \in 1 .. Len(fs) : c[i + 1] = fs[i]
    <2>1. <<f>> \in Seq(SpoolFile) /\ Len(<<f>>) = 1 /\ <<f>>[1] = f /\ Len(fs) \in Nat
      OBVIOUS
    <2>2. /\ c \in Seq(SpoolFile) /\ Len(c) = Len(<<f>>) + Len(fs)
          /\ \A i \in 1 .. Len(<<f>>) + Len(fs) :
                c[i] = IF i <= Len(<<f>>) THEN <<f>>[i] ELSE fs[i - Len(<<f>>)]
      BY <2>1, ConcatProperties
    <2> HIDE DEF c
    <2>3. 1 \in 1 .. 1 + Len(fs) /\ c[1] = f
      BY <2>1, <2>2
    <2>4. ASSUME NEW i \in 1 .. Len(fs) PROVE c[i + 1] = fs[i]
      <3>1. i + 1 \in 1 .. 1 + Len(fs) /\ ~(i + 1 <= 1) /\ (i + 1) - 1 = i
        BY <2>1
      <3> QED  BY <2>1, <2>2, <3>1
    <2> QED  BY <2>1, <2>2, <2>3, <2>4
  <1> HIDE DEF c
  <1>2. Len(fs) \in Nat /\ 1 \in 1 .. 1 + Len(fs)
    BY FilesHaveRows
  <1>3. LinesOf(f) \in Nat
    BY <1>1, <1>2, PlacesOfLines
  <1>4. \A i \in 1 .. 1 + Len(fs) : i = 1 \/ (i - 1 \in 1 .. Len(fs) /\ i = (i - 1) + 1)
    BY <1>2
  <1>5. \A i \in 1 .. Len(fs) : i + 1 \in 1 .. 1 + Len(fs) /\ i + 1 # 1
    BY <1>2
  <1>6. ASSUME NEW p PROVE p \in rest <=> \E i \in 1 .. Len(fs) : \E k \in 1 .. LinesOf(fs[i]) : p = <<i + 1, k>>
    <2>1. ASSUME p \in rest PROVE \E i \in 1 .. Len(fs) : \E k \in 1 .. LinesOf(fs[i]) : p = <<i + 1, k>>
      <3>1. PICK q \in Places(fs) : p = <<q[1] + 1, q[2]>>
        BY <2>1
      <3>2. PICK i \in 1 .. Len(fs) : \E k \in 1 .. LinesOf(fs[i]) : q = <<i, k>>
        BY PlacesOfLines
      <3>3. PICK k \in 1 .. LinesOf(fs[i]) : q = <<i, k>>
        BY <3>2
      <3>4. p = <<i + 1, k>>
        BY <3>1, <3>3
      <3> QED  BY <3>4
    <2>2. ASSUME NEW i \in 1 .. Len(fs), NEW k \in 1 .. LinesOf(fs[i]), p = <<i + 1, k>> PROVE p \in rest
      <3>1. <<i, k>> \in Places(fs)
        BY PlacesOfLines
      <3>2. p = <<<<i, k>>[1] + 1, <<i, k>>[2]>>
        BY <2>2
      <3> QED  BY <3>1, <3>2
    <2> QED  BY <2>1, <2>2
  <1>7. \A p : p \in one <=> \E k \in 1 .. LinesOf(f) : p = <<1, k>>
    OBVIOUS
  <1> HIDE DEF one
  <1>8. ASSUME NEW p PROVE p \in Places(c) <=> p \in one \/ p \in rest
    <2>1. ASSUME p \in Places(c) PROVE p \in one \/ p \in rest
      <3>0. PICK i \in 1 .. 1 + Len(fs) : \E k \in 1 .. LinesOf(c[i]) : p = <<i, k>>
        BY <1>1, <2>1, PlacesOfLines
      <3>1. PICK k \in 1 .. LinesOf(c[i]) : p = <<i, k>>
        BY <3>0
      <3>2. CASE i = 1
        BY <1>1, <1>7, <3>1, <3>2
      <3>3. CASE i - 1 \in 1 .. Len(fs) /\ i = (i - 1) + 1
        <4>1. c[i] = fs[i - 1]
          BY <1>1, <3>3
        <4>2. k \in 1 .. LinesOf(fs[i - 1]) /\ p = <<(i - 1) + 1, k>>
          BY <3>1, <3>3, <4>1
        <4> HIDE DEF rest
        <4> QED  BY <1>6, <3>3, <4>2
      <3> QED  BY <1>4, <3>2, <3>3
    <2>2. ASSUME p \in one PROVE p \in Places(c)
      BY <1>1, <1>2, <1>7, <2>2, PlacesOfLines
    <2>3. ASSUME p \in rest PROVE p \in Places(c)
      <3>0. PICK i \in 1 .. Len(fs) : \E k \in 1 .. LinesOf(fs[i]) : p = <<i + 1, k>>
        BY <1>6, <2>3
      <3>1. PICK k \in 1 .. LinesOf(fs[i]) : p = <<i + 1, k>>
        BY <3>0
      <3>2. i + 1 \in 1 .. Len(c) /\ k \in 1 .. LinesOf(c[i + 1])
        BY <1>1, <1>5, <3>1
      <3> QED  BY <1>1, <3>1, <3>2, PlacesOfLines
    <2> QED  BY <2>1, <2>2, <2>3
  <1>9. Places(c) = one \cup rest
    <2> HIDE DEF rest
    <2> QED  BY <1>8
  <1>10. one \cap rest = {}
    <2> HIDE DEF rest
    <2> QED  BY <1>5, <1>6, <1>7
  <1>11. IsFiniteSet(one) /\ Cardinality(one) = LinesOf(f)
    BY <1>3, LinesOfOne DEF one
  <1>12. IsFiniteSet(Places(fs)) /\ Lines(fs) = Cardinality(Places(fs)) /\ Lines(fs) \in Nat
         /\ Lines(c) = Cardinality(Places(c))
    BY <1>1, PlacesOfLines
  <1>13. IsFiniteSet(rest) /\ Cardinality(rest) = Lines(fs)
    <2>1. move \in Surjection(Places(fs), rest)
      BY DEF Surjection
    <2>2. move \in Injection(Places(fs), rest)
      <3>1. ASSUME NEW p \in Places(fs), NEW q \in Places(fs), move[p] = move[q] PROVE p = q
        <4>1. PICK i \in 1 .. Len(fs) : \E k \in 1 .. LinesOf(fs[i]) : p = <<i, k>>
          BY PlacesOfLines
        <4>2. PICK j \in 1 .. Len(fs) : \E m \in 1 .. LinesOf(fs[j]) : q = <<j, m>>
          BY PlacesOfLines
        <4>3. PICK k \in 1 .. LinesOf(fs[i]) : p = <<i, k>>
          BY <4>1
        <4>4. PICK m \in 1 .. LinesOf(fs[j]) : q = <<j, m>>
          BY <4>2
        <4>5. <<i + 1, k>> = <<j + 1, m>>
          BY <3>1, <4>3, <4>4
        <4> QED  BY <4>3, <4>4, <4>5
      <3>2. move \in [Places(fs) -> rest]
        OBVIOUS
      <3> HIDE DEF move, rest
      <3> QED  BY <3>1, <3>2 DEF Injection, IsInjective
    <2> HIDE DEF move, rest
    <2> QED  BY <1>12, <2>1, <2>2, FS_Surjection
  <1> HIDE DEF rest
  <1>14. Cardinality(Places(c)) = Cardinality(one) + Cardinality(rest) - Cardinality({})
    BY <1>9, <1>10, <1>11, <1>13, FS_Union
  <1>15. Cardinality({}) = 0
    BY FS_EmptySet
  <1> QED  BY <1>3, <1>11, <1>12, <1>13, <1>14, <1>15 DEF c

LEMMA LinesBehind ==
    ASSUME NEW fs \in Seq(SpoolFile), fs # <<>>
    PROVE  Lines(fs) = LinesOf(Head(fs)) + Lines(Tail(fs))
  <1>1. Head(fs) \in SpoolFile /\ Tail(fs) \in Seq(SpoolFile)
    BY FirstFile
  <1>2. fs = <<Head(fs)>> \o Tail(fs)
    OBVIOUS
  <1> QED  BY <1>1, <1>2, LinesOfFirst

(* What is counted is on disk: the file being replayed has only whole lines,
   and a dead process holds nothing. *)
Tally ==
    /\ task.source = "spool" => ~Head(files).torn
    /\ IF stage = "down" THEN task = Idle ELSE spooled = Lines(files)

LEMMA FinishTallies ==
    ASSUME NEW fs \in Seq(SpoolFile), NEW rows \in RowSeq, NEW count, NEW spool, count = Lines(fs),
           Finish(fs, rows, count, spool)
    PROVE  Tally'
  <1>1. /\ task' = Idle
        /\ \/ files' = Append(fs, File(rows)) /\ spooled' = count + Len(rows)
           \/ files' = fs /\ spooled' = count
    BY DEF Finish, SpoolAppend
  <1>2. Idle.source = "none"
    BY DEF Idle
  <1>3. File(rows) \in SpoolFile /\ LinesOf(File(rows)) = Len(rows)
    BY ElementsAreRows DEF File, SpoolFile, LinesOf
  <1>4. Lines(Append(fs, File(rows))) = Lines(fs) + Len(rows)
    BY <1>3, LinesOfLast
  <1>5. spooled' = Lines(files')
    BY <1>1, <1>4
  <1>6. Tally' <=> /\ task'.source = "spool" => ~Head(files').torn
                   /\ IF stage' = "down" THEN task' = Idle ELSE spooled' = Lines(files')
    BY DEF Tally, Idle, Lines, LinesOf
  <1> QED  BY <1>1, <1>2, <1>5, <1>6

LEMMA AbortTallies ==
    ASSUME NEW fs \in Seq(SpoolFile), NEW rows \in RowSeq, NEW count, count = Lines(fs),
           Abort(fs, rows, count)
    PROVE  Tally'
  <1>1. CASE stage = "starting"
    <2>1. task' = Idle /\ stage' = "down"
      BY <1>1 DEF Abort
    <2>2. task'.source = "none"
      BY <2>1 DEF Idle
    <2> QED  BY <2>1, <2>2 DEF Tally, Idle
  <1>2. CASE stage # "starting"
    BY <1>2, FinishTallies DEF Abort
  <1> QED  BY <1>1, <1>2

LEMMA AdvanceTallies ==
    ASSUME NEW fs \in Seq(SpoolFile), NEW rows \in RowSeq, NEW count, count = Lines(fs), stage # "down",
           Advance(fs, rows, count)
    PROVE  Tally'
  <1>1. CASE fs # <<>> /\ Head(fs).torn
    BY <1>1, AbortTallies DEF Advance
  <1>2. CASE fs # <<>> /\ ~Head(fs).torn
    <2>1. files' = fs /\ spooled' = count /\ stage' = stage
      BY <1>2 DEF Advance
    <2> QED  BY <1>2, <2>1 DEF Tally, Lines, LinesOf
  <1>3. CASE fs = <<>> /\ rows # <<>>
    <2>1. files' = fs /\ spooled' = count /\ stage' = stage /\ task'.source = "memory"
      BY <1>3 DEF Advance, Inserting
    <2> QED  BY <2>1 DEF Tally, Lines, LinesOf
  <1>4. CASE fs = <<>> /\ rows = <<>>
    BY <1>4, FinishTallies DEF Advance
  <1> QED  BY <1>1, <1>2, <1>3, <1>4

(* The first file, replayed or replaced. *)
LEMMA FirstTallies ==
    ASSUME Sane, Tally, task.pc = "inserting", task.source = "spool"
    PROVE  /\ spooled - Len(task.rows) = Lines(Tail(files)) /\ Tail(files) \in Seq(SpoolFile)
           /\ spooled - CountedOff = Lines(ReplaceFile(Remaining))
           /\ ReplaceFile(Remaining) \in Seq(SpoolFile)
  <1>1. files # <<>> /\ Head(files).rows = task.rows /\ files \in Seq(SpoolFile) /\ ~Head(files).torn
    BY DEF Sane, InTask, Tally
  <1>2. Head(files) \in SpoolFile /\ Tail(files) \in Seq(SpoolFile)
    BY <1>1, FirstFile
  <1>3. spooled = Lines(files)
    BY DEF Tally, Idle
  <1>4. task.rows \in RowSeq /\ Len(task.rows) \in Nat /\ Remaining \in RowSeq /\ Len(Remaining) \in Nat
    BY RowsInHand, ElementsAreRows
  <1>5. LinesOf(Head(files)) = Len(task.rows)
    BY <1>1, <1>4 DEF LinesOf
  <1>6. File(Remaining) \in SpoolFile /\ LinesOf(File(Remaining)) = Len(Remaining)
    BY <1>4 DEF File, SpoolFile, LinesOf
  <1>7. Lines(files) = Len(task.rows) + Lines(Tail(files))
    BY <1>1, <1>5, LinesBehind
  <1>8. Lines(ReplaceFile(Remaining)) = Len(Remaining) + Lines(Tail(files))
    BY <1>2, <1>6, LinesOfFirst DEF ReplaceFile
  <1>9. ReplaceFile(Remaining) \in Seq(SpoolFile)
    BY <1>2, <1>6, PlaceOfFirst DEF ReplaceFile
  <1>10. Lines(Tail(files)) \in Nat
    BY <1>2, PlacesOfLines
  <1>11. spooled - CountedOff = Lines(ReplaceFile(Remaining))
    <2>1. CountedOff = Len(task.rows) - Len(Remaining)
      BY DEF CountedOff
    <2> QED  BY <1>3, <1>4, <1>7, <1>8, <1>10, <2>1
  <1> QED  BY <1>2, <1>3, <1>4, <1>7, <1>9, <1>10, <1>11

LEMMA NextRowTallies ==
    ASSUME Sane, Tally, task.pc = "inserting", NextRow
    PROVE  Tally'
  <1>1. stage # "down" /\ spooled = Lines(files) /\ files \in Seq(SpoolFile) /\ pending \in RowSeq
    BY DEF Tally, Idle, Sane
  <1>2. CASE task.index \in 1 .. Len(task.rows) - 1
    <2>1. task' = [task EXCEPT !.index = @ + 1] /\ files' = files /\ spooled' = spooled /\ stage' = stage
      BY <1>2 DEF NextRow, queueVars
    <2>2. task'.source = task.source
      BY <2>1 DEF Sane, InTask
    <2> QED  BY <1>1, <2>1, <2>2 DEF Tally, Lines, LinesOf
  <1>3. CASE ~(task.index \in 1 .. Len(task.rows) - 1)
    <2>1. Written
      BY <1>3 DEF NextRow
    <2>2. CASE task.source = "spool"
      <3>1. Advance(Tail(files), pending, spooled - Len(task.rows))
        BY <2>1, <2>2 DEF Written
      <3> QED  BY <1>1, <2>2, <3>1, FirstTallies, AdvanceTallies
    <2>3. CASE task.source # "spool"
      <3>1. Advance(files, pending, spooled)
        BY <2>1, <2>3 DEF Written
      <3> QED  BY <1>1, <3>1, AdvanceTallies
    <2> QED  BY <2>2, <2>3
  <1> QED  BY <1>2, <1>3

LEMMA NextTallies ==
    ASSUME Sane, Tally, [Next]_vars
    PROVE  Tally'
  <1>1. files \in Seq(SpoolFile) /\ pending \in RowSeq
    BY DEF Sane
  <1>2. stage # "down" => spooled = Lines(files)
    BY DEF Tally
  <1>3. task.pc # "idle" => stage # "down"
    BY DEF Tally, Idle
  <1>4. ASSUME UNCHANGED <<files, spooled, task, stage>> PROVE Tally'
    BY <1>4 DEF Tally, Idle, Lines, LinesOf
  <1>5. ASSUME NEW pc, task' = Waiting(pc), stage # "down", UNCHANGED <<files, spooled, stage>> PROVE Tally'
    <2>1. task'.source = "none"
      BY <1>5 DEF Waiting, Idle
    <2> QED  BY <1>2, <1>5, <2>1 DEF Tally, Lines, LinesOf
  <1>6. ASSUME Work, stage # "down" PROVE Tally'
    <2>1. CASE task' = Waiting("pinging") /\ UNCHANGED <<queueVars, stage>>
      BY <1>5, <1>6, <2>1 DEF queueVars
    <2>2. CASE Advance(files, pending, spooled)
      BY <1>1, <1>2, <1>6, <2>2, AdvanceTallies
    <2> QED  BY <1>6, <2>1, <2>2 DEF Work
  <1>7. CASE Submit \/ Outage \/ Recover
    BY <1>4, <1>7 DEF Submit, Outage, Recover, queueVars
  <1>8. CASE StartConnect
    BY <1>5, <1>8 DEF StartConnect, Flushable, queueVars
  <1>9. CASE TooEarly
    BY <1>1, <1>2, <1>9, FinishTallies DEF TooEarly, Flushable
  <1>10. CASE ConnectFails
    BY <1>1, <1>2, <1>3, <1>10, FinishTallies DEF ConnectFails
  <1>11. CASE Connected
    BY <1>3, <1>6, <1>11 DEF Connected
  <1>12. CASE Flush
    BY <1>6, <1>12 DEF Flush, Flushable
  <1>13. CASE PingAnswered
    BY <1>1, <1>2, <1>3, <1>13, AdvanceTallies DEF PingAnswered
  <1>14. CASE PingFails
    BY <1>1, <1>2, <1>3, <1>14, FinishTallies DEF PingFails
  <1>15. CASE Inserted \/ RowRefused
    BY <1>15, NextRowTallies DEF Inserted, RowRefused
  <1>16. CASE BatchRefused
    <2>1. task' = [task EXCEPT !.index = 1] /\ files' = files /\ spooled' = spooled /\ stage' = stage
          /\ task.pc = "inserting"
      BY <1>16 DEF BatchRefused, queueVars
    <2>2. task'.source = task.source
      BY <2>1 DEF Sane, InTask
    <2> QED  BY <1>2, <1>3, <2>1, <2>2 DEF Tally, Lines, LinesOf
  <1>17. CASE InsertLost
    <2>1. task.pc = "inserting" /\ stage # "down"
      BY <1>3, <1>17 DEF InsertLost
    <2>2. CASE task.source = "spool"
      <3>1. Finish(ReplaceFile(Remaining), pending, spooled - CountedOff, TRUE)
        BY <1>17, <2>2 DEF InsertLost
      <3> QED  BY <1>1, <2>1, <2>2, <3>1, FirstTallies, FinishTallies
    <2>3. CASE task.source # "spool"
      <3>1. Finish(files, PutBack(Remaining), spooled, TRUE)
        BY <1>17, <2>3 DEF InsertLost
      <3>2. PutBack(Remaining) \in RowSeq
        BY <1>1, <2>1, RowsInHand, JoinRows DEF PutBack
      <3> QED  BY <1>1, <1>2, <2>1, <3>1, <3>2, FinishTallies
    <2> QED  BY <2>2, <2>3
  <1>18. CASE Shutdown
    <2>1. task' = Idle /\ files' = files /\ spooled' = spooled /\ stage = "running" /\ stage' = "closing"
      BY <1>18 DEF Shutdown, queueVars
    <2>2. task'.source = "none"
      BY <2>1 DEF Idle
    <2> QED  BY <1>2, <2>1, <2>2 DEF Tally, Lines, LinesOf
  <1>19. CASE Crash
    <2>1. task' = Idle /\ stage' = "down"
      BY <1>19 DEF Crash
    <2>2. task'.source = "none"
      BY <2>1 DEF Idle
    <2> QED  BY <2>1, <2>2 DEF Tally, Idle
  <1>20. CASE Start
    <2>1. task' = task /\ files' = files /\ spooled' = Lines(files) /\ stage' = "starting" /\ stage = "down"
      BY <1>20 DEF Start
    <2> QED  BY <2>1 DEF Tally, Lines, LinesOf
  <1>21. CASE UNCHANGED vars
    BY <1>4, <1>21 DEF vars, queueVars
  <1> QED
    BY <1>7, <1>8, <1>9, <1>10, <1>11, <1>12, <1>13, <1>14, <1>15, <1>16, <1>17, <1>18, <1>19, <1>20, <1>21
    DEF Next, TaskStep

LEMMA InitTallies ==
    ASSUME Init
    PROVE  Tally
  BY NoLines DEF Init, Tally, Idle

LEMMA TallyCounts == Tally => SpooledIsCounted
  BY DEF Tally, SpooledIsCounted

(* The counter of spooled rows shown to the user is what is on disk, after any
   partial replay, replaced file, crash and restart: for every batch size,
   however many rows, outages and restarts. *)
THEOREM SpooledCounted ==
    ASSUME MaxBatch \in Nat
    PROVE  Spec => []SpooledIsCounted
  <1>1. Sane /\ [Next]_vars => Sane'
    BY NextKeeps
  <1> QED  BY <1>1, NextTallies, InitIsSane, InitTallies, TallyCounts, PTL DEF Spec

-----------------------------------------------------------------------------
(* While the process lives, rows are dealt with in the order of submit() *)

Line == InLine(files, task.rows, pending)

Waits == OnDisk(files) \cup ToSet(task.rows) \cup ToSet(pending)

Left == Waits \ Done

(* Rows up to n were given to the database, those behind m are still here: the
   ones in between were committed by inserts whose answer was lost. *)
Dealt(m, n) ==
    /\ m \in 0 .. sent /\ n \in 0 .. sent /\ m <= n
    /\ Left = m + 1 .. sent
    /\ stored = (1 .. n) \ Bad /\ refused = (1 .. n) \cap Bad
    /\ \A r \in stored : r <= m => r <= newest

Ordered ==
    /\ ends = 0
    /\ newest \in Nat
    /\ Line
    /\ Waits \subseteq 1 .. sent
    /\ \E m, n \in Nat : Dealt(m, n)

IInv == Sane /\ Ordered

LEMMA LeftOfBatch ==
    ASSUME Sane, Line, task.pc = "inserting"
    PROVE  /\ Waits = ToSet(task.rows) \cup OnDisk(Behind) \cup ToSet(pending)
           /\ Left = ToSet(Remaining) \cup OnDisk(Behind) \cup ToSet(pending)
           /\ Before(ToSet(task.rows), OnDisk(Behind) \cup ToSet(pending))
           /\ InLine(Behind, <<>>, pending)
  <1>1. /\ task.rows \in RowSeq /\ ToSet(task.rows) = Done \cup ToSet(Remaining)
        /\ Behind \in Seq(SpoolFile)
        /\ OnDisk(files) \cup ToSet(task.rows) = ToSet(task.rows) \cup OnDisk(Behind)
        /\ Before(Done, ToSet(Remaining))
    BY RowsInHand DEF Line, InLine
  <1>2. ToSet(task.rows) \subseteq Nat
    BY <1>1, ElementsAreRows
  <1>3. Waits = ToSet(task.rows) \cup OnDisk(Behind) \cup ToSet(pending)
    BY <1>1 DEF Waits
  <1>4. Before(ToSet(task.rows), OnDisk(Behind)) /\ InOrder(Behind)
    <2>1. CASE task.source = "spool"
      <3>1. files # <<>> /\ Head(files).rows = task.rows /\ files \in Seq(SpoolFile) /\ InOrder(files)
        BY <2>1 DEF Sane, InTask, Line, InLine
      <3> QED  BY <2>1, <3>1, FirstFile DEF Behind
    <2>2. CASE task.source # "spool"
      <3>1. Behind = <<>>
        BY <2>2 DEF Sane, InTask, Behind
      <3> QED  BY <3>1, NoFiles DEF Before
    <2> QED  BY <2>1, <2>2
  <1>5. Before(ToSet(task.rows), OnDisk(Behind) \cup ToSet(pending))
    BY <1>4 DEF Line, InLine, Before
  <1>6. \A r \in Done : r \notin ToSet(Remaining) \cup OnDisk(Behind) \cup ToSet(pending)
    BY <1>1, <1>2, <1>5 DEF Before
  <1>7. Left = ToSet(Remaining) \cup OnDisk(Behind) \cup ToSet(pending)
    BY <1>1, <1>3, <1>6 DEF Left
  <1>8. OnDisk(Behind) \subseteq OnDisk(files) \cup ToSet(task.rows)
    BY <1>1
  <1>9. InLine(Behind, <<>>, pending)
    BY <1>4, <1>8, EmptyRows DEF Line, InLine, Before
  <1> QED  BY <1>2, <1>3, <1>5, <1>7, <1>9

(* What is inserted next are the oldest rows that are left. *)
LEMMA AttemptIsOldest ==
    ASSUME Sane, Line, task.pc = "inserting"
    PROVE  /\ ToSet(Attempt) \subseteq Left
           /\ Before(ToSet(Attempt), Left \ ToSet(Attempt))
  <1>1. /\ Left = ToSet(Remaining) \cup OnDisk(Behind) \cup ToSet(pending)
        /\ Before(ToSet(task.rows), OnDisk(Behind) \cup ToSet(pending))
        /\ ToSet(Attempt) \subseteq ToSet(Remaining) /\ ToSet(Remaining) \subseteq ToSet(task.rows)
    BY LeftOfBatch, RowsInHand
  <1>2. Before(ToSet(Attempt), ToSet(Remaining) \ ToSet(Attempt))
    <2>1. CASE task.index = 0
      BY <2>1, RowsInHand DEF Before
    <2>2. CASE task.index # 0
      <3> DEFINE k == task.index
      <3>1. /\ ToSet(Attempt) = {task.rows[k]}
            /\ ToSet(Remaining) = {task.rows[i] : i \in k .. Len(task.rows)}
            /\ k \in 1 .. Len(task.rows) /\ Len(task.rows) \in Nat
            /\ DOMAIN task.rows = 1 .. Len(task.rows)
        BY <2>2, RowsInHand, ElementsAreRows
      <3> SUFFICES ASSUME NEW i \in k .. Len(task.rows), task.rows[i] # task.rows[k]
                   PROVE  task.rows[k] < task.rows[i]
        BY <3>1 DEF Before
      <3>2. k < i /\ i \in 1 .. Len(task.rows)
        BY <3>1
      <3> QED  BY <3>1, <3>2 DEF Line, InLine, Sorted
    <2> QED  BY <2>1, <2>2
  <1> QED  BY <1>1, <1>2 DEF Before

LEMMA AttemptIsRange ==
    ASSUME Sane, Line, task.pc = "inserting", NEW m \in Nat, m <= sent, Left = m + 1 .. sent
    PROVE  \E k \in m .. sent : /\ ToSet(Attempt) = m + 1 .. k
                                /\ Attempt # <<>> => Last(Attempt) = k
                                /\ Attempt = <<>> => k = m
  <1>1. Attempt \in RowSeq /\ Sorted(Attempt) /\ sent \in Nat
    BY RowsInHand DEF Sane, Line, InLine
  <1>2. CASE Attempt = <<>>
    <2>1. ToSet(Attempt) = {} /\ m + 1 .. m = {} /\ m \in m .. sent
      BY <1>1, <1>2, EmptyRows
    <2> QED  BY <1>2, <2>1
  <1>3. CASE Attempt # <<>>
    <2> DEFINE l == Len(Attempt)
               k == Attempt[l]
    <2>1. l \in Nat \ {0} /\ l \in 1 .. l
      BY <1>1, <1>3, EmptySeq DEF RowSeq
    <2>2. k \in ToSet(Attempt) /\ Last(Attempt) = k
      BY <1>1, <2>1, ElementsAreRows DEF Last
    <2>3. k \in m + 1 .. sent /\ ToSet(Attempt) \subseteq m + 1 .. sent
      BY <2>2, AttemptIsOldest
    <2>4. ASSUME NEW r \in ToSet(Attempt) PROVE r <= k
      <3>1. PICK i \in 1 .. l : r = Attempt[i]
        BY <1>1, ElementsAreRows
      <3>2. i = l \/ i < l
        BY <2>1
      <3>3. CASE i < l
        <4>1. r < k
          BY <1>1, <2>1, <3>1, <3>3, ElementsAreRows DEF Sorted
        <4> QED  BY <2>3, <4>1
      <3> QED  BY <2>3, <3>1, <3>2, <3>3
    <2>5. ASSUME NEW r \in m + 1 .. k PROVE r \in ToSet(Attempt)
      <3>1. r \in Left /\ r <= k
        BY <1>1, <2>3
      <3>2. ~(k < r)
        BY <2>3, <2>5
      <3> QED  BY <2>2, <3>1, <3>2, AttemptIsOldest DEF Before
    <2> HIDE DEF k
    <2>6. ToSet(Attempt) = m + 1 .. k
      <3>1. \A r \in ToSet(Attempt) : r \in m + 1 .. k
        BY <2>3, <2>4
      <3> QED  BY <2>5, <3>1
    <2>7. k \in m .. sent
      BY <2>3
    <2> QED  BY <1>3, <2>2, <2>6, <2>7
  <1> QED  BY <1>2, <1>3

LEMMA PlacedInLine ==
    ASSUME NEW fs, NEW rows, Placed(fs, rows), InLine(fs, <<>>, rows), sent' \in Nat
    PROVE  /\ Line' /\ Waits' = OnDisk(fs) \cup ToSet(rows)
           /\ Left' = OnDisk(fs) \cup ToSet(rows)
  BY PlacedIsSane DEF Placed, Line, Waits, Left

LEMMA QuietInLine ==
    ASSUME Sane, Line, MaxBatch \in Nat, QuietStep
    PROVE  Line' /\ Waits' = Waits /\ Left' = Left
  <1>1. /\ task.rows = <<>> /\ ToSet(task.rows) = {} /\ Done = {} /\ sent' \in Nat
        /\ files \in Seq(SpoolFile) /\ pending \in RowSeq
    BY QuietSteps, TaskIsEmpty, EmptyRows DEF Sane
  <1>2. CASE Placed(files, pending)
    BY <1>1, <1>2, PlacedInLine DEF Line, Waits, Left
  <1>3. ASSUME NEW pc \in {"connecting", "pinging"},
               task' = Waiting(pc), files' = files, pending' = pending
        PROVE  Line' /\ Waits' = Waits /\ Left' = Left
    <2>1. Done' = {} /\ task'.rows = <<>>
      BY <1>1, <1>3, WaitingIsSane
    <2> QED  BY <1>1, <1>3, <2>1 DEF Line, Waits, Left
  <1> QED  BY <1>2, <1>3, QuietSteps

LEMMA DealtInLine ==
    ASSUME Sane, Line, MaxBatch \in Nat, task.pc = "inserting", NextRow, sent' = sent
    PROVE  Line' /\ Waits' \subseteq Waits /\ Left' = Left \ ToSet(Attempt)
  <1>1. CASE /\ files' = files /\ pending' = pending /\ task'.rows = task.rows
             /\ Done' = Done \cup ToSet(Attempt)
    BY <1>1 DEF Line, Waits, Left
  <1>2. CASE Placed(Behind, pending) /\ ToSet(task.rows) = Done \cup ToSet(Attempt)
    <2>1. /\ Line' /\ Waits' = OnDisk(Behind) \cup ToSet(pending)
          /\ Left' = OnDisk(Behind) \cup ToSet(pending)
      BY <1>2, LeftOfBatch, PlacedInLine DEF Sane
    <2>2. /\ Waits = ToSet(task.rows) \cup OnDisk(Behind) \cup ToSet(pending)
          /\ Before(ToSet(task.rows), OnDisk(Behind) \cup ToSet(pending))
      BY LeftOfBatch
    <2>3. ToSet(task.rows) \subseteq Nat
      BY RowsInHand, ElementsAreRows
    <2>4. \A r \in ToSet(task.rows) : r \notin OnDisk(Behind) \cup ToSet(pending)
      BY <2>2, <2>3 DEF Before
    <2>5. Left \ ToSet(Attempt) = OnDisk(Behind) \cup ToSet(pending)
      BY <1>2, <2>2, <2>4 DEF Left
    <2> QED  BY <2>1, <2>2, <2>5
  <1> QED  BY <1>1, <1>2, NextRowPlaces

LEMMA LostInLine ==
    ASSUME Sane, Line, task.pc = "inserting", InsertLost
    PROVE  Line' /\ Waits' \subseteq Waits /\ Left' = Left
  <1>1. PICK fs, rows :
              /\ Placed(fs, rows)
              /\ OnDisk(fs) \cup ToSet(rows) = ToSet(Remaining) \cup OnDisk(Behind) \cup ToSet(pending)
              /\ InLine(fs, <<>>, rows)
    BY LostInsertPlaces DEF Line
  <1>2. sent' \in Nat
    BY DEF InsertLost, Sane
  <1> QED  BY <1>1, <1>2, PlacedInLine, LeftOfBatch DEF Left


(* Applied rows show the newest of them. *)
LEMMA AppliedShows ==
    ASSUME NEW rows, NEW k, Apply(rows), rows # <<>> => Last(rows) = k
    PROVE  /\ stored' = stored \cup ToSet(rows) /\ refused' = refused
           /\ newest' = IF rows = <<>> THEN newest ELSE k
  BY DEF Apply

LEMMA LogGoesOn ==
    ASSUME NEW n \in Nat, NEW p \in Nat, n <= p, p <= sent, sent \in Nat, sent' = sent,
           stored = (1 .. n) \ Bad, refused = (1 .. n) \cap Bad,
           stored' = (1 .. p) \ Bad, refused' = (1 .. p) \cap Bad
    PROVE  [Log!Next]_(Log!vars)
  <1>1. CASE p = 0
    <2>1. stored' = stored /\ refused' = refused
      <3>1. n = p
        BY <1>1
      <3> QED  BY <3>1
    <2> QED  BY <2>1 DEF Log!vars
  <1>2. CASE p # 0
    <2>1. p \in 1 .. sent /\ 1 .. n \subseteq 1 .. p
      BY <1>2
    <2>2. Log!Record(p)
      BY <2>1 DEF Log!Record, Log!Handled
    <2> QED  BY <2>1, <2>2 DEF Log!Next
  <1> QED  BY <1>1, <1>2

(* The oldest rows left are dealt with: all of them stored, or all refused. *)
LEMMA DealtGrows ==
    ASSUME sent \in Nat, sent' = sent, newest \in Nat, NEW m \in Nat, NEW n \in Nat, Dealt(m, n),
           NEW k \in m .. sent, NEW A, A = m + 1 .. k,
           Left' = Left \ A,
           \/ /\ stored' = stored \cup A /\ refused' = refused /\ A \cap Bad = {}
              /\ newest' = IF k = m THEN newest ELSE k
           \/ stored' = stored /\ refused' = refused \cup A /\ A \subseteq Bad /\ newest' = newest
    PROVE  newest' \in Nat /\ (\E p, q \in Nat : Dealt(p, q)') /\ [Log!Next]_(Log!vars)
  <1> DEFINE p == IF n <= k THEN k ELSE n
  <1>1. p \in Nat /\ p \in 0 .. sent /\ n <= p /\ k <= p /\ k \in 0 .. sent /\ k \in Nat /\ m <= n
    BY DEF Dealt
  <1>2. 1 .. p = (1 .. n) \cup A
    <2>1. \A i : i \in 1 .. p <=> i \in 1 .. n \/ i \in m + 1 .. k
      BY <1>1
    <2> QED  BY <2>1
  <1>3. Left' = k + 1 .. sent
    <2>1. \A i : i \in m + 1 .. sent /\ i \notin m + 1 .. k <=> i \in k + 1 .. sent
      BY <1>1
    <2> QED  BY <2>1 DEF Dealt
  <1>4. stored = (1 .. n) \ Bad /\ refused = (1 .. n) \cap Bad
    BY DEF Dealt
  <1>5. stored' = (1 .. p) \ Bad /\ refused' = (1 .. p) \cap Bad
    BY <1>2, <1>4
  <1>6. newest' \in Nat
    BY <1>1
  <1>7. \A r \in stored' : r <= k => r <= newest'
    <2>1. CASE stored' = stored \cup A /\ newest' = IF k = m THEN newest ELSE k
      <3>1. CASE k = m
        <4>1. A = {}
          BY <3>1
        <4> QED  BY <2>1, <3>1, <4>1 DEF Dealt
      <3>2. CASE k # m
        BY <2>1, <3>2
      <3> QED  BY <3>1, <3>2
    <2>2. CASE stored' = stored /\ A \subseteq Bad /\ newest' = newest
      <3> SUFFICES ASSUME NEW r \in stored, r <= k PROVE r <= newest
        BY <2>2
      <3>1. r \in Nat /\ r \notin A
        BY <1>4, <2>2
      <3>2. r <= m
        BY <1>1, <3>1
      <3> QED  BY <3>2 DEF Dealt
    <2> QED  BY <2>1, <2>2
  <1>8. Dealt(k, p)'
    BY <1>1, <1>3, <1>5, <1>7 DEF Dealt
  <1>9. [Log!Next]_(Log!vars)
    BY <1>1, <1>4, <1>5, LogGoesOn
  <1> QED  BY <1>1, <1>6, <1>8, <1>9

(* They were committed and nobody heard of it: they are dealt with again. *)
LEMMA DealtAgain ==
    ASSUME sent \in Nat, sent' = sent, newest \in Nat, NEW m \in Nat, NEW n \in Nat, Dealt(m, n),
           NEW k \in m .. sent, NEW A, A = m + 1 .. k, Left' = Left,
           stored' = stored \cup A, refused' = refused, A \cap Bad = {},
           newest' = IF k = m THEN newest ELSE k
    PROVE  newest' \in Nat /\ (\E p, q \in Nat : Dealt(p, q)') /\ [Log!Next]_(Log!vars)
  <1> DEFINE p == IF n <= k THEN k ELSE n
  <1>1. p \in Nat /\ p \in 0 .. sent /\ n <= p /\ k <= p /\ k \in Nat /\ m <= n /\ m <= k
    BY DEF Dealt
  <1>2. 1 .. p = (1 .. n) \cup A
    <2>1. \A i : i \in 1 .. p <=> i \in 1 .. n \/ i \in m + 1 .. k
      BY <1>1
    <2> QED  BY <2>1
  <1>3. stored = (1 .. n) \ Bad /\ refused = (1 .. n) \cap Bad
    BY DEF Dealt
  <1>4. stored' = (1 .. p) \ Bad /\ refused' = (1 .. p) \cap Bad
    BY <1>2, <1>3
  <1>5. \A r \in stored' : r <= m => r <= newest'
    <2> SUFFICES ASSUME NEW r \in stored', r <= m PROVE r <= newest'
      OBVIOUS
    <2>1. r \in Nat
      BY <1>4
    <2>2. r \in stored
      BY <2>1
    <2>3. r <= newest
      BY <2>2 DEF Dealt
    <2> QED  BY <1>1, <2>1, <2>3
  <1>6. Dealt(m, p)'
    BY <1>1, <1>4, <1>5 DEF Dealt
  <1>7. [Log!Next]_(Log!vars)
    BY <1>1, <1>3, <1>4, LogGoesOn
  <1> QED  BY <1>1, <1>6, <1>7

LEMMA DealtOnly ==
    ASSUME sent' = sent, newest' = newest, stored' = stored, refused' = refused, Left' = Left,
           NEW m, NEW n, Dealt(m, n)
    PROVE  Dealt(m, n)' /\ [Log!Next]_(Log!vars)
  BY DEF Dealt, Log!vars

LEMMA QuietOrders ==
    ASSUME IInv, MaxBatch \in Nat, QuietStep
    PROVE  Ordered' /\ [Log!Next]_(Log!vars)
  <1>1. Line' /\ Waits' = Waits /\ Left' = Left
    BY QuietInLine DEF IInv, Ordered
  <1>2. ends' = ends /\ newest' = newest /\ sent' = sent /\ stored' = stored /\ refused' = refused
    <2>1. ends' = ends
      BY DEF QuietStep, TooEarly, StartConnect, ConnectFails, Connected, Flush, PingAnswered, PingFails, envVars
    <2> QED  BY <2>1, QuietSteps DEF IInv
  <1>3. PICK m, n \in Nat : Dealt(m, n)
    BY DEF IInv, Ordered
  <1>4. Dealt(m, n)' /\ [Log!Next]_(Log!vars)
    BY <1>1, <1>2, <1>3, DealtOnly
  <1> QED  BY <1>1, <1>2, <1>4 DEF IInv, Ordered

LEMMA InsertsOrder ==
    ASSUME IInv, MaxBatch \in Nat, Inserted \/ BatchRefused \/ RowRefused \/ InsertLost
    PROVE  Ordered' /\ [Log!Next]_(Log!vars)
  <1> DEFINE A == ToSet(Attempt)
  <1>1. PICK m, n \in Nat : Dealt(m, n)
    BY DEF IInv, Ordered
  <1>2. task.pc = "inserting" /\ sent' = sent /\ ends' = ends
    BY DEF Inserted, BatchRefused, RowRefused, InsertLost, envVars
  <1>3. Sane /\ Line /\ sent \in Nat /\ newest \in Nat /\ ends = 0 /\ Waits \subseteq 1 .. sent
    BY DEF IInv, Ordered, Sane
  <1>4. PICK k \in m .. sent : /\ A = m + 1 .. k
                               /\ Attempt # <<>> => Last(Attempt) = k
                               /\ Attempt = <<>> => k = m
    BY <1>1, <1>2, <1>3, AttemptIsRange DEF Dealt
  <1>5. (Attempt = <<>>) <=> (k = m)
    <2>1. CASE k = m
      <3>1. A = {}
        BY <1>4, <2>1
      <3> QED  BY <1>2, <1>3, <2>1, <3>1, RowsInHand, EmptyRows
    <2> QED  BY <1>4, <2>1
  <1> HIDE DEF A
  <1>6. CASE Inserted
    <2>1. NextRow /\ Apply(Attempt) /\ ~Refusable
      BY <1>6 DEF Inserted
    <2>2. Line' /\ Waits' \subseteq Waits /\ Left' = Left \ A
      BY <1>2, <1>3, <2>1, DealtInLine DEF A
    <2>3. stored' = stored \cup A /\ refused' = refused /\ newest' = IF k = m THEN newest ELSE k
      BY <1>4, <1>5, <2>1, AppliedShows DEF A
    <2>4. A \cap Bad = {}
      BY <2>1 DEF Refusable, A
    <2>5. newest' \in Nat /\ (\E p, q \in Nat : Dealt(p, q)') /\ [Log!Next]_(Log!vars)
      BY <1>1, <1>2, <1>3, <1>4, <2>2, <2>3, <2>4, DealtGrows
    <2> QED  BY <1>2, <1>3, <2>2, <2>5 DEF Ordered
  <1>7. CASE RowRefused
    <2>1. NextRow /\ refused' = refused \cup A /\ stored' = stored /\ newest' = newest
          /\ Refusable /\ task.index # 0
      BY <1>7 DEF RowRefused, A
    <2>2. Line' /\ Waits' \subseteq Waits /\ Left' = Left \ A
      BY <1>2, <1>3, <2>1, DealtInLine DEF A
    <2>3. A \subseteq Bad
      BY <1>2, <1>3, <2>1, RowsInHand DEF Refusable, A
    <2>4. newest' \in Nat /\ (\E p, q \in Nat : Dealt(p, q)') /\ [Log!Next]_(Log!vars)
      BY <1>1, <1>2, <1>3, <1>4, <2>1, <2>2, <2>3, DealtGrows
    <2> QED  BY <1>2, <1>3, <2>2, <2>4 DEF Ordered
  <1>8. CASE BatchRefused
    <2>1. /\ task' = [task EXCEPT !.index = 1] /\ files' = files /\ pending' = pending
          /\ stored' = stored /\ refused' = refused /\ newest' = newest /\ task.index = 0
      BY <1>8 DEF BatchRefused, queueVars, dbVars
    <2>2. task'.rows = task.rows /\ task'.index = 1
      BY <1>3, <2>1 DEF Sane, InTask
    <2>3. Done' = {} /\ Done = {}
      <3>1. Done' = {task'.rows[i] : i \in 1 .. 1 - 1}
        BY <2>2 DEF Done
      <3> QED  BY <1>2, <1>3, <2>1, <3>1, RowsInHand
    <2>4. Line' /\ Waits' = Waits /\ Left' = Left
      BY <1>3, <2>1, <2>2, <2>3 DEF Line, Waits, Left
    <2>5. Dealt(m, n)' /\ [Log!Next]_(Log!vars)
      BY <1>1, <1>2, <2>1, <2>4, DealtOnly
    <2> QED  BY <1>2, <1>3, <2>1, <2>4, <2>5 DEF Ordered
  <1>9. CASE InsertLost
    <2>1. Line' /\ Waits' \subseteq Waits /\ Left' = Left
      BY <1>2, <1>3, <1>9, LostInLine
    <2>2. CASE UNCHANGED dbVars
      <3>1. stored' = stored /\ refused' = refused /\ newest' = newest
        BY <2>2 DEF dbVars
      <3>2. Dealt(m, n)' /\ [Log!Next]_(Log!vars)
        BY <1>1, <1>2, <2>1, <3>1, DealtOnly
      <3> QED  BY <1>2, <1>3, <2>1, <3>1, <3>2 DEF Ordered
    <2>3. CASE ~Refusable /\ Apply(Attempt)
      <3>1. stored' = stored \cup A /\ refused' = refused /\ newest' = IF k = m THEN newest ELSE k
        BY <1>4, <1>5, <2>3, AppliedShows DEF A
      <3>2. A \cap Bad = {}
        BY <2>3 DEF Refusable, A
      <3>3. newest' \in Nat /\ (\E p, q \in Nat : Dealt(p, q)') /\ [Log!Next]_(Log!vars)
        BY <1>1, <1>2, <1>3, <1>4, <2>1, <3>1, <3>2, DealtAgain
      <3> QED  BY <1>2, <1>3, <2>1, <3>3 DEF Ordered
    <2> QED  BY <1>9, <2>2, <2>3 DEF InsertLost, Unheard
  <1> QED  BY <1>6, <1>7, <1>8, <1>9

LEMMA OthersOrder ==
    ASSUME IInv, Submit \/ Outage \/ Recover
    PROVE  Ordered' /\ [Log!Next]_(Log!vars)
  <1>1. PICK m, n \in Nat : Dealt(m, n)
    BY DEF IInv, Ordered
  <1>2. CASE Submit
    <2> DEFINE r == sent + 1
    <2>1. /\ sent' = r /\ pending' = Append(pending, r) /\ files' = files /\ task' = task
          /\ stored' = stored /\ refused' = refused /\ newest' = newest /\ ends' = ends
      BY <1>2 DEF Submit, dbVars, envVars
    <2>2. sent \in Nat /\ r \in Nat /\ pending \in RowSeq /\ ends = 0 /\ newest \in Nat
          /\ Line /\ Waits \subseteq 1 .. sent
      BY DEF IInv, Sane, Ordered
    <2>3. /\ ToSet(pending') = ToSet(pending) \cup {r}
          /\ Sorted(pending) /\ Before(ToSet(pending), {r}) => Sorted(pending')
      BY <2>1, <2>2, AppendRow
    <2>4. Before(Waits, {r})
      BY <2>2 DEF Before
    <2>5. Line'
      BY <2>1, <2>2, <2>3, <2>4 DEF Line, InLine, Before, Waits
    <2>6. Waits' = Waits \cup {r} /\ Done' = Done
      BY <2>1, <2>3 DEF Waits, Done
    <2>7. 1 .. sent' = (1 .. sent) \cup {r} /\ m + 1 .. sent' = (m + 1 .. sent) \cup {r} /\ r \notin 1 .. sent
      <3>1. \A i : i \in 1 .. r <=> i \in 1 .. sent \/ i = r
        BY <2>2
      <3>2. \A i : i \in m + 1 .. r <=> i \in m + 1 .. sent \/ i = r
        BY <1>1, <2>2 DEF Dealt
      <3> QED  BY <2>1, <2>2, <3>1, <3>2
    <2>8. Done \subseteq Waits
      <3>1. CASE task.pc = "inserting"
        BY <3>1, RowsInHand DEF IInv, Waits
      <3>2. CASE task.pc # "inserting"
        BY <3>2, TaskIsEmpty DEF IInv
      <3> QED  BY <3>1, <3>2
    <2>9. Left' = m + 1 .. sent'
      BY <1>1, <2>2, <2>6, <2>7, <2>8 DEF Left, Dealt
    <2>10. m \in 0 .. sent' /\ n \in 0 .. sent'
      BY <1>1, <2>1, <2>2 DEF Dealt
    <2>11. Dealt(m, n)'
      BY <1>1, <2>1, <2>9, <2>10 DEF Dealt
    <2>12. Log!Submit
      BY <2>1 DEF Log!Submit
    <2>13. Waits' \subseteq 1 .. sent'
      BY <2>2, <2>6, <2>7
    <2> HIDE DEF r
    <2> QED  BY <2>1, <2>2, <2>5, <2>11, <2>12, <2>13 DEF Ordered, Log!Next
  <1>3. CASE Outage \/ Recover
    <2>1. /\ UNCHANGED <<sent, queueVars, task, dbVars, ends>>
      BY <1>3 DEF Outage, Recover
    <2> QED  BY <2>1 DEF IInv, Ordered, Line, Waits, Left, Done, Dealt, queueVars, dbVars, Log!vars
  <1> QED  BY <1>2, <1>3

(* As long as the process lives, any step keeps the order and is a step of the log. *)
LEMMA NextOrders ==
    ASSUME IInv, MaxBatch \in Nat, Ends = {}, [Next]_vars
    PROVE  IInv' /\ [Log!Next]_(Log!vars)
  <1>1. Sane'
    BY NextKeeps DEF IInv
  <1>2. CASE UNCHANGED vars
    <2>1. Ordered' /\ [Log!Next]_(Log!vars)
      BY <1>2 DEF vars, queueVars, dbVars, envVars, IInv, Ordered, Line, Waits, Left, Done, Dealt, Log!vars
    <2> QED  BY <1>1, <2>1 DEF IInv
  <1>3. CASE Next
    <2>1. ~Shutdown /\ ~Crash /\ ~Start
      BY DEF Shutdown, Crash, Start, IInv, Ordered
    <2>2. \/ QuietStep \/ Inserted \/ BatchRefused \/ RowRefused \/ InsertLost
          \/ Submit \/ Outage \/ Recover
      BY <1>3, <2>1 DEF Next, TaskStep, QuietStep
    <2>3. Ordered' /\ [Log!Next]_(Log!vars)
      BY <2>2, QuietOrders, InsertsOrder, OthersOrder
    <2> QED  BY <1>1, <2>3 DEF IInv
  <1> QED  BY <1>2, <1>3

LEMMA InitOrders ==
    ASSUME Init
    PROVE  IInv /\ Log!Init
  <1>1. Sane
    BY InitIsSane
  <1>2. /\ sent = 0 /\ pending = <<>> /\ files = <<>> /\ task = Waiting("idle")
        /\ stored = {} /\ newest = 0 /\ refused = {} /\ ends = 0
    BY IdleTask DEF Init
  <1>3. task.rows = <<>> /\ task.pc # "inserting"
    BY <1>2 DEF Waiting, Idle
  <1>4. Line /\ Waits = {} /\ Left = {}
    BY <1>2, <1>3, EmptyRows, NoFiles DEF Line, InLine, Before, Waits, Left
  <1>5. 0 + 1 .. 0 = {} /\ 1 .. 0 = {} /\ 0 \in 0 .. 0
    OBVIOUS
  <1>6. Dealt(0, 0)
    BY <1>2, <1>4, <1>5 DEF Dealt
  <1>7. Ordered
    BY <1>2, <1>4, <1>6 DEF Ordered
  <1> QED  BY <1>1, <1>2, <1>7 DEF IInv, Log!Init

(* The write path implements the log of rows: they are dealt with in the order
   of submit(), none is skipped and only refused rows are set aside, for any
   batch size and bad rows and however many outages hit whatever insert. *)
THEOREM QueueImplementsLog ==
    ASSUME MaxBatch \in Nat, Ends = {}
    PROVE  Spec => ImplementsLog
  <1>1. IInv /\ [Next]_vars => IInv' /\ [Log!Next]_(Log!vars)
    BY NextOrders
  <1> QED  BY <1>1, InitOrders, PTL DEF Spec, ImplementsLog, Log!Spec

(* While the process lives no row is lost: each is with the database, set
   aside, on disk or in memory. *)
THEOREM LivingLosesNothing ==
    ASSUME MaxBatch \in Nat, Ends = {}
    PROVE  Spec => []NothingLost
  <1>1. IInv => NothingLost
    <2> SUFFICES ASSUME IInv, NEW r \in 1 .. sent PROVE r \in stored \cup refused \cup Backlog
      BY DEF NothingLost
    <2>1. PICK m, n \in Nat : Dealt(m, n)
      BY DEF IInv, Ordered
    <2>2. CASE r <= n
      <3>1. r \in 1 .. n
        BY <2>2
      <3> QED  BY <2>1, <3>1 DEF Dealt
    <2>3. CASE ~(r <= n)
      <3>1. r \in m + 1 .. sent
        BY <2>1, <2>3 DEF Dealt
      <3>2. r \in Waits /\ r \notin Done
        BY <2>1, <3>1 DEF Dealt, Left
      <3>3. CASE task.pc = "inserting"
        <4>1. CASE task.source = "memory"
          BY <3>2, <3>3, <4>1, RowsInHand DEF IInv, Waits, Backlog, InHand
        <4>2. CASE task.source = "spool"
          <5>1. files # <<>> /\ Head(files).rows = task.rows /\ files \in Seq(SpoolFile)
            BY <4>2 DEF IInv, Sane, InTask
          <5>2. ToSet(task.rows) \subseteq OnDisk(files)
            BY <5>1, FirstFile
          <5> QED  BY <3>2, <5>2 DEF Waits, Backlog
        <4> QED  BY <3>3, <4>1, <4>2 DEF IInv, Sane, InTask
      <3>4. CASE task.pc # "inserting"
        BY <3>2, <3>4, TaskIsEmpty, EmptyRows DEF IInv, Waits, Backlog
      <3> QED  BY <3>3, <3>4
    <2> QED  BY <2>2, <2>3
  <1>2. IInv /\ [Next]_vars => IInv'
    BY NextOrders
  <1> QED  BY <1>1, <1>2, InitOrders, PTL DEF Spec

LEMMA OrderedShowsNewest ==
    ASSUME IInv
    PROVE  NewestWins
  <1> SUFFICES ASSUME Rest, Backlog = {}, NEW r \in stored PROVE r <= newest
    BY DEF NewestWins
  <1>1. PICK m, n \in Nat : Dealt(m, n)
    BY DEF IInv, Ordered
  <1>2. task.pc # "inserting"
    BY DEF Rest, Idle
  <1>3. Waits = {}
    BY <1>2, TaskIsEmpty, EmptyRows DEF IInv, Waits, Backlog
  <1>4. m + 1 .. sent = {} /\ m \in 0 .. sent /\ n \in 0 .. sent /\ sent \in Nat
        /\ stored = (1 .. n) \ Bad
    BY <1>1, <1>3 DEF Dealt, Left, IInv, Sane
  <1>5. m = sent
    <2>1. m # sent => m + 1 \in m + 1 .. sent
      BY <1>4
    <2> QED  BY <1>4, <2>1
  <1>6. r <= m
    BY <1>4, <1>5
  <1> QED  BY <1>1, <1>6 DEF Dealt

(* Once nothing waits, the database shows the newest row it was given. *)
THEOREM NewestIsShown ==
    ASSUME MaxBatch \in Nat, Ends = {}
    PROVE  Spec => []NewestWins
  <1>1. IInv /\ [Next]_vars => IInv'
    BY NextOrders
  <1> QED  BY <1>1, InitOrders, OrderedShowsNewest, PTL DEF Spec
=============================================================================
