--------------------------- MODULE RupStreamProofs ---------------------------
(***************************************************************************)
(* The two sides of CRupSock, for all parameters.  Receiving: for any      *)
(* opcodes, sizes and number of packages, what was handled and what is     *)
(* still on its way, in the memory block and on the wire, always make up   *)
(* what was sent.  Sending: for any number of threads and messages, the    *)
(* bytes on the wire and those in the queues keep the order of each        *)
(* message, and those in the queues that of each thread.                   *)
(***************************************************************************)
EXTENDS RupSock, RupRecv, DataLemmas, SequenceTheorems

-----------------------------------------------------------------------------
(* FlattenSeq.  Its definition is a function on the indices; that there is *)
(* one, and that it does not depend on what comes later, is induction over *)
(* the length, by the least counterexample.                                *)

IsFlatten(s, n, f) ==
  f = [i \in 1..n |-> IF i = 1 THEN s[i] ELSE f[i-1] \o s[i]]

LEMMA FlattenExists ==
  ASSUME NEW s, NEW n \in Nat
  PROVE  \E f : IsFlatten(s, n, f)
  <1> DEFINE Bad == {m \in Nat : ~ \E f : IsFlatten(s, m, f)}
  <1> SUFFICES ASSUME Bad # {} PROVE FALSE
    OBVIOUS
  <1>1. PICK m \in Bad : \A k \in Bad : m <= k
    BY LeastExists
  <1>2. CASE m = 0
    <2>1. IsFlatten(s, 0, <<>>)
      BY DEF IsFlatten
    <2> QED
      BY <1>1, <1>2, <2>1
  <1>3. CASE m # 0
    <2>1. m - 1 \in Nat /\ m - 1 \notin Bad
      BY <1>1, <1>3
    <2>2. PICK f : IsFlatten(s, m - 1, f)
      BY <2>1
    <2> DEFINE g == [i \in 1..m |-> IF i = m THEN (IF m = 1 THEN s[m] ELSE f[m-1] \o s[m]) ELSE f[i]]
    <2>3. \A i \in 1..m : g[i] = IF i = 1 THEN s[i] ELSE g[i-1] \o s[i]
      <3> SUFFICES ASSUME NEW i \in 1..m PROVE g[i] = IF i = 1 THEN s[i] ELSE g[i-1] \o s[i]
        OBVIOUS
      <3>1. m \in Nat /\ i \in Nat
        BY <1>1
      <3>2. CASE i = m
        <4>1. m # 1 => g[m-1] = f[m-1]
          BY <3>1, <1>3
        <4> QED
          BY <3>1, <3>2, <4>1
      <3>3. CASE i # m
        <4>1. i \in 1..(m-1) /\ g[i] = f[i]
          BY <3>1, <3>3
        <4>2. f[i] = IF i = 1 THEN s[i] ELSE f[i-1] \o s[i]
          BY <4>1, <2>2 DEF IsFlatten
        <4>3. i # 1 => g[i-1] = f[i-1]
          BY <3>1, <3>3
        <4> QED
          BY <4>1, <4>2, <4>3
      <3> QED
        BY <3>2, <3>3
    <2>4. IsFlatten(s, m, g)
      <3>1. g = [i \in 1..m |-> g[i]]
        OBVIOUS
      <3> HIDE DEF g
      <3> QED
        BY <3>1, <2>3 DEF IsFlatten
    <2> QED
      BY <1>1, <2>4
  <1> QED
    BY <1>2, <1>3

(* Two sequences that agree up to n have the same flattening up to n.      *)
LEMMA FlattenUnique ==
  ASSUME NEW s, NEW t, NEW m \in Nat, NEW n \in Nat, NEW f, NEW g,
         IsFlatten(s, m, f), IsFlatten(t, n, g), m <= n,
         \A i \in 1..m : s[i] = t[i]
  PROVE  \A i \in 1..m : f[i] = g[i]
  <1> DEFINE Bad == {i \in 1..m : f[i] # g[i]}
  <1> SUFFICES ASSUME Bad # {} PROVE FALSE
    OBVIOUS
  <1>1. Bad \in SUBSET Nat
    OBVIOUS
  <1>2. PICK i \in Bad : \A k \in Bad : i <= k
    BY <1>1, LeastExists
  <1>3. i \in 1..m /\ i \in 1..n /\ i \in Nat
    BY <1>2
  <1>4. f[i] = IF i = 1 THEN s[i] ELSE f[i-1] \o s[i]
    BY <1>3 DEF IsFlatten
  <1>5. g[i] = IF i = 1 THEN t[i] ELSE g[i-1] \o t[i]
    BY <1>3 DEF IsFlatten
  <1>6. i # 1 => i - 1 \in 1..m /\ i - 1 \notin Bad
    BY <1>2, <1>3
  <1> QED
    BY <1>2, <1>3, <1>4, <1>5, <1>6

LEMMA FlattenAgrees ==
  ASSUME NEW s, NEW t, NEW m \in Nat \ {0}, NEW n \in Nat, m <= n, NEW f, NEW g,
         IsFlatten(s, m, f), IsFlatten(t, n, g), \A i \in 1..m : s[i] = t[i]
  PROVE  f[m] = g[m]
  <1>1. \A i \in 1..m : f[i] = g[i]
    BY FlattenUnique
  <1> QED
    BY <1>1

LEMMA FlattenIs ==
  ASSUME NEW S, NEW s \in Seq(S), s # <<>>, NEW f, IsFlatten(s, Len(s), f)
  PROVE  FlattenSeq(s) = f[Len(s)]
  <1> DEFINE h == CHOOSE g : IsFlatten(s, Len(s), g)
  <1>1. Len(s) \in Nat /\ Len(s) # 0 /\ Len(s) \in 1..Len(s)
    BY EmptySeq
  <1>2. IsFlatten(s, Len(s), h)
    OBVIOUS
  <1>3. FlattenSeq(s) = h[Len(s)]
    BY <1>1 DEF FlattenSeq, IsFlatten
  <1> HIDE DEF h
  <1>4. \A i \in 1..Len(s) : h[i] = f[i]
    BY <1>1, <1>2, FlattenUnique
  <1> QED
    BY <1>1, <1>3, <1>4

LEMMA FlattenEmpty == FlattenSeq(<<>>) = <<>>
  BY DEF FlattenSeq

LEMMA FlattenType ==
  ASSUME NEW T, NEW s \in Seq(Seq(T))
  PROVE  FlattenSeq(s) \in Seq(T)
  <1>1. CASE s = <<>>
    BY <1>1, FlattenEmpty, EmptySeq
  <1>2. CASE s # <<>>
    <2>1. Len(s) \in Nat /\ Len(s) # 0 /\ Len(s) \in 1..Len(s)
      BY <1>2, EmptySeq
    <2>2. PICK f : IsFlatten(s, Len(s), f)
      BY <2>1, FlattenExists
    <2> DEFINE Bad == {i \in 1..Len(s) : f[i] \notin Seq(T)}
    <2>3. Bad = {}
      <3> SUFFICES ASSUME Bad # {} PROVE FALSE
        OBVIOUS
      <3>1. Bad \in SUBSET Nat
        OBVIOUS
      <3>2. PICK i \in Bad : \A k \in Bad : i <= k
        BY <3>1, LeastExists
      <3>3. i \in 1..Len(s) /\ i \in Nat /\ s[i] \in Seq(T)
        BY <3>2
      <3>4. f[i] = IF i = 1 THEN s[i] ELSE f[i-1] \o s[i]
        BY <3>3, <2>2 DEF IsFlatten
      <3>5. i # 1 => i - 1 \in 1..Len(s) /\ i - 1 \notin Bad
        BY <3>2, <3>3
      <3>6. f[i] \in Seq(T)
        BY <3>3, <3>4, <3>5
      <3> QED
        BY <3>2, <3>6
    <2>4. FlattenSeq(s) = f[Len(s)]
      BY <1>2, <2>2, FlattenIs
    <2>5. f[Len(s)] \in Seq(T)
      BY <2>1, <2>3
    <2> QED
      BY <2>4, <2>5
  <1> QED
    BY <1>1, <1>2

LEMMA FlattenAppend ==
  ASSUME NEW T, NEW s \in Seq(Seq(T)), NEW t \in Seq(T)
  PROVE  FlattenSeq(Append(s, t)) = FlattenSeq(s) \o t
  <1> DEFINE a == Append(s, t)
             n == Len(s)
             m == Len(a)
  <1>1. /\ a \in Seq(Seq(T)) /\ a # <<>> /\ a[m] = t
        /\ n \in Nat /\ m = n + 1 /\ m - 1 = n /\ m \in Nat /\ m \in 1..m /\ n <= m
    <2> HIDE DEF a, n, m
    <2>1. a \in Seq(Seq(T)) /\ m = n + 1 /\ a[n + 1] = t
      BY AppendProperties DEF a, n, m
    <2>2. n \in Nat
      BY LenProperties DEF n
    <2>3. a # <<>>
      BY <2>1, <2>2, EmptySeq DEF m
    <2> QED
      BY <2>1, <2>2, <2>3
  <1>2. \A i \in 1..n : a[i] = s[i]
    BY AppendProperties
  <1> HIDE DEF a, n, m
  <1>3. PICK f : IsFlatten(a, m, f)
    BY <1>1, FlattenExists
  <1>4. FlattenSeq(a) = f[m]
    BY <1>1, <1>3, FlattenIs DEF m
  <1>5. f[m] = IF m = 1 THEN a[m] ELSE f[m-1] \o a[m]
    BY <1>1, <1>3 DEF IsFlatten
  <1>6. CASE s = <<>>
    <2>1. n = 0 /\ m = 1
      BY <1>1, <1>6 DEF n
    <2>2. FlattenSeq(a) = t
      BY <1>1, <1>4, <1>5, <2>1
    <2>3. <<>> \o t = t
      BY ConcatEmptySeq
    <2> QED
      BY <1>6, <2>2, <2>3, FlattenEmpty DEF a
  <1>7. CASE s # <<>>
    <2>1. n # 0
      BY <1>7, EmptySeq DEF n
    <2>2. PICK g : IsFlatten(s, n, g)
      BY <1>1, FlattenExists
    <2>3. FlattenSeq(s) = g[n]
      BY <1>7, <2>2, FlattenIs DEF n
    <2>4. g[n] = f[n]
      <3>1. \A i \in 1..n : s[i] = a[i]
        BY <1>2
      <3> QED
        BY <1>1, <1>3, <2>1, <2>2, <3>1, FlattenAgrees
    <2>5. m # 1
      BY <1>1, <2>1
    <2>6. FlattenSeq(a) = f[n] \o t
      BY <1>1, <1>4, <1>5, <2>5, Zenon
    <2> QED
      BY <2>3, <2>4, <2>6 DEF a
  <1> QED
    BY <1>6, <1>7

-----------------------------------------------------------------------------
(* The receiving side.                                                     *)

Bytes == Nat \X Nat
Pkgs == [op : Opcodes, len : HdrSize..BlockSize]

(* A package of this length is a header and some bodies.                   *)
Whole(op, len) == \E k \in Nat : len = HdrSize + k * BodySize[op]

ArchiveInv ==
  /\ archive \in [op : Opcodes, len : 0..BlockSize, pending : BOOLEAN]
  /\ archive.len # 0 =>
       /\ Whole(archive.op, archive.len)
       /\ archive.pending => archive.len + BodySize[archive.op] <= BlockSize
  /\ fin \in BOOLEAN
  /\ fin => archive.len = 0

SentInv ==
  /\ sent \in Seq(Pkgs)
  /\ \A p \in 1..Len(sent) : Whole(sent[p].op, sent[p].len)

(* The bytes u are the last of the packages s: each is followed by the     *)
(* rest of its package, and that by the next package.                      *)
Follows(u, s) ==
  \A k \in 1..Len(u) :
    /\ u[k][1] \in 1..Len(s) /\ u[k][2] \in 1..s[u[k][1]].len
    /\ \A j \in Nat : u[k][2] + j <= s[u[k][1]].len =>
         k + j <= Len(u) /\ u[k + j] = <<u[k][1], u[k][2] + j>>
    /\ u[k][2] = s[u[k][1]].len =>
         IF k = Len(u) THEN u[k][1] = Len(s) ELSE u[k + 1] = <<u[k][1] + 1, 1>>

(* What was received and not consumed, then what is on its way.            *)
Ahead == block.data \o wire

FirstOf(u, s) == IF u = <<>> THEN <<Len(s) + 1, 1>> ELSE u[1]

StreamInv ==
  /\ block \in [offset : Nat, data : Seq(Bytes)]
  /\ block.offset + DataLen <= BlockSize
  /\ wire \in Seq(Bytes)
  /\ Follows(Ahead, sent)

(* The bodies of the first n packages.                                     *)
DoneOf(n) == FlattenSeq([p \in 1..n |-> BodiesOf(p)])

(* The first m of the bodies of a package.                                 *)
FirstBodies(p, b, m) == [n \in 1..m |-> <<p, HdrSize + n * b>>]

(* Between two packages: all before the next one are handled.              *)
AtBoundary ==
  \E n \in Nat : FirstOf(Ahead, sent) = <<n + 1, 1>> /\ handled = DoneOf(n)

(* In dispatch_fun: c of the k bodies of a package are still to be handled. *)
InBodies(k, c) ==
  LET p == pkg.p
      b == BodySize[sent[p].op]
  IN /\ p \in 1..Len(sent)
     /\ b > 0 /\ k > 0 /\ c <= k
     /\ sent[p].len = HdrSize + k * b
     /\ pkg.size = c * b
     /\ pkg.size <= DataLen
     /\ FirstOf(Ahead, sent) = IF c = 0 THEN <<p + 1, 1>> ELSE <<p, HdrSize + (k - c) * b + 1>>
     /\ handled = DoneOf(p - 1) \o FirstBodies(p, b, k - c)

DispatchInv ==
  /\ phase \in {"idle", "dispatch", "header", "bodies"}
  /\ conn \in {"opened", "shutdown", "error", "pending"}
  /\ handled \in Seq(Bytes)
  /\ pkg \in [p : Nat, size : Nat]
  /\ phase # "bodies" => AtBoundary /\ pkg = NoPkg
  /\ phase = "bodies" => \E k, c \in Nat : InBodies(k, c)
  /\ phase = "header" => DataLen >= HdrSize
  /\ phase = "idle" /\ block.data # <<>> =>
       DataLen < HdrSize \/ DataLen < sent[block.data[1][1]].len
  /\ conn = "shutdown" => fin /\ Ahead = <<>> /\ phase = "idle"

RecvInv == ArchiveInv /\ SentInv /\ StreamInv /\ DispatchInv

-----------------------------------------------------------------------------
(* Streams.                                                                *)

LEMMA SizesAre ==
  /\ HdrSize \in Nat /\ HdrSize > 0 /\ BlockSize \in Nat /\ HdrSize <= BlockSize
  /\ \A op \in Opcodes : BodySize[op] \in Nat
  BY SizesAssumption

LEMMA PkgIs ==
  ASSUME NEW s \in Seq(Pkgs), NEW p \in 1..Len(s)
  PROVE  /\ s[p].op \in Opcodes /\ BodySize[s[p].op] \in Nat
         /\ s[p].len \in Nat /\ s[p].len >= HdrSize /\ s[p].len <= BlockSize
  <1>1. s[p] \in Pkgs
    BY ElementOfSeq
  <1> QED
    BY <1>1, SizesAre DEF Pkgs

LEMMA LenEmpty == Len(<<>>) = 0
  OBVIOUS

LEMMA Associates ==
  ASSUME NEW s \in Seq(Bytes), NEW t \in Seq(Bytes), NEW u \in Seq(Bytes)
  PROVE  (s \o t) \o u = s \o (t \o u)
  BY ConcatAssociative

LEMMA NotEmpty ==
  ASSUME NEW s, NEW n, Len(s) = n, n > 0
  PROVE  s # <<>>
  BY LenEmpty

LEMMA ByteIs ==
  ASSUME NEW u \in Seq(Bytes), NEW k \in 1..Len(u)
  PROVE  u[k] = <<u[k][1], u[k][2]>> /\ u[k][1] \in Nat /\ u[k][2] \in Nat
  <1>1. u[k] \in Bytes
    BY ElementOfSeq
  <1> QED
    BY <1>1 DEF Bytes

LEMMA RestOf ==
  ASSUME NEW u \in Seq(Bytes), NEW n \in 0..Len(u)
  PROVE  /\ SubSeq(u, n + 1, Len(u)) \in Seq(Bytes)
         /\ Len(SubSeq(u, n + 1, Len(u))) = Len(u) - n
         /\ \A i \in 1..(Len(u) - n) : SubSeq(u, n + 1, Len(u))[i] = u[n + i]
  <1>1. Len(u) \in Nat
    BY LenProperties
  <1>2. \A i \in (n + 1)..Len(u) : u[i] \in Bytes
    BY <1>1, ElementOfSeq
  <1>3. n + 1 \in Int /\ Len(u) \in Int
    BY <1>1
  <1>4. /\ SubSeq(u, n + 1, Len(u)) \in Seq(Bytes)
        /\ Len(SubSeq(u, n + 1, Len(u))) = IF n + 1 <= Len(u) THEN Len(u) - (n + 1) + 1 ELSE 0
        /\ \A i \in 1..(Len(u) - (n + 1) + 1) : SubSeq(u, n + 1, Len(u))[i] = u[n + 1 + i - 1]
    BY <1>2, <1>3, SubSeqProperties
  <1> DEFINE r == SubSeq(u, n + 1, Len(u))
             d == Len(u) - n
  <1>5. Len(u) - (n + 1) + 1 = d /\ d \in Nat /\ (n + 1 <= Len(u) <=> d # 0)
    BY <1>1
  <1> HIDE DEF r, d
  <1>6. \A i \in 1..d : i \in Nat /\ n + 1 + i - 1 = n + i
    BY <1>5
  <1>7. r \in Seq(Bytes) /\ Len(r) = d /\ \A i \in 1..d : r[i] = u[n + 1 + i - 1]
    <2>1. Len(r) = IF n + 1 <= Len(u) THEN d ELSE 0
      BY <1>4, <1>5 DEF r
    <2>2. \A i \in 1..(Len(u) - (n + 1) + 1) : r[i] = u[n + 1 + i - 1]
      BY <1>4, Zenon DEF r
    <2>3. \A i \in 1..d : r[i] = u[n + 1 + i - 1]
      BY <1>5, <2>2, Zenon
    <2> QED
      BY <1>4, <1>5, <2>1, <2>3 DEF r
  <1>8. \A i \in 1..d : r[i] = u[n + i]
    BY <1>6, <1>7
  <1>9. r \in Seq(Bytes) /\ Len(r) = d /\ \A i \in 1..d : r[i] = u[n + i]
    BY <1>7, <1>8
  <1> QED
    BY <1>9, Zenon DEF r, d

LEMMA StartOf ==
  ASSUME NEW u \in Seq(Bytes), NEW n \in Nat, n <= Len(u)
  PROVE  /\ SubSeq(u, 1, n) \in Seq(Bytes) /\ Len(SubSeq(u, 1, n)) = n
         /\ \A i \in 1..n : SubSeq(u, 1, n)[i] = u[i]
  <1>1. Len(u) \in Nat
    BY LenProperties
  <1>2. \A i \in 1..n : u[i] \in Bytes
    BY <1>1, ElementOfSeq
  <1>3. 1 \in Int /\ n \in Int /\ n - 1 + 1 = n
    OBVIOUS
  <1>4. /\ SubSeq(u, 1, n) \in Seq(Bytes)
        /\ Len(SubSeq(u, 1, n)) = IF 1 <= n THEN n - 1 + 1 ELSE 0
        /\ \A i \in 1..(n - 1 + 1) : SubSeq(u, 1, n)[i] = u[1 + i - 1]
    BY <1>2, <1>3, SubSeqProperties
  <1> DEFINE r == SubSeq(u, 1, n)
  <1> HIDE DEF r
  <1>5. r \in Seq(Bytes) /\ Len(r) = n
    BY <1>3, <1>4 DEF r
  <1>6. \A i \in 1..n : i \in Nat /\ 1 + i - 1 = i
    OBVIOUS
  <1>7. \A i \in 1..n : r[i] = u[1 + i - 1]
    BY <1>3, <1>4, Zenon DEF r
  <1>8. \A i \in 1..n : r[i] = u[i]
    BY <1>6, <1>7
  <1> QED
    BY <1>5, <1>8 DEF r

LEMMA FollowsRest ==
  ASSUME NEW u \in Seq(Bytes), NEW s \in Seq(Pkgs), NEW n \in 0..Len(u), Follows(u, s)
  PROVE  Follows(SubSeq(u, n + 1, Len(u)), s)
  <1> DEFINE r == SubSeq(u, n + 1, Len(u))
  <1>1. Len(u) \in Nat /\ Len(s) \in Nat
    BY LenProperties
  <1>2. r \in Seq(Bytes) /\ Len(r) = Len(u) - n /\ \A i \in 1..Len(r) : r[i] = u[n + i]
    BY RestOf
  <1> HIDE DEF r
  <1> SUFFICES ASSUME NEW k \in 1..Len(r)
      PROVE /\ r[k][1] \in 1..Len(s) /\ r[k][2] \in 1..s[r[k][1]].len
            /\ \A j \in Nat : r[k][2] + j <= s[r[k][1]].len =>
                 k + j <= Len(r) /\ r[k + j] = <<r[k][1], r[k][2] + j>>
            /\ r[k][2] = s[r[k][1]].len =>
                 IF k = Len(r) THEN r[k][1] = Len(s) ELSE r[k + 1] = <<r[k][1] + 1, 1>>
    BY DEF Follows, r
  <1>3. k \in Nat /\ n + k \in 1..Len(u) /\ r[k] = u[n + k]
    BY <1>1, <1>2
  <1>4. /\ u[n+k][1] \in 1..Len(s) /\ u[n+k][2] \in 1..s[u[n+k][1]].len
        /\ \A j \in Nat : u[n+k][2] + j <= s[u[n+k][1]].len =>
             n + k + j <= Len(u) /\ u[n + k + j] = <<u[n+k][1], u[n+k][2] + j>>
        /\ u[n+k][2] = s[u[n+k][1]].len =>
             IF n + k = Len(u) THEN u[n+k][1] = Len(s) ELSE u[n + k + 1] = <<u[n+k][1] + 1, 1>>
    BY <1>3 DEF Follows
  <1>5. \A j \in Nat : n + k + j <= Len(u) => k + j <= Len(r) /\ r[k + j] = u[n + k + j]
    <2> SUFFICES ASSUME NEW j \in Nat, n + k + j <= Len(u) PROVE k + j <= Len(r) /\ r[k + j] = u[n + k + j]
      OBVIOUS
    <2>1. k + j \in 1..Len(r) /\ n + (k + j) = n + k + j
      BY <1>1, <1>2, <1>3
    <2> QED
      BY <1>2, <2>1
  <1>6. k = Len(r) <=> n + k = Len(u)
    BY <1>1, <1>2, <1>3
  <1>7. n + k # Len(u) => r[k+1] = u[n + k + 1]
    BY <1>1, <1>3, <1>5
  <1> QED
    BY <1>3, <1>4, <1>5, <1>6, <1>7

(* n bytes of the package at the head are consumed, and some are left.     *)
LEMMA ConsumePart ==
  ASSUME NEW u \in Seq(Bytes), NEW s \in Seq(Pkgs), Follows(u, s), u # <<>>, NEW n \in Nat,
         u[1][2] + n <= s[u[1][1]].len
  PROVE  /\ n + 1 <= Len(u) /\ u[n + 1] = <<u[1][1], u[1][2] + n>>
         /\ FirstOf(SubSeq(u, n + 1, Len(u)), s) = <<u[1][1], u[1][2] + n>>
  <1>1. Len(u) \in Nat /\ Len(u) # 0 /\ 1 \in 1..Len(u)
    BY EmptySeq, LenProperties
  <1>2. n + 1 <= Len(u) /\ u[n + 1] = <<u[1][1], u[1][2] + n>>
    BY <1>1 DEF Follows
  <1>3. n \in 0..Len(u) /\ Len(u) - n > 0 /\ 1 \in 1..(Len(u) - n)
    BY <1>1, <1>2
  <1>4. SubSeq(u, n + 1, Len(u))[1] = u[n + 1] /\ Len(SubSeq(u, n + 1, Len(u))) = Len(u) - n
    BY <1>3, RestOf
  <1>5. SubSeq(u, n + 1, Len(u)) # <<>>
    BY <1>3, <1>4, NotEmpty
  <1> QED
    BY <1>2, <1>4, <1>5 DEF FirstOf

(* All that is left of it is consumed.                                     *)
LEMMA ConsumeAll ==
  ASSUME NEW u \in Seq(Bytes), NEW s \in Seq(Pkgs), Follows(u, s), u # <<>>, NEW n \in Nat \ {0},
         u[1][2] + n = s[u[1][1]].len + 1
  PROVE  /\ n <= Len(u) /\ u[n] = <<u[1][1], s[u[1][1]].len>>
         /\ FirstOf(SubSeq(u, n + 1, Len(u)), s) = <<u[1][1] + 1, 1>>
  <1> DEFINE p == u[1][1]
  <1>1. Len(u) \in Nat /\ Len(u) # 0 /\ 1 \in 1..Len(u)
    BY EmptySeq, LenProperties
  <1>2. p \in 1..Len(s) /\ Len(s) \in Nat /\ u[1][2] \in Nat /\ s[p].len \in Nat
    BY <1>1, PkgIs, ByteIs, LenProperties DEF Follows
  <1>3. n - 1 \in Nat /\ u[1][2] + (n - 1) = s[p].len
    <2>1. PICK a, l : a = u[1][2] /\ l = s[p].len
      OBVIOUS
    <2>2. a \in Nat /\ l \in Nat /\ a + n = l + 1 /\ n \in Nat /\ n # 0
      BY <1>2, <2>1
    <2>3. n - 1 \in Nat /\ a + (n - 1) = l
      BY ONLY <2>2
    <2> QED
      BY <2>1, <2>3
  <1>4. 1 + (n - 1) <= Len(u) /\ u[1 + (n - 1)] = <<p, u[1][2] + (n - 1)>>
    BY <1>1, <1>3 DEF Follows
  <1>5. n \in 1..Len(u) /\ 1 + (n - 1) = n /\ n \in 0..Len(u)
    BY <1>1, <1>4
  <1>6. u[n] = <<p, s[p].len>>
    BY <1>3, <1>4, <1>5
  <1> HIDE DEF p
  <1>7. IF n = Len(u) THEN p = Len(s) ELSE u[n + 1] = <<p + 1, 1>>
    <2>1. u[n][2] = s[u[n][1]].len => IF n = Len(u) THEN u[n][1] = Len(s) ELSE u[n + 1] = <<u[n][1] + 1, 1>>
      BY <1>5 DEF Follows
    <2>2. u[n][1] = p /\ u[n][2] = s[p].len
      BY <1>6
    <2> QED
      BY <2>1, <2>2
  <1>8. /\ Len(SubSeq(u, n + 1, Len(u))) = Len(u) - n
        /\ SubSeq(u, n + 1, Len(u)) \in Seq(Bytes)
        /\ \A i \in 1..(Len(u) - n) : SubSeq(u, n + 1, Len(u))[i] = u[n + i]
    BY <1>5, RestOf
  <1>9. CASE n = Len(u)
    <2>1. SubSeq(u, n + 1, Len(u)) = <<>>
      BY <1>1, <1>8, <1>9, EmptySeq
    <2> QED
      BY <1>5, <1>6, <1>7, <1>9, <2>1 DEF FirstOf, p
  <1>10. CASE n # Len(u)
    <2>1. Len(u) - n > 0 /\ 1 \in 1..(Len(u) - n)
      BY <1>1, <1>5, <1>10
    <2>2. SubSeq(u, n + 1, Len(u)) # <<>> /\ SubSeq(u, n + 1, Len(u))[1] = u[n + 1]
      BY <1>8, <2>1, NotEmpty
    <2> QED
      BY <1>5, <1>6, <1>7, <1>10, <2>2 DEF FirstOf, p
  <1> QED
    BY <1>9, <1>10

(* A package of r bytes is sent behind the stream.                         *)
LEMMA FollowsSent ==
  ASSUME NEW u \in Seq(Bytes), NEW s \in Seq(Pkgs), NEW q \in Pkgs, Follows(u, s),
         NEW w \in Seq(Bytes), Len(w) = q.len,
         \A i \in 1..q.len : w[i] = <<Len(s) + 1, i>>
  PROVE  /\ Follows(u \o w, Append(s, q))
         /\ FirstOf(u \o w, Append(s, q)) = FirstOf(u, s)
  <1> DEFINE S == Append(s, q)
             v == u \o w
             m == Len(u)
             r == q.len
             N == Len(s)
  <1>1. /\ m \in Nat /\ N \in Nat /\ r \in Nat /\ r > 0
        /\ S \in Seq(Pkgs) /\ Len(S) = N + 1 /\ S[N + 1] = q /\ \A i \in 1..N : S[i] = s[i]
    BY LenProperties, SizesAre, AppendProperties DEF Pkgs
  <1>2. v \in Seq(Bytes) /\ Len(v) = m + r
    BY ConcatProperties
  <1>3. \A k \in 1..m : v[k] = u[k]
    <2>1. \A k \in 1..(m + r) : v[k] = IF k <= m THEN u[k] ELSE w[k - m]
      BY ConcatProperties
    <2> HIDE DEF v, m, r
    <2> QED
      BY <1>1, <2>1
  <1>4. \A i \in 1..r : v[m + i] = <<N + 1, i>>
    <2>1. \A k \in 1..(m + r) : v[k] = IF k <= m THEN u[k] ELSE w[k - m]
      BY ConcatProperties
    <2>2. \A i \in 1..r : w[i] = <<N + 1, i>>
      OBVIOUS
    <2> HIDE DEF v, m, r, N
    <2> SUFFICES ASSUME NEW i \in 1..r PROVE v[m + i] = <<N + 1, i>>
      OBVIOUS
    <2> DEFINE k == m + i
    <2>3. k \in 1..(m + r) /\ ~ (k <= m) /\ k - m = i
      BY <1>1
    <2> HIDE DEF k
    <2>4. v[k] = <<N + 1, i>>
      BY <2>1, <2>2, <2>3
    <2> QED
      BY <2>4 DEF k
  <1>5. \A k \in 1..m :
          /\ u[k][1] \in 1..N /\ u[k][2] \in 1..s[u[k][1]].len
          /\ \A j \in Nat : u[k][2] + j <= s[u[k][1]].len =>
               k + j <= m /\ u[k + j] = <<u[k][1], u[k][2] + j>>
          /\ u[k][2] = s[u[k][1]].len =>
               IF k = m THEN u[k][1] = N ELSE u[k + 1] = <<u[k][1] + 1, 1>>
    BY DEF Follows
  <1>6. S[N + 1].len = r
    BY <1>1
  <1>7. FirstOf(v, S) = FirstOf(u, s)
    <2>1. CASE u = <<>>
      <3>1. m = 0 /\ v[1] = <<N + 1, 1>>
        <4>1. m = 0 /\ 1 \in 1..r
          BY <2>1, <1>1
        <4>2. v[m + 1] = <<N + 1, 1>>
          BY <1>4, <4>1
        <4> HIDE DEF v, m, r, N
        <4> QED
          BY <4>1, <4>2
      <3>2. v # <<>>
        <4>1. Len(v) > 0
          BY <1>1, <1>2
        <4> QED
          BY <4>1, LenEmpty
      <3> QED
        BY <2>1, <3>1, <3>2 DEF FirstOf
    <2>2. CASE u # <<>>
      <3>1. m \in Nat /\ m # 0
        BY <2>2, EmptySeq
      <3>2. 1 \in 1..m /\ v[1] = u[1]
        BY <1>3, <3>1
      <3>3. v # <<>>
        <4>1. Len(v) > 0
          BY <1>1, <1>2
        <4> QED
          BY <4>1, LenEmpty
      <3> QED
        BY <2>2, <3>2, <3>3 DEF FirstOf
    <2> QED
      BY <2>1, <2>2
  <1> HIDE DEF S, v, m, r, N
  <1>8. Follows(v, S)
    <2> SUFFICES ASSUME NEW k \in 1..Len(v)
        PROVE /\ v[k][1] \in 1..Len(S) /\ v[k][2] \in 1..S[v[k][1]].len
              /\ \A j \in Nat : v[k][2] + j <= S[v[k][1]].len =>
                   k + j <= Len(v) /\ v[k + j] = <<v[k][1], v[k][2] + j>>
              /\ v[k][2] = S[v[k][1]].len =>
                   IF k = Len(v) THEN v[k][1] = Len(S) ELSE v[k + 1] = <<v[k][1] + 1, 1>>
      BY DEF Follows
    <2>1. CASE k <= m
      <3>1. k \in 1..m /\ v[k] = u[k] /\ k # Len(v) /\ k \in Nat
        BY <1>1, <1>2, <1>3, <2>1
      <3>2. u[k][1] \in 1..N /\ u[k][1] \in 1..Len(S) /\ S[u[k][1]] = s[u[k][1]]
        BY <1>1, <1>5, <3>1
      <3>3. ASSUME NEW j \in Nat, u[k][2] + j <= s[u[k][1]].len
            PROVE  k + j <= Len(v) /\ v[k + j] = <<u[k][1], u[k][2] + j>>
        <4>1. k + j <= m /\ u[k + j] = <<u[k][1], u[k][2] + j>>
          BY <1>5, <3>1, <3>3
        <4>2. k + j \in 1..m /\ k + j <= m + r
          BY ONLY <1>1, <3>1, <4>1, j \in Nat
        <4> QED
          BY <1>2, <1>3, <4>1, <4>2
      <3>4. ASSUME u[k][2] = s[u[k][1]].len
            PROVE  v[k + 1] = <<u[k][1] + 1, 1>>
        <4>1. CASE k = m
          <5>1. u[k][1] = N
            BY <1>5, <3>1, <3>4, <4>1
          <5>2. v[m + 1] = <<N + 1, 1>>
            <6>1. 1 \in 1..r
              BY ONLY <1>1
            <6> QED
              BY ONLY <1>4, <6>1
          <5> QED
            BY <4>1, <5>1, <5>2
        <4>2. CASE k # m
          <5>1. u[k + 1] = <<u[k][1] + 1, 1>>
            BY <1>5, <3>1, <3>4, <4>2
          <5>2. k + 1 \in 1..m
            BY <1>1, <3>1, <4>2
          <5> QED
            BY <1>3, <5>1, <5>2
        <4> QED
          BY <4>1, <4>2
      <3>5. u[k][2] \in 1..s[u[k][1]].len
        BY <1>5, <3>1
      <3> QED
        BY <3>1, <3>2, <3>3, <3>4, <3>5
    <2>2. CASE ~ (k <= m)
      <3> DEFINE i == k - m
      <3>1. i \in 1..r /\ i \in Nat /\ k = m + i /\ k \in Nat
        BY <1>1, <1>2, <2>2
      <3> HIDE DEF i
      <3>2. v[k] = <<N + 1, i>>
        BY <1>4, <3>1
      <3>3. v[k][1] = N + 1 /\ v[k][2] = i /\ S[v[k][1]].len = r /\ v[k][1] = Len(S)
        BY <1>1, <1>6, <3>2
      <3>4. ASSUME NEW j \in Nat, i + j <= r
            PROVE  k + j <= Len(v) /\ v[k + j] = <<N + 1, i + j>>
        <4>1. i + j \in 1..r /\ k + j = m + (i + j) /\ k + j <= m + r
          BY <1>1, <3>1, <3>4
        <4> QED
          BY <1>2, <1>4, <4>1
      <3>5. i = r => k = Len(v)
        BY <1>2, <3>1
      <3>6. v[k][1] \in 1..Len(S)
        BY <1>1, <3>3
      <3> QED
        BY <3>1, <3>3, <3>4, <3>5, <3>6
    <2> QED
      BY <2>1, <2>2
  <1> QED
    BY <1>7, <1>8 DEF v, S

-----------------------------------------------------------------------------
(* What is ahead, when bytes are received and when they are consumed.      *)

LEMMA AheadIs ==
  ASSUME StreamInv
  PROVE  /\ Ahead \in Seq(Bytes) /\ DataLen \in Nat /\ Len(wire) \in Nat
         /\ Len(Ahead) = DataLen + Len(wire)
         /\ block.data \in Seq(Bytes) /\ block.offset \in Nat
         /\ \A i \in 1..DataLen : Ahead[i] = block.data[i]
  <1>1. block.data \in Seq(Bytes) /\ block.offset \in Nat /\ wire \in Seq(Bytes)
    BY DEF StreamInv
  <1>2. DataLen \in Nat /\ Len(wire) \in Nat
    BY <1>1, LenProperties DEF DataLen
  <1>3. /\ Ahead \in Seq(Bytes) /\ Len(Ahead) = DataLen + Len(wire)
        /\ \A i \in 1..DataLen + Len(wire) :
             Ahead[i] = IF i <= DataLen THEN block.data[i] ELSE wire[i - DataLen]
    BY <1>1, ConcatProperties DEF Ahead, DataLen
  <1>4. \A i \in 1..DataLen : i \in 1..DataLen + Len(wire) /\ i <= DataLen
    BY <1>2
  <1> QED
    BY <1>1, <1>2, <1>3, <1>4

(* DecHeadData(n)                                                          *)
LEMMA AheadConsumed ==
  ASSUME StreamInv, SentInv, NEW n \in Nat, n <= DataLen, block' = DecHeadData(n), wire' = wire, sent' = sent
  PROVE  /\ StreamInv'
         /\ Ahead' = SubSeq(Ahead, n + 1, Len(Ahead))
         /\ DataLen' = DataLen - n
  <1>1. /\ Ahead \in Seq(Bytes) /\ DataLen \in Nat /\ Len(wire) \in Nat
        /\ Len(Ahead) = DataLen + Len(wire)
        /\ block.data \in Seq(Bytes) /\ block.offset \in Nat
    BY AheadIs
  <1> DEFINE d == SubSeq(block.data, n + 1, DataLen)
             r == SubSeq(Ahead, n + 1, Len(Ahead))
  <1>2. block'.offset = block.offset + n /\ block'.data = d /\ block' = [offset |-> block.offset + n, data |-> d]
    BY DEF DecHeadData
  <1>3. n \in 0..DataLen /\ n \in 0..Len(Ahead)
    BY <1>1
  <1>4. d \in Seq(Bytes) /\ Len(d) = DataLen - n /\ \A i \in 1..(DataLen - n) : d[i] = block.data[n + i]
    BY <1>1, <1>3, RestOf DEF DataLen
  <1>5. r \in Seq(Bytes) /\ Len(r) = Len(Ahead) - n /\ \A i \in 1..(Len(Ahead) - n) : r[i] = Ahead[n + i]
    BY <1>1, <1>3, RestOf
  <1> HIDE DEF d, r
  <1>6. wire \in Seq(Bytes) /\ block.offset + DataLen <= BlockSize /\ sent' = sent
    BY DEF StreamInv
  <1>7. Ahead' = d \o wire
    BY <1>2 DEF Ahead
  <1>8. d \o wire \in Seq(Bytes) /\ Len(d \o wire) = Len(d) + Len(wire)
        /\ \A i \in 1..Len(d) + Len(wire) :
             (d \o wire)[i] = IF i <= Len(d) THEN d[i] ELSE wire[i - Len(d)]
    BY <1>4, <1>6, ConcatProperties
  <1>9. \A i \in 1..DataLen + Len(wire) :
             Ahead[i] = IF i <= DataLen THEN block.data[i] ELSE wire[i - DataLen]
    BY <1>1, <1>6, ConcatProperties DEF Ahead, DataLen
  <1>10. \A i \in 1..Len(r) : (d \o wire)[i] = r[i]
    <2> SUFFICES ASSUME NEW i \in 1..Len(r) PROVE (d \o wire)[i] = r[i]
      OBVIOUS
    <2> DEFINE k == n + i
    <2>1. i \in 1..(Len(Ahead) - n) /\ i \in Nat /\ i \in 1..Len(d) + Len(wire)
          /\ k \in 1..DataLen + Len(wire) /\ k \in Nat /\ (k <= DataLen <=> i <= Len(d))
          /\ k - DataLen = i - Len(d) /\ (i <= Len(d) => i \in 1..(DataLen - n))
      BY <1>1, <1>4, <1>5
    <2>2. r[i] = Ahead[k]
      BY <1>5, <2>1
    <2>3. i <= Len(d) => d[i] = block.data[k]
      BY <1>4, <2>1
    <2> HIDE DEF k
    <2> QED
      BY <1>8, <1>9, <2>1, <2>2, <2>3
  <1>11. Len(d \o wire) = Len(r)
    BY <1>1, <1>4, <1>5, <1>8
  <1>12. d \o wire = r
    BY <1>5, <1>8, <1>10, <1>11, SeqEqual
  <1>13. Follows(r, sent)
    <2>1. sent \in Seq(Pkgs) /\ Follows(Ahead, sent)
      BY DEF StreamInv, SentInv
    <2> QED
      BY <1>1, <1>3, <2>1, FollowsRest DEF r
  <1>14. Ahead' = r
    BY <1>7, <1>12
  <1>15. DataLen' = DataLen - n
    BY <1>2, <1>4 DEF DataLen
  <1>16. Follows(Ahead', sent')
    BY <1>13, <1>14
  <1>17. block' \in [offset : Nat, data : Seq(Bytes)]
    BY <1>1, <1>2, <1>4
  <1>18. block'.offset + DataLen' <= BlockSize
    BY <1>1, <1>2, <1>6, <1>15, SizesAre
  <1>19. StreamInv'
    BY <1>6, <1>16, <1>17, <1>18 DEF StreamInv
  <1> QED
    BY <1>14, <1>15, <1>19 DEF r

(* handle_can_recv                                                         *)
LEMMA AheadReceived ==
  ASSUME StreamInv, SentInv, NEW n \in 1..Len(wire), n <= TailFreeSize(MoveDataAhead),
         block' = [MoveDataAhead EXCEPT !.data = @ \o SubSeq(wire, 1, n)],
         wire' = SubSeq(wire, n + 1, Len(wire)), sent' = sent
  PROVE  StreamInv' /\ Ahead' = Ahead
  <1>1. /\ Ahead \in Seq(Bytes) /\ DataLen \in Nat /\ Len(wire) \in Nat
        /\ block.data \in Seq(Bytes) /\ wire \in Seq(Bytes)
    BY AheadIs DEF StreamInv
  <1> DEFINE w == SubSeq(wire, 1, n)
             v == SubSeq(wire, n + 1, Len(wire))
  <1>2. w \in Seq(Bytes) /\ Len(w) = n
    <2>1. \A i \in 1..n : wire[i] \in Bytes
      BY <1>1, ElementOfSeq
    <2>2. 1 \in Int /\ n \in Int /\ 1 <= n /\ n - 1 + 1 = n
      BY <1>1
    <2>3. w \in Seq(Bytes) /\ Len(w) = IF 1 <= n THEN n - 1 + 1 ELSE 0
      BY <2>1, <2>2, SubSeqProperties
    <2> QED
      BY <2>2, <2>3
  <1>3. v \in Seq(Bytes)
    BY <1>1, RestOf
  <1>4. w \o v = wire
    <2>1. 1 \in 1..Len(wire) + 1 /\ n \in 1 - 1 .. Len(wire) /\ Len(wire) \in n..Len(wire)
      BY <1>1
    <2>2. w \o v = SubSeq(wire, 1, Len(wire))
      BY <1>1, <2>1, ConcatAdjacentSubSeq
    <2> QED
      BY <1>1, <2>2, SubSeqFull
  <1> HIDE DEF w, v
  <1>5. /\ block.offset \in Nat /\ MoveDataAhead = [offset |-> 0, data |-> block.data]
    BY DEF StreamInv, MoveDataAhead
  <1> DEFINE x == block.data \o w
  <1>6. block' = [offset |-> 0, data |-> x] /\ wire' = v
    BY <1>5 DEF w, v
  <1>7. x \in Seq(Bytes) /\ Len(x) = DataLen + n
    BY <1>1, <1>2, ConcatProperties DEF DataLen
  <1>8. Ahead' = Ahead
    <2>1. x \o v = block.data \o (w \o v)
      <3>1. block.data \in Seq(Bytes) /\ w \in Seq(Bytes) /\ v \in Seq(Bytes)
        BY <1>1, <1>2, <1>3
      <3> QED
        BY ONLY <3>1, Associates
    <2> HIDE DEF x
    <2>2. Ahead' = x \o v
      BY ONLY <1>6 DEF Ahead
    <2> QED
      BY <2>1, <2>2, <1>4 DEF Ahead
  <1> HIDE DEF x
  <1>9. block' \in [offset : Nat, data : Seq(Bytes)]
    BY ONLY <1>6, <1>7
  <1>10. block'.offset + DataLen' <= BlockSize
    <2>1. n <= BlockSize - (DataLen + 0)
      BY <1>5 DEF TailFreeSize, DataLen
    <2>2. block'.offset = 0 /\ DataLen' = DataLen + n
      BY <1>6, <1>7 DEF DataLen
    <2> QED
      BY <1>1, <2>1, <2>2, SizesAre
  <1>11. Follows(Ahead', sent')
    BY <1>8 DEF StreamInv
  <1> QED
    BY <1>3, <1>6, <1>8, <1>9, <1>10, <1>11 DEF StreamInv

(* move_data_ahead                                                         *)
LEMMA AheadMoved ==
  ASSUME StreamInv, block' = MoveDataAhead \/ block' = block, wire' = wire, sent' = sent
  PROVE  StreamInv' /\ Ahead' = Ahead /\ block'.data = block.data /\ DataLen' = DataLen
  <1>1. block.offset \in Nat /\ DataLen \in Nat /\ block \in [offset : Nat, data : Seq(Bytes)]
        /\ block.offset + DataLen <= BlockSize
    BY AheadIs DEF StreamInv
  <1>2. MoveDataAhead = [offset |-> 0, data |-> block.data]
    BY <1>1 DEF MoveDataAhead
  <1>3. block'.data = block.data /\ (block'.offset = 0 \/ block'.offset = block.offset)
        /\ block' \in [offset : Nat, data : Seq(Bytes)]
    BY <1>1, <1>2
  <1>4. Ahead' = Ahead /\ DataLen' = DataLen
    BY <1>3 DEF Ahead, DataLen
  <1>5. block'.offset + DataLen' <= BlockSize
    BY <1>1, <1>3, <1>4, SizesAre
  <1>6. Follows(Ahead', sent')
    BY <1>4 DEF StreamInv
  <1> QED
    BY <1>3, <1>4, <1>5, <1>6 DEF StreamInv

-----------------------------------------------------------------------------
(* What was handled.                                                       *)

(* No remainder, and the quotient is unique.                               *)
LEMMA DivExact ==
  ASSUME NEW b \in Nat \ {0}, NEW k \in Nat
  PROVE  (k * b) \div b = k
  <1> DEFINE a == k * b
             d == a \div b
  <1>1. a \in Nat /\ a = b * k
    OBVIOUS
  <1>2. a % b \in 0 .. b - 1 /\ d \in Nat /\ a = b * d + (a % b)
    BY <1>1, DivMod
  <1> DEFINE x == k - d
             m == a % b
  <1>3. b * x = m /\ m \in 0 .. b - 1 /\ x \in Int /\ b * (- x) = - m
    BY <1>1, <1>2
  <1> HIDE DEF a, d, m, x
  <1>4. ~ (x > 0)
    BY <1>3, TimesAtLeast
  <1>5. ~ (- x > 0)
    <2>1. - x \in Int
      BY <1>3
    <2> QED
      BY <1>3, <2>1, TimesAtLeast
  <1>6. x = 0
    BY <1>3, <1>4, <1>5
  <1>7. d = k
    BY <1>2, <1>6 DEF x
  <1> QED
    BY <1>7 DEF d, a

LEMMA FirstBodiesType ==
  ASSUME NEW p \in Nat, NEW b \in Nat, NEW m \in Nat
  PROVE  FirstBodies(p, b, m) \in Seq(Bytes) /\ Len(FirstBodies(p, b, m)) = m
  <1>1. \A n \in 1..m : <<p, HdrSize + n * b>> \in Bytes
    BY SizesAre DEF Bytes
  <1>2. FirstBodies(p, b, m) \in [1..m -> Bytes]
    BY <1>1 DEF FirstBodies
  <1> QED
    BY <1>2

LEMMA BodiesAre ==
  ASSUME SentInv, NEW p \in 1..Len(sent), NEW k \in Nat,
         sent[p].len = HdrSize + k * BodySize[sent[p].op], sent[p].len # HdrSize
  PROVE  /\ BodySize[sent[p].op] \in Nat \ {0} /\ k > 0
         /\ BodiesOf(p) = FirstBodies(p, BodySize[sent[p].op], k)
  <1> DEFINE b == BodySize[sent[p].op]
  <1>1. b \in Nat /\ HdrSize \in Nat /\ sent[p].len \in Nat
    BY PkgIs, SizesAre DEF SentInv
  <1> HIDE DEF b
  <1>2. sent[p].len = HdrSize + k * b
    BY DEF b
  <1>3. b # 0 /\ k # 0
    <2>1. CASE b = 0
      BY <1>1, <1>2, <2>1
    <2>2. CASE k = 0
      BY <1>1, <1>2, <2>2
    <2> QED
      BY <2>1, <2>2
  <1>4. sent[p].len - HdrSize = k * b
    BY <1>1, <1>2
  <1>5. (sent[p].len - HdrSize) \div b = k
    BY <1>1, <1>3, <1>4, DivExact
  <1> QED
    BY <1>1, <1>3, <1>5 DEF BodiesOf, FirstBodies, b

LEMMA BodiesType ==
  ASSUME SentInv, NEW p \in 1..Len(sent)
  PROVE  BodiesOf(p) \in Seq(Bytes)
  <1>1. PICK k \in Nat : sent[p].len = HdrSize + k * BodySize[sent[p].op]
    BY DEF SentInv, Whole
  <1>2. CASE sent[p].len = HdrSize
    BY <1>2 DEF BodiesOf
  <1>3. CASE sent[p].len # HdrSize
    <2>1. p \in Nat
      OBVIOUS
    <2> DEFINE b == BodySize[sent[p].op]
    <2>2. b \in Nat \ {0} /\ BodiesOf(p) = FirstBodies(p, b, k)
      BY <1>1, <1>3, BodiesAre
    <2> HIDE DEF b
    <2>3. b \in Nat
      BY <2>2
    <2> QED
      BY <2>1, <2>2, <2>3, FirstBodiesType
  <1> QED
    BY <1>2, <1>3

LEMMA BodiesUpTo ==
  ASSUME SentInv, NEW n \in 0..Len(sent)
  PROVE  [p \in 1..n |-> BodiesOf(p)] \in Seq(Seq(Bytes))
  <1>1. Len(sent) \in Nat /\ n \in Nat
    BY LenProperties DEF SentInv
  <1>2. \A p \in 1..n : BodiesOf(p) \in Seq(Bytes)
    BY <1>1, BodiesType
  <1>3. [p \in 1..n |-> BodiesOf(p)] \in [1..n -> Seq(Bytes)]
    BY <1>2
  <1> QED
    BY <1>1, <1>3, SeqDef

LEMMA DoneType ==
  ASSUME SentInv, NEW n \in 0..Len(sent)
  PROVE  DoneOf(n) \in Seq(Bytes)
  BY BodiesUpTo, FlattenType DEF DoneOf

LEMMA DoneNone == DoneOf(0) = <<>>
  <1>1. [p \in 1..0 |-> BodiesOf(p)] = <<>>
    OBVIOUS
  <1> QED
    BY <1>1, FlattenEmpty DEF DoneOf

LEMMA DoneNext ==
  ASSUME SentInv, NEW n \in 1..Len(sent)
  PROVE  DoneOf(n) = DoneOf(n - 1) \o BodiesOf(n)
  <1> DEFINE s == [p \in 1..(n - 1) |-> BodiesOf(p)]
             t == [p \in 1..n |-> BodiesOf(p)]
  <1>1. Len(sent) \in Nat /\ n \in Nat /\ n - 1 \in 0..Len(sent) /\ n \in 0..Len(sent)
    BY LenProperties DEF SentInv
  <1>2. s \in Seq(Seq(Bytes)) /\ t \in Seq(Seq(Bytes)) /\ BodiesOf(n) \in Seq(Bytes)
    BY <1>1, BodiesUpTo, BodiesType
  <1>3. Len(s) = n - 1 /\ Len(t) = n
    BY <1>1
  <1>4. /\ Append(s, BodiesOf(n)) \in Seq(Seq(Bytes))
        /\ Len(Append(s, BodiesOf(n))) = Len(s) + 1
        /\ \A i \in 1..Len(s) : Append(s, BodiesOf(n))[i] = s[i]
        /\ Append(s, BodiesOf(n))[Len(s) + 1] = BodiesOf(n)
    BY <1>2, AppendProperties
  <1>5. \A i \in 1..n : Append(s, BodiesOf(n))[i] = t[i]
    <2> SUFFICES ASSUME NEW i \in 1..n PROVE Append(s, BodiesOf(n))[i] = t[i]
      OBVIOUS
    <2>1. CASE i = n
      BY <1>1, <1>3, <1>4, <2>1
    <2>2. CASE i # n
      <3>1. i \in 1..(n - 1) /\ i \in 1..n
        BY <1>1, <2>2
      <3>2. s[i] = BodiesOf(i) /\ t[i] = BodiesOf(i)
        BY <3>1
      <3> HIDE DEF s, t
      <3> QED
        BY <1>3, <1>4, <3>1, <3>2
    <2> QED
      BY <2>1, <2>2
  <1> HIDE DEF s, t
  <1>6. Append(s, BodiesOf(n)) = t
    <2>1. Len(Append(s, BodiesOf(n))) = Len(t)
      BY <1>1, <1>3, <1>4
    <2>2. \A i \in 1..Len(t) : Append(s, BodiesOf(n))[i] = t[i]
      BY <1>3, <1>5
    <2> QED
      BY <1>2, <1>4, <2>1, <2>2, SeqEqual
  <1>7. FlattenSeq(Append(s, BodiesOf(n))) = FlattenSeq(s) \o BodiesOf(n)
    BY <1>2, FlattenAppend
  <1> QED
    BY <1>6, <1>7 DEF DoneOf, s, t

LEMMA AllAreDone ==
  ASSUME SentInv
  PROVE  AllBodies = DoneOf(Len(sent))
  <1>1. DOMAIN sent = 1..Len(sent)
    BY LenProperties DEF SentInv
  <1> QED
    BY <1>1 DEF AllBodies, DoneOf

(* What was sent is sent.                                                  *)
LEMMA DoneStays ==
  ASSUME SentInv, NEW q \in Pkgs, sent' = Append(sent, q), NEW n \in 0..Len(sent)
  PROVE  DoneOf(n)' = DoneOf(n)
  <1>1. sent \in Seq(Pkgs) /\ Len(sent) \in Nat /\ n \in Nat
    BY LenProperties DEF SentInv
  <1>2. \A p \in 1..n : sent'[p] = sent[p]
    BY <1>1, AppendProperties
  <1>3. \A p \in 1..n : BodiesOf(p)' = BodiesOf(p)
    BY <1>2 DEF BodiesOf
  <1>4. [p \in 1..n |-> BodiesOf(p)'] = [p \in 1..n |-> BodiesOf(p)]
    BY <1>3, Zenon
  <1> QED
    BY <1>4, Zenon DEF DoneOf

LEMMA PrefixIs ==
  ASSUME NEW s \in Seq(Bytes), NEW t \in Seq(Bytes)
  PROVE  IsPrefix(s, s \o t)
  <1>1. /\ s \o t \in Seq(Bytes) /\ Len(s) \in Nat /\ Len(t) \in Nat /\ Len(s \o t) = Len(s) + Len(t)
    BY ConcatProperties, LenProperties
  <1>2. CASE s = <<>>
    <2>1. Len(s) = 0
      BY <1>2
    <2>2. SubSeq(s, 1, Len(s)) = <<>> /\ SubSeq(s \o t, 1, Len(s)) = <<>>
      BY <2>1, SubSeqEmpty
    <2> QED
      BY <1>1, <2>2 DEF IsPrefix
  <1>3. CASE s # <<>>
    <2>1. 1 \in 1..Len(s) /\ Len(s) \in 1..Len(s)
      BY <1>1, <1>3, EmptySeq
    <2>2. SubSeq(s \o t, 1, Len(s)) = SubSeq(s, 1, Len(s))
      BY <2>1, SubSeqOfConcat1
    <2> QED
      BY <1>1, <2>2 DEF IsPrefix
  <1> QED
    BY <1>2, <1>3

(* The bodies of the first packages come first.                            *)
LEMMA DonePrefix ==
  ASSUME SentInv, NEW n \in 0..Len(sent)
  PROVE  \E t \in Seq(Bytes) : DoneOf(Len(sent)) = DoneOf(n) \o t
  <1> DEFINE Grown(m) == \E t \in Seq(Bytes) : DoneOf(m) = DoneOf(n) \o t
             Bad == {m \in Nat : n <= m /\ m <= Len(sent) /\ ~ Grown(m)}
  <1>1. Len(sent) \in Nat /\ n \in Nat
    BY LenProperties DEF SentInv
  <1>2. Bad = {}
    <2> SUFFICES ASSUME Bad # {} PROVE FALSE
      OBVIOUS
    <2>1. PICK m \in Bad : \A i \in Bad : m <= i
      BY LeastExists
    <2>2. m \in Nat /\ n <= m /\ m <= Len(sent)
          /\ ~ Grown(m)
      BY <2>1
    <2>3. DoneOf(n) \in Seq(Bytes)
      BY DoneType
    <2>4. CASE m = n
      <3>1. DoneOf(n) = DoneOf(n) \o <<>> /\ <<>> \in Seq(Bytes)
        BY <2>3, ConcatEmptySeq, EmptySeq
      <3> QED
        BY <2>2, <2>4, <3>1
    <2>5. CASE m # n
      <3>1. m - 1 \in Nat /\ n <= m - 1 /\ m - 1 <= Len(sent) /\ m \in 1..Len(sent) /\ ~ (m <= m - 1)
        BY <1>1, <2>2, <2>5
      <3>2. m - 1 \notin Bad
        BY <2>1, <3>1
      <3>3. PICK t \in Seq(Bytes) : DoneOf(m - 1) = DoneOf(n) \o t
        BY <3>1, <3>2
      <3>4. BodiesOf(m) \in Seq(Bytes) /\ t \o BodiesOf(m) \in Seq(Bytes)
        BY <3>1, BodiesType, ConcatProperties
      <3>5. DoneOf(m) = (DoneOf(n) \o t) \o BodiesOf(m)
        BY <3>1, <3>3, DoneNext
      <3>6. DoneOf(m) = DoneOf(n) \o (t \o BodiesOf(m))
        BY <2>3, <3>4, <3>5, Associates
      <3> QED
        BY <2>2, <3>4, <3>6
    <2> QED
      BY <2>4, <2>5
  <1> HIDE DEF Grown
  <1>3. n <= Len(sent)
    BY <1>1
  <1>4. Grown(Len(sent))
    <2>1. \A m \in Nat : n <= m /\ m <= Len(sent) => Grown(m)
      BY <1>2
    <2>2. Len(sent) <= Len(sent)
      BY <1>1
    <2> QED
      BY <1>1, <1>3, <2>1, <2>2
  <1> QED
    BY <1>4 DEF Grown

-----------------------------------------------------------------------------
(* The steps.                                                              *)

LEMMA FirstIs ==
  ASSUME StreamInv, SentInv
  PROVE  /\ FirstOf(Ahead, sent)[1] - 1 \in 0..Len(sent)
         /\ Ahead = <<>> => FirstOf(Ahead, sent) = <<Len(sent) + 1, 1>>
         /\ Ahead # <<>> => /\ FirstOf(Ahead, sent) = Ahead[1] /\ Ahead[1][1] \in 1..Len(sent)
                            /\ 1 \in 1..Len(Ahead) /\ Ahead[1] = <<Ahead[1][1], Ahead[1][2]>>
  <1>1. Len(sent) \in Nat /\ Ahead \in Seq(Bytes) /\ Follows(Ahead, sent)
    BY LenProperties, AheadIs DEF SentInv, StreamInv
  <1>2. CASE Ahead = <<>>
    <2>1. FirstOf(Ahead, sent) = <<Len(sent) + 1, 1>>
      BY <1>2 DEF FirstOf
    <2> QED
      BY <1>1, <1>2, <2>1
  <1>3. CASE Ahead # <<>>
    <2>1. 1 \in 1..Len(Ahead)
      BY <1>1, <1>3, EmptySeq
    <2>2. FirstOf(Ahead, sent) = Ahead[1]
      BY <1>3 DEF FirstOf
    <2>3. Ahead[1][1] \in 1..Len(sent)
      BY <1>1, <2>1 DEF Follows
    <2>4. Ahead[1] = <<Ahead[1][1], Ahead[1][2]>>
      BY <1>1, <2>1, ByteIs
    <2> QED
      BY <1>1, <1>3, <2>1, <2>2, <2>3, <2>4
  <1> QED
    BY <1>2, <1>3

(* The head of the data is the first byte of a package.                    *)
LEMMA HeadIs ==
  ASSUME StreamInv, SentInv, AtBoundary, DataLen > 0
  PROVE  /\ Ahead # <<>> /\ Head(block.data) = Ahead[1] /\ block.data[1] = Ahead[1]
         /\ HeadPkg \in 1..Len(sent) /\ Ahead[1] = <<HeadPkg, 1>>
         /\ handled = DoneOf(HeadPkg - 1)
  <1>1. /\ Ahead \in Seq(Bytes) /\ DataLen \in Nat /\ Len(wire) \in Nat
        /\ Len(Ahead) = DataLen + Len(wire) /\ block.data \in Seq(Bytes)
        /\ \A i \in 1..DataLen : Ahead[i] = block.data[i]
    BY AheadIs
  <1>2. 1 \in 1..DataLen /\ Len(Ahead) > 0
    BY <1>1
  <1>3. Ahead # <<>> /\ block.data # <<>>
    BY <1>2, LenEmpty DEF DataLen
  <1>4. Head(block.data) = block.data[1] /\ block.data[1] = Ahead[1]
    BY <1>1, <1>2, <1>3
  <1>5. FirstOf(Ahead, sent) = Ahead[1] /\ Ahead[1][1] \in 1..Len(sent)
        /\ Ahead[1] = <<Ahead[1][1], Ahead[1][2]>>
    BY <1>3, FirstIs
  <1>6. Ahead[1][2] = 1 /\ handled = DoneOf(Ahead[1][1] - 1)
    <2>1. PICK n \in Nat : Ahead[1] = <<n + 1, 1>> /\ handled = DoneOf(n)
      BY <1>5 DEF AtBoundary
    <2>2. Ahead[1][1] - 1 = n
      BY <2>1
    <2> QED
      BY <2>1, <2>2
  <1> QED
    BY <1>3, <1>4, <1>5, <1>6 DEF HeadPkg

LEMMA InitInv == Init => RecvInv
  <1> SUFFICES ASSUME Init PROVE RecvInv
    OBVIOUS
  <1>1. Ahead = <<>>
    BY DEF Init, Ahead
  <1>2. ArchiveInv
    <2>1. (CHOOSE op \in Opcodes : TRUE) \in Opcodes
      BY SizesAssumption
    <2>2. archive = NoArchive /\ NoArchive \in [op : Opcodes, len : 0..BlockSize, pending : BOOLEAN]
          /\ NoArchive.len = 0
      BY <2>1, SizesAre DEF Init, NoArchive
    <2>3. fin = FALSE
      BY DEF Init
    <2> HIDE DEF NoArchive
    <2> QED
      BY <2>2, <2>3 DEF ArchiveInv
  <1>3. SentInv
    <2>1. sent = <<>> /\ Len(<<>>) = 0
      BY LenEmpty DEF Init
    <2> QED
      BY <2>1 DEF SentInv
  <1>4. StreamInv
    <2>1. DataLen = 0 /\ block.offset = 0 /\ wire = <<>> /\ block \in [offset : Nat, data : Seq(Bytes)]
      BY LenEmpty DEF Init, DataLen
    <2>2. Follows(Ahead, sent)
      BY <1>1, LenEmpty DEF Follows
    <2> QED
      BY <2>1, <2>2, SizesAre, EmptySeq DEF StreamInv
  <1>5. DispatchInv
    <2>1. AtBoundary
      <3>1. FirstOf(Ahead, sent) = <<1, 1>>
        BY <1>1, LenEmpty DEF FirstOf, Init
      <3>2. handled = DoneOf(0) /\ <<1, 1>> = <<0 + 1, 1>>
        BY DoneNone DEF Init
      <3> QED
        BY <3>1, <3>2 DEF AtBoundary
    <2>2. /\ phase = "idle" /\ conn = "opened" /\ handled = <<>> /\ pkg = NoPkg /\ block.data = <<>>
          /\ pkg \in [p : Nat, size : Nat]
      BY DEF Init, NoPkg
    <2> QED
      BY <2>1, <2>2 DEF DispatchInv
  <1> QED
    BY <1>2, <1>3, <1>4, <1>5 DEF RecvInv

LEMMA BoundaryStays ==
  ASSUME AtBoundary, sent' = sent, Ahead' = Ahead, handled' = handled
  PROVE  AtBoundary'
  <1>1. PICK n \in Nat : FirstOf(Ahead, sent) = <<n + 1, 1>> /\ handled = DoneOf(n)
    BY DEF AtBoundary
  <1>2. DoneOf(n)' = DoneOf(n)
    BY DEF DoneOf, BodiesOf
  <1>3. FirstOf(Ahead', sent') = <<n + 1, 1>> /\ handled' = DoneOf(n)'
    BY <1>1, <1>2
  <1> QED
    BY <1>3 DEF AtBoundary

(* Steps that the receiving side does not notice.                          *)
LEMMA ArchiveStep ==
  ASSUME RecvInv, ArchiveInv', fin => fin', UNCHANGED <<sent, wire, recvVars>>
  PROVE  RecvInv'
  <1>1. SentInv' /\ StreamInv'
    BY DEF RecvInv, SentInv, StreamInv, recvVars, Ahead, DataLen
  <1>2. DispatchInv'
    <2>1. UNCHANGED <<block, phase, pkg, handled, conn, wire, sent>>
      BY DEF recvVars
    <2>2. Ahead' = Ahead /\ DataLen' = DataLen
      BY <2>1 DEF Ahead, DataLen
    <2>3. \A n : DoneOf(n)' = DoneOf(n)
      BY <2>1 DEF DoneOf, BodiesOf
    <2>4. AtBoundary => AtBoundary'
      BY <2>1, <2>2, BoundaryStays
    <2>5. \A k, c \in Nat : InBodies(k, c) => InBodies(k, c)'
      BY <2>1, <2>2, <2>3 DEF InBodies
    <2>6. (\E k, c \in Nat : InBodies(k, c)) => \E k, c \in Nat : InBodies(k, c)'
      BY <2>5
    <2> QED
      BY <2>1, <2>2, <2>4, <2>6 DEF RecvInv, DispatchInv
  <1> QED
    BY <1>1, <1>2 DEF RecvInv

LEMMA GetHdrStep ==
  ASSUME RecvInv, NEW op \in Opcodes, GetHdr(op)
  PROVE  RecvInv'
  <1>1. archive' = [op |-> op, len |-> HdrSize, pending |-> FALSE] /\ ~ fin
        /\ UNCHANGED <<sent, wire, fin, recvVars>>
    BY DEF GetHdr
  <1>2. Whole(op, HdrSize)
    <2>1. BodySize[op] \in Nat /\ HdrSize \in Nat
      BY SizesAre
    <2>2. HdrSize = HdrSize + 0 * BodySize[op]
      BY <2>1
    <2> QED
      BY <2>2 DEF Whole
  <1>3. ArchiveInv'
    <2>1. archive' \in [op : Opcodes, len : 0..BlockSize, pending : BOOLEAN]
      BY <1>1, SizesAre
    <2>2. archive'.op = op /\ archive'.len = HdrSize /\ archive'.pending = FALSE
      BY <1>1
    <2> QED
      BY <1>1, <1>2, <2>1, <2>2 DEF RecvInv, ArchiveInv, Whole
  <1> QED
    BY <1>1, <1>3, ArchiveStep

(* body_ready: what is in the block so far.                                *)
LEMMA ReadyIs ==
  ASSUME ArchiveInv, archive.len > 0
  PROVE  /\ BodyReady \in Nat /\ BodyReady <= BlockSize /\ BodyReady >= HdrSize
         /\ Whole(archive.op, BodyReady)
  <1> DEFINE b == BodySize[archive.op]
             l == archive.len
  <1>1. archive.op \in Opcodes /\ l \in Nat /\ l <= BlockSize /\ b \in Nat /\ HdrSize \in Nat /\ BlockSize \in Nat
    BY SizesAre DEF ArchiveInv
  <1>2. PICK k \in Nat : l = HdrSize + k * b
    BY <1>1 DEF ArchiveInv, Whole
  <1>3. archive.pending => l + b <= BlockSize
    BY <1>1 DEF ArchiveInv
  <1>4. BodyReady = IF archive.pending THEN l + b ELSE l
    BY <1>1 DEF BodyReady
  <1> HIDE DEF b, l
  <1>5. k * b \in Nat /\ (k + 1) * b = k * b + b /\ k + 1 \in Nat
    BY <1>1
  <1>6. l + b = HdrSize + (k + 1) * b /\ l >= HdrSize
    BY <1>1, <1>2, <1>5
  <1>7. BodyReady \in Nat /\ BodyReady <= BlockSize /\ BodyReady >= HdrSize
    BY <1>1, <1>3, <1>4, <1>6
  <1>8. BodyReady = HdrSize + k * b \/ BodyReady = HdrSize + (k + 1) * b
    BY <1>2, <1>4, <1>6
  <1> QED
    BY <1>5, <1>7, <1>8 DEF Whole, b

LEMMA GetNextBodyStep ==
  ASSUME RecvInv, GetNextBody
  PROVE  RecvInv'
  <1>1. /\ archive.len > 0 /\ archive' = [archive EXCEPT !.len = BodyReady, !.pending = RoomForBody]
        /\ UNCHANGED <<sent, wire, fin, recvVars>>
    BY DEF GetNextBody
  <1>2. /\ BodyReady \in Nat /\ BodyReady <= BlockSize /\ BodyReady >= HdrSize
        /\ Whole(archive.op, BodyReady)
    BY <1>1, ReadyIs DEF RecvInv
  <1>3. archive \in [op : Opcodes, len : 0..BlockSize, pending : BOOLEAN] /\ fin \in BOOLEAN
        /\ (fin => archive.len = 0)
    BY DEF RecvInv, ArchiveInv
  <1>4. RoomForBody \in BOOLEAN
    BY DEF RoomForBody
  <1>5. RoomForBody => BodyReady + BodySize[archive.op] <= BlockSize
    <2>1. BodySize[archive.op] \in Nat /\ BlockSize \in Nat
      BY <1>3, SizesAre
    <2> QED
      BY <1>2, <2>1 DEF RoomForBody
  <1>6. archive'.op = archive.op /\ archive'.len = BodyReady /\ archive'.pending = RoomForBody
        /\ archive' = [op |-> archive.op, len |-> BodyReady, pending |-> RoomForBody]
    BY <1>1, <1>3
  <1>7. archive' \in [op : Opcodes, len : 0..BlockSize, pending : BOOLEAN]
    BY <1>2, <1>3, <1>4, <1>6, SizesAre
  <1>8. ~ fin
    BY <1>1, <1>3
  <1>9. ArchiveInv'
    <2>1. Whole(archive'.op, archive'.len)
      BY <1>2, <1>6
    <2>2. archive'.pending => archive'.len + BodySize[archive'.op] <= BlockSize
      BY <1>5, <1>6
    <2>3. fin' = FALSE
      BY <1>1, <1>3, <1>8
    <2> QED
      BY <1>7, <2>1, <2>2, <2>3 DEF ArchiveInv
  <1> QED
    BY <1>1, <1>9, ArchiveStep

LEMMA PeerClosesStep ==
  ASSUME RecvInv, PeerCloses
  PROVE  RecvInv'
  <1>1. archive.len = 0 /\ fin' = TRUE /\ archive' = archive /\ UNCHANGED <<sent, wire, recvVars>>
    BY DEF PeerCloses
  <1>2. ArchiveInv'
    BY <1>1 DEF RecvInv, ArchiveInv
  <1> QED
    BY <1>1, <1>2, ArchiveStep

(* A package is sent: all that was behind the stream is now followed by it. *)
LEMMA SerializeStep ==
  ASSUME RecvInv, Serialize
  PROVE  RecvInv'
  <1> DEFINE q == [op |-> archive.op, len |-> BodyReady]
             w == [i \in 1..BodyReady |-> <<Len(sent) + 1, i>>]
  <1>1. /\ archive.len > 0 /\ sent' = Append(sent, q) /\ wire' = wire \o w /\ archive' = NoArchive
        /\ fin' = fin /\ UNCHANGED <<block, phase, pkg, handled, conn>>
    BY DEF Serialize, recvVars
  <1>2. /\ BodyReady \in Nat /\ BodyReady <= BlockSize /\ BodyReady >= HdrSize
        /\ Whole(archive.op, BodyReady)
    BY <1>1, ReadyIs DEF RecvInv
  <1>3. /\ archive \in [op : Opcodes, len : 0..BlockSize, pending : BOOLEAN] /\ fin = FALSE
        /\ sent \in Seq(Pkgs) /\ Len(sent) \in Nat /\ wire \in Seq(Bytes) /\ Follows(Ahead, sent)
        /\ block.data \in Seq(Bytes)
    BY <1>1, LenProperties DEF RecvInv, ArchiveInv, SentInv, StreamInv
  <1>4. q \in Pkgs /\ q.len = BodyReady /\ q.op = archive.op
    BY <1>2, <1>3, SizesAre DEF Pkgs
  <1>5. w \in Seq(Bytes) /\ Len(w) = BodyReady /\ \A i \in 1..BodyReady : w[i] = <<Len(sent) + 1, i>>
    <2>1. \A i \in 1..BodyReady : <<Len(sent) + 1, i>> \in Bytes
      BY <1>2, <1>3 DEF Bytes
    <2>2. w \in [1..BodyReady -> Bytes]
      BY <2>1
    <2> QED
      BY <1>2, <2>2
  <1> HIDE DEF q, w
  <1>6. Ahead \in Seq(Bytes)
    BY AheadIs DEF RecvInv
  <1>7. Ahead' = Ahead \o w
    BY <1>1, <1>3, <1>5, Associates DEF Ahead
  <1>8. Follows(Ahead \o w, Append(sent, q)) /\ FirstOf(Ahead \o w, Append(sent, q)) = FirstOf(Ahead, sent)
    <2>1. Len(w) = q.len /\ \A i \in 1..q.len : w[i] = <<Len(sent) + 1, i>>
      BY ONLY <1>4, <1>5
    <2>2. w \in Seq(Bytes) /\ q \in Pkgs /\ sent \in Seq(Pkgs) /\ Follows(Ahead, sent)
      BY <1>3, <1>4, <1>5
    <2> QED
      BY ONLY <1>6, <2>1, <2>2, FollowsSent
  <1>9. Follows(Ahead', sent') /\ FirstOf(Ahead', sent') = FirstOf(Ahead, sent)
    BY <1>1, <1>7, <1>8
  <1>10. ArchiveInv'
    <2>1. (CHOOSE op \in Opcodes : TRUE) \in Opcodes
      BY SizesAssumption
    <2>2. archive' \in [op : Opcodes, len : 0..BlockSize, pending : BOOLEAN] /\ archive'.len = 0
      BY <1>1, <2>1, SizesAre DEF NoArchive
    <2> QED
      BY <1>1, <1>3, <2>2 DEF ArchiveInv
  <1>11. /\ sent' \in Seq(Pkgs) /\ Len(sent') = Len(sent) + 1 /\ sent'[Len(sent) + 1] = q
         /\ \A p \in 1..Len(sent) : sent'[p] = sent[p]
    BY <1>1, <1>3, <1>4, AppendProperties
  <1>12. SentInv'
    <2>1. \A p \in 1..Len(sent) : Whole(sent'[p].op, sent'[p].len)
      BY <1>11 DEF RecvInv, SentInv
    <2>2. Whole(sent'[Len(sent) + 1].op, sent'[Len(sent) + 1].len)
      BY <1>2, <1>4, <1>11
    <2>3. \A p \in 1..Len(sent') : p \in 1..Len(sent) \/ p = Len(sent) + 1
      BY <1>3, <1>11
    <2>4. \A p \in 1..Len(sent') : Whole(sent'[p].op, sent'[p].len)
      BY <2>1, <2>2, <2>3
    <2> QED
      BY <1>11, <2>4 DEF SentInv
  <1>13. StreamInv'
    <2>1. wire' \in Seq(Bytes)
      BY <1>1, <1>3, <1>5, ConcatProperties
    <2>2. block' = block /\ DataLen' = DataLen
      BY <1>1 DEF DataLen
    <2>3. block \in [offset : Nat, data : Seq(Bytes)] /\ block.offset + DataLen <= BlockSize
      BY DEF RecvInv, StreamInv
    <2> QED
      BY <1>9, <2>1, <2>2, <2>3 DEF StreamInv
  <1>14. DispatchInv'
    <2>1. \A n \in 0..Len(sent) : DoneOf(n)' = DoneOf(n)
      BY <1>1, <1>4, DoneStays DEF RecvInv
    <2>2. AtBoundary => AtBoundary'
      <3> SUFFICES ASSUME AtBoundary PROVE AtBoundary'
        OBVIOUS
      <3>1. PICK n \in Nat : FirstOf(Ahead, sent) = <<n + 1, 1>> /\ handled = DoneOf(n)
        BY DEF AtBoundary
      <3>2. FirstOf(Ahead, sent)[1] - 1 \in 0..Len(sent) /\ FirstOf(Ahead, sent)[1] = n + 1
        BY <3>1, FirstIs DEF RecvInv
      <3>3. n \in 0..Len(sent)
        BY <3>2
      <3>4. FirstOf(Ahead', sent') = <<n + 1, 1>> /\ handled' = DoneOf(n)'
        BY <1>1, <1>9, <2>1, <3>1, <3>3
      <3> QED
        BY <3>4 DEF AtBoundary
    <2>3. \A k, c \in Nat : InBodies(k, c) => InBodies(k, c)'
      <3> SUFFICES ASSUME NEW k \in Nat, NEW c \in Nat, InBodies(k, c) PROVE InBodies(k, c)'
        OBVIOUS
      <3>1. PICK p, b : p = pkg.p /\ b = BodySize[sent[p].op]
        OBVIOUS
      <3>2. /\ p \in 1..Len(sent) /\ b > 0 /\ k > 0 /\ c <= k
            /\ sent[p].len = HdrSize + k * b /\ pkg.size = c * b /\ pkg.size <= DataLen
            /\ FirstOf(Ahead, sent) = (IF c = 0 THEN <<p + 1, 1>> ELSE <<p, HdrSize + (k - c) * b + 1>>)
            /\ handled = DoneOf(p - 1) \o FirstBodies(p, b, k - c)
        BY <3>1, Zenon DEF InBodies
      <3>3. p - 1 \in 0..Len(sent) /\ p \in 1..(Len(sent) + 1)
        BY ONLY <1>3, <3>2
      <3>4. DoneOf(p - 1)' = DoneOf(p - 1)
        BY <2>1, <3>3
      <3>5. Len(sent') = Len(sent) + 1 /\ sent'[p] = sent[p]
        BY <1>1, <1>11, <3>2
      <3>6. pkg' = pkg /\ handled' = handled /\ DataLen' = DataLen
        BY <1>1 DEF DataLen
      <3>7. p = pkg'.p /\ b = BodySize[sent'[p].op] /\ p \in 1..Len(sent')
        BY <3>1, <3>3, <3>5, <3>6
      <3>8. /\ sent'[p].len = HdrSize + k * b /\ pkg'.size = c * b /\ pkg'.size <= DataLen'
            /\ FirstOf(Ahead', sent') = (IF c = 0 THEN <<p + 1, 1>> ELSE <<p, HdrSize + (k - c) * b + 1>>)
            /\ handled' = DoneOf(p - 1)' \o FirstBodies(p, b, k - c)
        BY <1>9, <3>2, <3>4, <3>5, <3>6, Zenon
      <3> QED
        BY <3>2, <3>7, <3>8, Zenon DEF InBodies, FirstBodies
    <2>4. (\E k, c \in Nat : InBodies(k, c)) => \E k, c \in Nat : InBodies(k, c)'
      BY <2>3
    <2>5. block.data # <<>> => sent'[block.data[1][1]] = sent[block.data[1][1]]
      <3> SUFFICES ASSUME block.data # <<>> PROVE sent'[block.data[1][1]] = sent[block.data[1][1]]
        OBVIOUS
      <3>1. DataLen \in Nat /\ DataLen # 0 /\ 1 \in 1..DataLen
        BY <1>3, EmptySeq DEF DataLen
      <3>2. block.data[1] = Ahead[1] /\ 1 \in 1..Len(Ahead)
        BY <3>1, AheadIs DEF RecvInv
      <3>3. Ahead[1][1] \in 1..Len(sent)
        BY <1>3, <3>2 DEF Follows
      <3> QED
        BY <1>11, <3>2, <3>3
    <2>6. conn # "shutdown"
      BY <1>3 DEF RecvInv, DispatchInv
    <2>7. DataLen' = DataLen
      BY <1>1 DEF DataLen
    <2> QED
      BY <1>1, <2>2, <2>4, <2>5, <2>6, <2>7 DEF RecvInv, DispatchInv
  <1> QED
    BY <1>10, <1>12, <1>13, <1>14 DEF RecvInv

LEMMA HandleCanRecvStep ==
  ASSUME RecvInv, HandleCanRecv
  PROVE  RecvInv'
  <1>1. PICK n \in 1..Len(wire) :
          /\ n <= TailFreeSize(MoveDataAhead)
          /\ block' = [MoveDataAhead EXCEPT !.data = @ \o SubSeq(wire, 1, n)]
          /\ wire' = SubSeq(wire, n + 1, Len(wire))
    BY DEF HandleCanRecv
  <1>2. phase = "idle" /\ conn = "opened" /\ phase' = "dispatch"
        /\ UNCHANGED <<archive, sent, fin, pkg, handled, conn>>
    BY DEF HandleCanRecv
  <1>3. StreamInv' /\ Ahead' = Ahead
    BY <1>1, <1>2, AheadReceived DEF RecvInv
  <1>4. ArchiveInv' /\ SentInv'
    BY <1>2 DEF RecvInv, ArchiveInv, SentInv
  <1>5. AtBoundary'
    BY <1>2, <1>3, BoundaryStays DEF RecvInv, DispatchInv
  <1>6. DispatchInv'
    BY <1>2, <1>5 DEF RecvInv, DispatchInv
  <1> QED
    BY <1>3, <1>4, <1>6 DEF RecvInv

(* Steps after which the thread is between packages, as it was before,     *)
(* and which consume nothing.                                              *)
LEMMA RestStep ==
  ASSUME RecvInv, phase # "bodies", block' = MoveDataAhead \/ block' = block,
         UNCHANGED <<sendVars, pkg, handled>>
  PROVE  /\ ArchiveInv' /\ SentInv' /\ StreamInv' /\ AtBoundary' /\ pkg' = NoPkg
         /\ Ahead' = Ahead /\ DataLen' = DataLen /\ block'.data = block.data
  <1>1. UNCHANGED <<archive, sent, wire, fin>>
    BY DEF sendVars
  <1>2. StreamInv' /\ Ahead' = Ahead /\ block'.data = block.data /\ DataLen' = DataLen
    BY <1>1, AheadMoved DEF RecvInv
  <1>3. ArchiveInv' /\ SentInv'
    BY <1>1 DEF RecvInv, ArchiveInv, SentInv
  <1>4. AtBoundary'
    BY <1>1, <1>2, BoundaryStays DEF RecvInv, DispatchInv
  <1>5. pkg' = NoPkg
    BY DEF RecvInv, DispatchInv
  <1> QED
    BY <1>2, <1>3, <1>4, <1>5

(* A package of which some is missing is not all there is to come.         *)
LEMMA IdleIs ==
  ASSUME RecvInv, phase = "idle", block.data # <<>>
  PROVE  /\ AtBoundary /\ DataLen > 0 /\ HeadPkg \in 1..Len(sent)
         /\ DataLen < sent[HeadPkg].len
         /\ sent[HeadPkg].len <= Len(Ahead)
  <1>1. AtBoundary /\ (DataLen < HdrSize \/ DataLen < sent[block.data[1][1]].len)
    BY DEF RecvInv, DispatchInv
  <1>2. block.data \in Seq(Bytes) /\ sent \in Seq(Pkgs) /\ Follows(Ahead, sent)
    BY DEF RecvInv, StreamInv, SentInv
  <1>3. DataLen \in Nat /\ DataLen > 0
    BY <1>2, EmptySeq DEF DataLen
  <1>4. /\ Ahead # <<>> /\ Head(block.data) = Ahead[1] /\ block.data[1] = Ahead[1]
        /\ HeadPkg \in 1..Len(sent) /\ Ahead[1] = <<HeadPkg, 1>>
    BY <1>1, <1>3, HeadIs DEF RecvInv
  <1> DEFINE l == sent[HeadPkg].len
  <1>5. l \in Nat /\ l >= HdrSize /\ l > 0 /\ HdrSize \in Nat
    BY <1>2, <1>4, PkgIs, SizesAre
  <1>6. DataLen < l
    <2>1. block.data[1][1] = HeadPkg
      BY <1>4
    <2> QED
      BY <1>1, <1>3, <1>5, <2>1
  <1>7. l <= Len(Ahead)
    <2>1. 1 \in 1..Len(Ahead) /\ Len(Ahead) \in Nat
      BY <1>4, FirstIs, AheadIs, LenProperties DEF RecvInv
    <2>2. Ahead[1][1] = HeadPkg /\ Ahead[1][2] = 1
      BY <1>4
    <2>3. \A j \in Nat : 1 + j <= l => 1 + j <= Len(Ahead)
      BY <1>2, <2>1, <2>2 DEF Follows
    <2>4. l - 1 \in Nat /\ 1 + (l - 1) = l
      BY <1>5
    <2> HIDE DEF l
    <2> QED
      BY <1>5, <2>3, <2>4
  <1> QED
    BY <1>1, <1>3, <1>4, <1>6, <1>7

(* recvmsg returns 0 only after the last byte.                             *)
LEMMA ZeroIsTheEnd ==
  ASSUME RecvInv, phase = "idle", ReturnsZero
  PROVE  fin /\ Ahead = <<>>
  <1>1. /\ DataLen \in Nat /\ Len(wire) \in Nat /\ Len(Ahead) = DataLen + Len(wire)
        /\ block.data \in Seq(Bytes) /\ wire \in Seq(Bytes) /\ sent \in Seq(Pkgs)
    BY AheadIs DEF RecvInv, StreamInv, SentInv
  <1>2. CASE wire = <<>>
    <2>1. fin /\ Len(wire) = 0
      BY <1>2 DEF ReturnsZero
    <2>2. block.data = <<>>
      <3> SUFFICES ASSUME block.data # <<>> PROVE FALSE
        OBVIOUS
      <3>1. DataLen < sent[HeadPkg].len /\ sent[HeadPkg].len <= Len(Ahead) /\ HeadPkg \in 1..Len(sent)
        BY IdleIs
      <3>2. sent[HeadPkg].len \in Nat
        BY <1>1, <3>1, PkgIs
      <3> QED
        BY <1>1, <2>1, <3>1, <3>2
    <2> QED
      BY <1>2, <2>1, <2>2 DEF Ahead
  <1>3. CASE wire # <<>>
    <2>1. TailFreeSize(MoveDataAhead) = 0
      BY <1>3 DEF ReturnsZero
    <2>2. block \in [offset : Nat, data : Seq(Bytes)]
      BY DEF RecvInv, StreamInv
    <2>3. TailFreeSize(MoveDataAhead) = BlockSize - (DataLen + 0)
      BY <2>2 DEF TailFreeSize, MoveDataAhead, DataLen
    <2>4. DataLen = BlockSize
      BY <1>1, <2>1, <2>3, SizesAre
    <2>5. block.data # <<>>
      BY <2>4, SizesAre, LenEmpty DEF DataLen
    <2>6. DataLen < sent[HeadPkg].len /\ HeadPkg \in 1..Len(sent)
      BY <2>5, IdleIs
    <2>7. sent[HeadPkg].len \in Nat /\ sent[HeadPkg].len <= BlockSize
      BY <1>1, <2>6, PkgIs
    <2> QED
      BY <1>1, <2>4, <2>6, <2>7
  <1> QED
    BY <1>2, <1>3

LEMMA OrderlyShutdownStep ==
  ASSUME RecvInv, OrderlyShutdown
  PROVE  RecvInv'
  <1>1. phase = "idle" /\ ReturnsZero /\ conn' = "shutdown" /\ block' = MoveDataAhead
        /\ UNCHANGED <<sendVars, phase, pkg, handled>>
    BY DEF OrderlyShutdown
  <1>2. /\ ArchiveInv' /\ SentInv' /\ StreamInv' /\ AtBoundary' /\ pkg' = NoPkg
        /\ Ahead' = Ahead /\ block'.data = block.data
    BY <1>1, RestStep
  <1>3. fin /\ Ahead = <<>>
    BY <1>1, ZeroIsTheEnd
  <1>4. block.data = <<>> /\ fin' = fin
    BY <1>1, <1>3, AheadIs, ConcatEqualIffEmpty DEF Ahead, RecvInv, StreamInv, sendVars
  <1>5. DispatchInv'
    BY <1>1, <1>2, <1>3, <1>4 DEF RecvInv, DispatchInv
  <1> QED
    BY <1>2, <1>5 DEF RecvInv

LEMMA InternalErrStep ==
  ASSUME RecvInv, InternalErr \/ ReceivesNothing
  PROVE  RecvInv'
  <1>1. conn' \in {"error", "pending"} /\ UNCHANGED <<sendVars, block, phase, pkg, handled>>
    BY DEF InternalErr, ReceivesNothing
  <1>2. UNCHANGED <<archive, sent, wire, fin>>
    BY <1>1 DEF sendVars
  <1>3. ArchiveInv' /\ SentInv'
    BY <1>2 DEF RecvInv, ArchiveInv, SentInv
  <1>4. StreamInv' /\ Ahead' = Ahead /\ DataLen' = DataLen
    BY <1>1, <1>2, AheadMoved DEF RecvInv
  <1>5. AtBoundary => AtBoundary'
    BY <1>1, <1>2, <1>4, BoundaryStays
  <1>6. \A k, c \in Nat : InBodies(k, c) => InBodies(k, c)'
    BY <1>1, <1>2, <1>4 DEF InBodies, FirstBodies, DoneOf, BodiesOf
  <1>7. (\E k, c \in Nat : InBodies(k, c)) => \E k, c \in Nat : InBodies(k, c)'
    BY <1>6
  <1>8. DispatchInv'
    BY <1>1, <1>2, <1>4, <1>5, <1>7 DEF RecvInv, DispatchInv
  <1> QED
    BY <1>3, <1>4, <1>8 DEF RecvInv

LEMMA ReadHeaderStep ==
  ASSUME RecvInv, ReadHeader
  PROVE  RecvInv'
  <1>1. phase = "dispatch" /\ DataLen >= HdrSize /\ phase' = "header"
        /\ conn' = (IF Head(block.data)[2] = 1 THEN conn ELSE "aborted")
        /\ UNCHANGED <<sendVars, block, pkg, handled>>
    BY DEF ReadHeader
  <1>2. /\ ArchiveInv' /\ SentInv' /\ StreamInv' /\ AtBoundary' /\ pkg' = NoPkg
        /\ Ahead' = Ahead /\ DataLen' = DataLen
    BY <1>1, RestStep
  <1>3. AtBoundary /\ DataLen > 0
    <2>1. DataLen \in Nat
      BY AheadIs DEF RecvInv
    <2> QED
      BY <1>1, <2>1, SizesAre DEF RecvInv, DispatchInv
  <1>4. Head(block.data)[2] = 1
    BY <1>3, HeadIs DEF RecvInv
  <1>5. conn' = conn /\ conn # "shutdown"
    BY <1>1, <1>4 DEF RecvInv, DispatchInv
  <1>6. DispatchInv'
    BY <1>1, <1>2, <1>5 DEF RecvInv, DispatchInv
  <1> QED
    BY <1>2, <1>6 DEF RecvInv

LEMMA DispatchReturnsStep ==
  ASSUME RecvInv, DispatchReturns
  PROVE  RecvInv'
  <1>1. phase = "dispatch" /\ DataLen < HdrSize /\ phase' = "idle"
        /\ UNCHANGED <<sendVars, block, pkg, handled, conn>>
    BY DEF DispatchReturns
  <1>2. /\ ArchiveInv' /\ SentInv' /\ StreamInv' /\ AtBoundary' /\ pkg' = NoPkg
        /\ Ahead' = Ahead /\ DataLen' = DataLen
    BY <1>1, RestStep
  <1>3. DispatchInv'
    BY <1>1, <1>2 DEF RecvInv, DispatchInv
  <1> QED
    BY <1>2, <1>3 DEF RecvInv

LEMMA IncompleteStep ==
  ASSUME RecvInv, Incomplete
  PROVE  RecvInv'
  <1>1. phase = "header" /\ HdrLen > HdrSize /\ HdrLen > DataLen /\ phase' = "idle" /\ block' = MoveDataAhead
        /\ UNCHANGED <<sendVars, pkg, handled, conn>>
    BY DEF Incomplete, GoodHeader
  <1>2. /\ ArchiveInv' /\ SentInv' /\ StreamInv' /\ AtBoundary' /\ pkg' = NoPkg
        /\ Ahead' = Ahead /\ DataLen' = DataLen /\ block'.data = block.data
    BY <1>1, RestStep
  <1>3. AtBoundary /\ DataLen > 0 /\ conn # "shutdown" /\ DataLen \in Nat
    <2>1. DataLen \in Nat
      BY AheadIs DEF RecvInv
    <2> QED
      BY <1>1, <2>1, SizesAre DEF RecvInv, DispatchInv
  <1>4. block.data[1][1] = HeadPkg /\ HeadPkg \in 1..Len(sent)
    BY <1>3, HeadIs DEF RecvInv
  <1>5. DataLen < sent[block.data[1][1]].len
    <2>1. sent[HeadPkg].len \in Nat
      BY <1>4, PkgIs DEF RecvInv, SentInv
    <2> QED
      BY <1>1, <1>3, <1>4, <2>1 DEF HdrLen
  <1>6. sent' = sent
    BY <1>1 DEF sendVars
  <1>7. DispatchInv'
    BY <1>1, <1>2, <1>3, <1>5, <1>6 DEF RecvInv, DispatchInv
  <1> QED
    BY <1>2, <1>7 DEF RecvInv

(* Steps that consume n bytes of the block.                                *)
LEMMA ConsumeStep ==
  ASSUME RecvInv, NEW n \in Nat, n <= DataLen, block' = DecHeadData(n), UNCHANGED <<sendVars, conn>>,
         phase \in {"header", "bodies"}
  PROVE  /\ ArchiveInv' /\ SentInv' /\ StreamInv'
         /\ Ahead' = SubSeq(Ahead, n + 1, Len(Ahead)) /\ DataLen' = DataLen - n
         /\ \A i : DoneOf(i)' = DoneOf(i)
         /\ sent' = sent /\ conn' \in {"opened", "error", "pending"}
  <1>1. UNCHANGED <<archive, sent, wire, fin>>
    BY DEF sendVars
  <1>2. StreamInv' /\ Ahead' = SubSeq(Ahead, n + 1, Len(Ahead)) /\ DataLen' = DataLen - n
    BY <1>1, AheadConsumed DEF RecvInv
  <1>3. ArchiveInv' /\ SentInv'
    BY <1>1 DEF RecvInv, ArchiveInv, SentInv
  <1>4. \A i : DoneOf(i)' = DoneOf(i)
    BY <1>1 DEF DoneOf, BodiesOf
  <1>5. conn' \in {"opened", "error", "pending"}
    BY DEF RecvInv, DispatchInv
  <1> QED
    BY <1>1, <1>2, <1>3, <1>4, <1>5

(* At the header of a package.                                             *)
LEMMA HeaderIs ==
  ASSUME RecvInv, GoodHeader
  PROVE  /\ DataLen \in Nat /\ DataLen >= HdrSize /\ HeadPkg \in 1..Len(sent)
         /\ Ahead \in Seq(Bytes) /\ Ahead # <<>> /\ Ahead[1] = <<HeadPkg, 1>>
         /\ sent \in Seq(Pkgs) /\ Len(sent) \in Nat /\ Follows(Ahead, sent)
         /\ handled = DoneOf(HeadPkg - 1) /\ DoneOf(HeadPkg - 1) \in Seq(Bytes) /\ pkg = NoPkg
         /\ HdrLen \in Nat /\ HdrLen <= BlockSize
  <1>1. phase = "header" /\ DataLen >= HdrSize /\ AtBoundary /\ pkg = NoPkg
    BY DEF GoodHeader, RecvInv, DispatchInv
  <1>2. DataLen \in Nat /\ DataLen > 0 /\ Ahead \in Seq(Bytes)
    BY <1>1, AheadIs, SizesAre DEF RecvInv
  <1>3. /\ Ahead # <<>> /\ HeadPkg \in 1..Len(sent) /\ Ahead[1] = <<HeadPkg, 1>>
        /\ handled = DoneOf(HeadPkg - 1)
    BY <1>1, <1>2, HeadIs DEF RecvInv
  <1>4. sent \in Seq(Pkgs) /\ Len(sent) \in Nat /\ Follows(Ahead, sent)
    BY LenProperties DEF RecvInv, SentInv, StreamInv
  <1>5. HdrLen \in Nat /\ HdrLen <= BlockSize
    BY <1>3, <1>4, PkgIs DEF HdrLen
  <1>6. HeadPkg - 1 \in 0..Len(sent)
    BY <1>3, <1>4
  <1>7. DoneOf(HeadPkg - 1) \in Seq(Bytes)
    BY <1>6, DoneType DEF RecvInv
  <1> QED
    BY <1>1, <1>2, <1>3, <1>4, <1>5, <1>7

LEMMA SkipHeaderStep ==
  ASSUME RecvInv, SkipHeader
  PROVE  RecvInv'
  <1>0. PICK p : p = HeadPkg
    OBVIOUS
  <1>1. GoodHeader /\ HdrLen = HdrSize /\ block' = DecHeadData(HdrSize) /\ phase' = "dispatch"
        /\ phase = "header" /\ UNCHANGED <<sendVars, pkg, handled, conn>>
    BY DEF SkipHeader, GoodHeader
  <1>2. /\ DataLen >= HdrSize /\ p \in 1..Len(sent)
        /\ Ahead \in Seq(Bytes) /\ Ahead # <<>> /\ Ahead[1] = <<p, 1>>
        /\ sent \in Seq(Pkgs) /\ Len(sent) \in Nat /\ Follows(Ahead, sent)
        /\ handled = DoneOf(p - 1) /\ DoneOf(p - 1) \in Seq(Bytes) /\ pkg = NoPkg
    BY <1>0, <1>1, HeaderIs
  <1>3. sent[p].len = HdrSize
    BY <1>0, <1>1 DEF HdrLen
  <1>4. /\ ArchiveInv' /\ SentInv' /\ StreamInv' /\ sent' = sent /\ conn' \in {"opened", "error", "pending"}
        /\ Ahead' = SubSeq(Ahead, HdrSize + 1, Len(Ahead)) /\ \A i : DoneOf(i)' = DoneOf(i)
    BY <1>1, <1>2, SizesAre, ConsumeStep
  <1>5. FirstOf(Ahead', sent') = <<p + 1, 1>>
    <2>1. Ahead[1][1] = p /\ Ahead[1][2] = 1
      BY <1>2
    <2>2. HdrSize \in Nat \ {0} /\ Ahead[1][2] + HdrSize = sent[Ahead[1][1]].len + 1
      BY <1>3, <2>1, SizesAre
    <2>3. FirstOf(SubSeq(Ahead, HdrSize + 1, Len(Ahead)), sent) = <<Ahead[1][1] + 1, 1>>
      BY <1>2, <2>2, ConsumeAll
    <2> QED
      BY <1>4, <2>1, <2>3
  <1>6. DoneOf(p) = DoneOf(p - 1)
    <2>1. BodiesOf(p) = <<>>
      BY <1>3 DEF BodiesOf
    <2>2. DoneOf(p) = DoneOf(p - 1) \o <<>>
      BY <1>2, <2>1, DoneNext DEF RecvInv
    <2> QED
      BY <1>2, <2>2, ConcatEmptySeq
  <1>7. AtBoundary'
    <2>1. handled' = DoneOf(p)' /\ p \in Nat
      BY <1>1, <1>2, <1>4, <1>6
    <2> QED
      BY <1>5, <2>1 DEF AtBoundary
  <1>8. DispatchInv'
    <2>1. handled' \in Seq(Bytes) /\ pkg' = NoPkg /\ NoPkg \in [p : Nat, size : Nat] /\ phase' = "dispatch"
      BY <1>1, <1>2 DEF NoPkg
    <2> QED
      BY <1>4, <1>7, <2>1 DEF DispatchInv
  <1> QED
    BY <1>4, <1>8 DEF RecvInv

LEMMA AppendToConcat ==
  ASSUME NEW s \in Seq(Bytes), NEW t \in Seq(Bytes), NEW x \in Bytes
  PROVE  Append(s \o t, x) = s \o Append(t, x)
  <1>1. <<x>> \in Seq(Bytes) /\ s \o t \in Seq(Bytes)
    BY ConcatProperties
  <1>2. Append(s \o t, x) = (s \o t) \o <<x>> /\ Append(t, x) = t \o <<x>>
    BY <1>1, AppendIsConcat
  <1>3. (s \o t) \o <<x>> = s \o (t \o <<x>>)
    BY <1>1, Associates
  <1> QED
    BY <1>2, <1>3

LEMMA NextBody ==
  ASSUME NEW p \in Nat, NEW b \in Nat, NEW m \in Nat
  PROVE  /\ <<p, HdrSize + (m + 1) * b>> \in Bytes
         /\ FirstBodies(p, b, m + 1) = Append(FirstBodies(p, b, m), <<p, HdrSize + (m + 1) * b>>)
  <1> DEFINE x == <<p, HdrSize + (m + 1) * b>>
             s == FirstBodies(p, b, m)
             t == FirstBodies(p, b, m + 1)
  <1>1. x \in Bytes
    BY SizesAre DEF Bytes
  <1>2. s \in Seq(Bytes) /\ Len(s) = m /\ t \in Seq(Bytes) /\ Len(t) = m + 1 /\ m + 1 \in Nat
    BY FirstBodiesType
  <1>3. \A i \in 1..m : s[i] = t[i]
    BY DEF FirstBodies
  <1>4. t[m + 1] = x
    BY DEF FirstBodies
  <1> HIDE DEF s, t, x
  <1>5. Append(s, x) \in Seq(Bytes) /\ Len(Append(s, x)) = m + 1 /\ (\A i \in 1..m : Append(s, x)[i] = s[i])
        /\ Append(s, x)[m + 1] = x
    BY <1>1, <1>2, AppendProperties
  <1>6. \A i \in 1..(m + 1) : t[i] = Append(s, x)[i]
    BY <1>3, <1>4, <1>5
  <1>7. t = Append(s, x)
    BY <1>2, <1>5, <1>6, SeqEqual
  <1> QED
    BY <1>1, <1>7 DEF s, t, x

LEMMA NoBodies == \A p, b : FirstBodies(p, b, 0) = <<>>
  BY DEF FirstBodies

LEMMA EnterDispatchFunStep ==
  ASSUME RecvInv, EnterDispatchFun
  PROVE  RecvInv'
  <1>0. PICK p : p = HeadPkg
    OBVIOUS
  <1>1. GoodHeader /\ HdrLen > HdrSize /\ HdrLen <= DataLen /\ block' = DecHeadData(HdrSize) /\ phase' = "bodies"
        /\ pkg' = [p |-> p, size |-> HdrLen - HdrSize]
        /\ phase = "header" /\ UNCHANGED <<sendVars, handled, conn>>
    BY <1>0 DEF EnterDispatchFun, GoodHeader
  <1>2. /\ DataLen >= HdrSize /\ DataLen \in Nat /\ p \in 1..Len(sent)
        /\ Ahead \in Seq(Bytes) /\ Ahead # <<>> /\ Ahead[1] = <<p, 1>>
        /\ sent \in Seq(Pkgs) /\ Len(sent) \in Nat /\ Follows(Ahead, sent)
        /\ handled = DoneOf(p - 1) /\ DoneOf(p - 1) \in Seq(Bytes)
        /\ HdrLen \in Nat
    BY <1>0, <1>1, HeaderIs
  <1>3. sent[p].len = HdrLen
    BY <1>0 DEF HdrLen
  <1>4. /\ ArchiveInv' /\ SentInv' /\ StreamInv' /\ sent' = sent /\ conn' \in {"opened", "error", "pending"}
        /\ Ahead' = SubSeq(Ahead, HdrSize + 1, Len(Ahead)) /\ DataLen' = DataLen - HdrSize
        /\ \A i : DoneOf(i)' = DoneOf(i)
    BY <1>1, <1>2, SizesAre, ConsumeStep
  <1>5. PICK b : b = BodySize[sent[p].op]
    OBVIOUS
  <1>6. PICK k \in Nat : sent[p].len = HdrSize + k * b
    BY <1>2, <1>5 DEF RecvInv, SentInv, Whole
  <1>7. b \in Nat \ {0} /\ k > 0
    <2>1. HdrSize \in Nat /\ sent[p].len # HdrSize
      BY <1>1, <1>2, <1>3, SizesAre
    <2> QED
      BY <1>2, <1>5, <1>6, <2>1, BodiesAre DEF RecvInv
  <1>8. FirstOf(Ahead', sent') = <<p, HdrSize + 1>>
    <2>1. Ahead[1][1] = p /\ Ahead[1][2] = 1
      BY <1>2
    <2>2. HdrSize \in Nat /\ Ahead[1][2] + HdrSize <= sent[Ahead[1][1]].len /\ 1 + HdrSize = HdrSize + 1
      BY <1>1, <1>2, <1>3, <2>1, SizesAre
    <2>3. FirstOf(SubSeq(Ahead, HdrSize + 1, Len(Ahead)), sent) = <<Ahead[1][1], Ahead[1][2] + HdrSize>>
      BY <1>2, <2>2, ConsumePart
    <2> QED
      BY <1>4, <2>1, <2>2, <2>3
  <1>9. pkg'.p = p /\ pkg'.size = k * b /\ k * b \in Nat /\ k * b <= DataLen' /\ p \in Nat
    <2>1. pkg'.p = p /\ pkg'.size = HdrLen - HdrSize
      BY <1>1
    <2>2. k * b \in Nat /\ HdrSize \in Nat
      BY <1>7, SizesAre
    <2>3. HdrLen - HdrSize = k * b
      BY <1>2, <1>3, <1>6, <2>2
    <2>4. k * b <= DataLen'
      BY <1>1, <1>2, <1>4, <2>2, <2>3
    <2> QED
      BY <1>2, <2>1, <2>2, <2>3, <2>4
  <1>10. InBodies(k, k)'
    <2>1. k - k = 0 /\ 0 * b = 0 /\ HdrSize + 0 + 1 = HdrSize + 1 /\ k # 0 /\ k <= k
      BY <1>7, SizesAre
    <2>2. handled' = DoneOf(p - 1)' \o FirstBodies(p, b, k - k)
      <3>1. FirstBodies(p, b, k - k) = <<>>
        BY <2>1, NoBodies
      <3>2. DoneOf(p - 1)' = DoneOf(p - 1) /\ handled' = DoneOf(p - 1)
        BY <1>1, <1>2, <1>4
      <3>3. DoneOf(p - 1) \o <<>> = DoneOf(p - 1)
        BY <1>2, ConcatEmptySeq
      <3> QED
        BY <3>1, <3>2, <3>3
    <2>3. FirstOf(Ahead', sent') = <<p, HdrSize + (k - k) * b + 1>>
      BY <1>8, <2>1
    <2>4. b > 0 /\ b = BodySize[sent'[p].op] /\ sent'[p].len = HdrSize + k * b
      BY <1>4, <1>5, <1>6, <1>7
    <2>5. p \in 1..Len(sent')
      BY <1>2, <1>4
    <2> QED
      BY <1>7, <1>9, <2>1, <2>2, <2>3, <2>4, <2>5 DEF InBodies, DoneOf, BodiesOf
  <1>11. DispatchInv'
    <2>1. handled' \in Seq(Bytes) /\ pkg' \in [p : Nat, size : Nat]
      <3>1. HdrLen - HdrSize \in Nat
        BY <1>1, <1>2, SizesAre
      <3> QED
        BY <1>1, <1>2, <1>9, <3>1
    <2> QED
      BY <1>1, <1>4, <1>10, <2>1 DEF DispatchInv
  <1> QED
    BY <1>4, <1>11 DEF RecvInv

(* In dispatch_fun, at the c-th last body of package p.                    *)
BodiesAt(k, c, p, b) ==
  /\ p \in 1..Len(sent) /\ p \in Nat /\ b \in Nat \ {0} /\ k > 0 /\ c <= k
  /\ sent[p].len = HdrSize + k * b /\ pkg.size = c * b /\ pkg.size <= DataLen
  /\ Ahead \in Seq(Bytes) /\ sent \in Seq(Pkgs) /\ Follows(Ahead, sent)
  /\ FirstOf(Ahead, sent) = (IF c = 0 THEN <<p + 1, 1>> ELSE <<p, HdrSize + (k - c) * b + 1>>)
  /\ handled = DoneOf(p - 1) \o FirstBodies(p, b, k - c)
  /\ DoneOf(p - 1) \in Seq(Bytes) /\ DataLen \in Nat

LEMMA BodiesIs ==
  ASSUME RecvInv, NEW k \in Nat, NEW c \in Nat, InBodies(k, c)
  PROVE  BodiesAt(k, c, pkg.p, BodySize[sent[pkg.p].op])
  <1> DEFINE p == pkg.p
             b == BodySize[sent[p].op]
  <1>1. /\ p \in 1..Len(sent) /\ b > 0 /\ k > 0 /\ c <= k
        /\ sent[p].len = HdrSize + k * b /\ pkg.size = c * b /\ pkg.size <= DataLen
        /\ FirstOf(Ahead, sent) = (IF c = 0 THEN <<p + 1, 1>> ELSE <<p, HdrSize + (k - c) * b + 1>>)
        /\ handled = DoneOf(p - 1) \o FirstBodies(p, b, k - c)
    BY DEF InBodies
  <1> HIDE DEF b
  <1>2. sent \in Seq(Pkgs) /\ Len(sent) \in Nat /\ Follows(Ahead, sent)
    BY LenProperties DEF RecvInv, SentInv, StreamInv
  <1>3. Ahead \in Seq(Bytes) /\ DataLen \in Nat
    BY AheadIs DEF RecvInv
  <1>4. b \in Nat
    BY <1>1, <1>2, PkgIs DEF b
  <1> HIDE DEF p
  <1>5. p - 1 \in 0..Len(sent) /\ p \in Nat
    BY <1>1, <1>2
  <1>6. DoneOf(p - 1) \in Seq(Bytes)
    BY <1>5, DoneType DEF RecvInv
  <1>7. b \in Nat \ {0}
    BY <1>1, <1>4
  <1>8. BodiesAt(k, c, p, b)
    BY ONLY <1>1, <1>2, <1>3, <1>5, <1>6, <1>7, Zenon DEF BodiesAt
  <1> QED
    BY <1>8 DEF p, b

LEMMA LeaveDispatchFunStep ==
  ASSUME RecvInv, LeaveDispatchFun
  PROVE  RecvInv'
  <1>1. phase = "bodies" /\ pkg.size = 0 /\ pkg' = NoPkg /\ phase' = "dispatch"
        /\ UNCHANGED <<sendVars, block, handled, conn>>
    BY DEF LeaveDispatchFun
  <1>2. PICK k \in Nat, c \in Nat : InBodies(k, c)
    BY <1>1 DEF RecvInv, DispatchInv
  <1>3. PICK p, b : p = pkg.p /\ b = BodySize[sent[p].op]
    OBVIOUS
  <1>4. /\ p \in 1..Len(sent) /\ p \in Nat /\ b \in Nat \ {0} /\ k > 0 /\ c <= k
        /\ sent[p].len = HdrSize + k * b /\ pkg.size = c * b
        /\ FirstOf(Ahead, sent) = (IF c = 0 THEN <<p + 1, 1>> ELSE <<p, HdrSize + (k - c) * b + 1>>)
        /\ handled = DoneOf(p - 1) \o FirstBodies(p, b, k - c)
    <2>1. BodiesAt(k, c, p, b)
      BY <1>2, <1>3, BodiesIs
    <2> QED
      BY <2>1 DEF BodiesAt
  <1>5. c = 0 /\ k - c = k
    <2>1. c * b = 0 /\ b > 0 /\ b \in Nat
      <3>1. b \in Nat /\ b # 0
        BY <1>4
      <3>2. c * b = 0
        BY <1>1, <1>4
      <3> QED
        BY <3>1, <3>2
    <2>2. c = 0
      <3> SUFFICES ASSUME c # 0 PROVE FALSE
        OBVIOUS
      <3>1. b * c >= b /\ b * c = c * b
        BY <1>4, <2>1, TimesAtLeast
      <3> QED
        BY <2>1, <3>1
    <2> QED
      BY <2>2
  <1>6. handled = DoneOf(p)
    <2>1. sent[p].len # HdrSize
      <3>1. k * b > 0
        <4>1. b * k >= b /\ b * k = k * b
          BY <1>4, TimesAtLeast
        <4> QED
          BY <1>4, <4>1
      <3> QED
        BY <1>4, <3>1, SizesAre
    <2>2. BodiesOf(p) = FirstBodies(p, b, k)
      BY <1>3, <1>4, <2>1, BodiesAre DEF RecvInv
    <2>3. DoneOf(p) = DoneOf(p - 1) \o BodiesOf(p)
      BY <1>4, DoneNext DEF RecvInv
    <2> QED
      BY <1>4, <1>5, <2>2, <2>3
  <1>7. UNCHANGED <<archive, sent, wire, fin>>
    BY <1>1 DEF sendVars
  <1>8. ArchiveInv' /\ SentInv'
    BY <1>7 DEF RecvInv, ArchiveInv, SentInv
  <1>9. StreamInv' /\ Ahead' = Ahead
    BY <1>1, <1>7, AheadMoved DEF RecvInv
  <1>10. AtBoundary
    BY <1>4, <1>5, <1>6 DEF AtBoundary
  <1>11. AtBoundary'
    BY <1>1, <1>7, <1>9, <1>10, BoundaryStays
  <1>12. DispatchInv'
    <2>1. NoPkg \in [p : Nat, size : Nat]
      BY DEF NoPkg
    <2> QED
      BY <1>1, <1>11, <2>1 DEF RecvInv, DispatchInv
  <1> QED
    BY <1>8, <1>9, <1>12 DEF RecvInv

LEMMA HandlePkgStep ==
  ASSUME RecvInv, HandlePkg
  PROVE  RecvInv'
  <1>1. PICK p, b : p = pkg.p /\ b = BodySize[sent[p].op]
    OBVIOUS
  <1>2. /\ phase = "bodies" /\ pkg.size > 0 /\ handled' = Append(handled, block.data[b])
        /\ block' = DecHeadData(b) /\ pkg' = [pkg EXCEPT !.size = @ - b]
        /\ UNCHANGED <<sendVars, phase, conn>>
    BY <1>1 DEF HandlePkg
  <1>3. PICK k \in Nat, c \in Nat : InBodies(k, c)
    BY <1>2 DEF RecvInv, DispatchInv
  <1>4. /\ p \in 1..Len(sent) /\ p \in Nat /\ b \in Nat \ {0} /\ k > 0 /\ c <= k
        /\ sent[p].len = HdrSize + k * b /\ pkg.size = c * b /\ pkg.size <= DataLen
        /\ Ahead \in Seq(Bytes) /\ sent \in Seq(Pkgs) /\ Follows(Ahead, sent)
        /\ FirstOf(Ahead, sent) = (IF c = 0 THEN <<p + 1, 1>> ELSE <<p, HdrSize + (k - c) * b + 1>>)
        /\ handled = DoneOf(p - 1) \o FirstBodies(p, b, k - c)
        /\ DoneOf(p - 1) \in Seq(Bytes) /\ DataLen \in Nat
    <2>1. BodiesAt(k, c, p, b)
      BY <1>1, <1>3, BodiesIs
    <2> QED
      BY <2>1 DEF BodiesAt
  <1>5. PICK d, m, y, z : d = c - 1 /\ m = k - c /\ y = m * b /\ z = d * b
    OBVIOUS
  <1>6. /\ d \in Nat /\ m \in Nat /\ y \in Nat /\ z \in Nat /\ c # 0
        /\ k = m + d + 1 /\ c * b = z + b /\ (m + 1) * b = y + b /\ k * b = y + z + b
        /\ k - d = m + 1 /\ d <= k
    <2>1. c # 0
      <3> SUFFICES ASSUME c = 0 PROVE FALSE
        OBVIOUS
      <3>1. c * b = 0
        BY <1>4
      <3> QED
        BY <1>2, <1>4, <3>1
    <2>2. d \in Nat /\ m \in Nat /\ c = d + 1 /\ k = m + d + 1
      BY <1>4, <1>5, <2>1
    <2>3. y \in Nat /\ z \in Nat
      BY <1>4, <1>5, <2>2
    <2>4. (d + 1) * b = d * b + b /\ (m + 1) * b = m * b + b /\ (m + d + 1) * b = m * b + d * b + b
      BY <1>4, <2>2
    <2> QED
      BY <1>5, <2>1, <2>2, <2>3, <2>4
  <1>7. FirstOf(Ahead, sent) = <<p, HdrSize + y + 1>> /\ sent[p].len = HdrSize + y + z + b
        /\ HdrSize \in Nat /\ b <= DataLen /\ pkg.size = z + b /\ z <= DataLen - b
    <2>1. HdrSize \in Nat
      BY SizesAre
    <2>2. FirstOf(Ahead, sent) = <<p, HdrSize + y + 1>>
      BY <1>4, <1>5, <1>6
    <2>3. sent[p].len = HdrSize + y + z + b
      <3>1. sent[p].len = HdrSize + (y + z + b)
        BY <1>4, <1>6
      <3>2. PICK l : l = sent[p].len
        OBVIOUS
      <3>3. l = HdrSize + (y + z + b) /\ b \in Nat /\ y \in Nat /\ z \in Nat
        BY <1>4, <1>6, <3>1, <3>2
      <3>4. l = HdrSize + y + z + b
        BY ONLY <2>1, <3>3
      <3> QED
        BY <3>2, <3>4
    <2>4. pkg.size = z + b /\ z + b <= DataLen
      BY <1>4, <1>6
    <2> QED
      BY <1>4, <1>6, <2>1, <2>2, <2>3, <2>4
  <1>8. Ahead # <<>> /\ Ahead[1] = <<p, HdrSize + y + 1>> /\ Ahead[1][1] = p /\ Ahead[1][2] = HdrSize + y + 1
    <2>1. Ahead # <<>>
      <3>1. Len(Ahead) >= DataLen /\ Len(Ahead) \in Nat /\ DataLen > 0
        <4>1. Len(wire) \in Nat /\ Len(Ahead) = DataLen + Len(wire)
          BY AheadIs DEF RecvInv
        <4>2. DataLen \in Nat /\ b \in Nat /\ b # 0 /\ b <= DataLen
          BY <1>4, <1>7
        <4> QED
          BY <4>1, <4>2
      <3>2. Len(Ahead) > 0
        BY <1>4, <3>1
      <3> QED
        BY <3>2, LenEmpty
    <2> QED
      BY <1>7, <2>1, FirstIs DEF RecvInv
  <1>9. block.data[b] = <<p, HdrSize + (m + 1) * b>>
    <2>1. b - 1 \in Nat /\ HdrSize + y + 1 + (b - 1) <= HdrSize + y + z + b /\ b - 1 + 1 = b
          /\ HdrSize + y + 1 + (b - 1) = HdrSize + (y + b)
      BY <1>4, <1>6, <1>7
    <2>2. Ahead[1][2] + (b - 1) <= sent[Ahead[1][1]].len
      BY <1>7, <1>8, <2>1
    <2>3. Ahead[b - 1 + 1] = <<Ahead[1][1], Ahead[1][2] + (b - 1)>>
      BY <1>4, <1>8, <2>1, <2>2, ConsumePart
    <2>4. Ahead[b] = <<p, HdrSize + (y + b)>>
      BY <1>8, <2>1, <2>3
    <2>5. b \in 1..DataLen
      BY <1>4, <1>7
    <2>6. Ahead[b] = block.data[b]
      BY <2>5, AheadIs DEF RecvInv
    <2> QED
      BY <1>6, <2>4, <2>6
  <1>10. /\ ArchiveInv' /\ SentInv' /\ StreamInv' /\ sent' = sent /\ conn' \in {"opened", "error", "pending"}
         /\ Ahead' = SubSeq(Ahead, b + 1, Len(Ahead)) /\ DataLen' = DataLen - b
         /\ \A i : DoneOf(i)' = DoneOf(i)
    <2>1. b \in Nat
      BY <1>4
    <2> QED
      BY <1>2, <1>7, <2>1, ConsumeStep
  <1>11. FirstOf(Ahead', sent') = IF d = 0 THEN <<p + 1, 1>> ELSE <<p, HdrSize + (k - d) * b + 1>>
    <2>1. CASE d = 0
      <3>1. z = 0
        BY <1>4, <1>5, <2>1
      <3>2. Ahead[1][2] + b = sent[Ahead[1][1]].len + 1
        BY <1>4, <1>6, <1>7, <1>8, <3>1
      <3>3. FirstOf(SubSeq(Ahead, b + 1, Len(Ahead)), sent) = <<Ahead[1][1] + 1, 1>>
        BY <1>4, <1>8, <3>2, ConsumeAll
      <3> QED
        BY <1>8, <1>10, <2>1, <3>3
    <2>2. CASE d # 0
      <3>1. z >= b
        <4>1. b * d >= b /\ b * d = d * b
          BY <1>4, <1>6, <2>2, TimesAtLeast
        <4> QED
          BY <1>5, <4>1
      <3>2. b \in Nat /\ b > 0
        BY <1>4
      <3>3. HdrSize + y + 1 + b <= HdrSize + y + z + b /\ HdrSize + y + 1 + b = HdrSize + (y + b) + 1
        BY <1>6, <1>7, <3>1, <3>2
      <3>4. Ahead[1][2] + b <= sent[Ahead[1][1]].len
        BY <1>7, <1>8, <3>3
      <3>5. FirstOf(SubSeq(Ahead, b + 1, Len(Ahead)), sent) = <<Ahead[1][1], Ahead[1][2] + b>>
        BY <1>4, <1>8, <3>2, <3>4, ConsumePart
      <3>6. FirstOf(Ahead', sent') = <<p, HdrSize + (y + b) + 1>>
        BY <1>8, <1>10, <3>3, <3>5
      <3> QED
        BY <1>6, <2>2, <3>6
    <2> QED
      BY <2>1, <2>2
  <1>12. handled' = DoneOf(p - 1) \o FirstBodies(p, b, k - d)
    <2>1. b \in Nat /\ m + 1 = k - d
      BY <1>4, <1>6
    <2>2. /\ <<p, HdrSize + (m + 1) * b>> \in Bytes
          /\ FirstBodies(p, b, m + 1) = Append(FirstBodies(p, b, m), <<p, HdrSize + (m + 1) * b>>)
          /\ FirstBodies(p, b, m) \in Seq(Bytes)
      <3>1. p \in Nat /\ m \in Nat
        BY <1>4, <1>6
      <3>2. FirstBodies(p, b, m) \in Seq(Bytes)
        BY ONLY <2>1, <3>1, FirstBodiesType
      <3> QED
        BY ONLY <2>1, <3>1, <3>2, NextBody
    <2>3. handled = DoneOf(p - 1) \o FirstBodies(p, b, m)
      BY <1>4, <1>5
    <2>4. handled' = Append(DoneOf(p - 1) \o FirstBodies(p, b, m), <<p, HdrSize + (m + 1) * b>>)
      BY <1>2, <1>9, <2>3
    <2>5. handled' = DoneOf(p - 1) \o FirstBodies(p, b, m + 1)
      <3>1. PICK u, t, x : u = DoneOf(p - 1) /\ t = FirstBodies(p, b, m) /\ x = <<p, HdrSize + (m + 1) * b>>
        OBVIOUS
      <3>2. u \in Seq(Bytes) /\ t \in Seq(Bytes) /\ x \in Bytes
        BY <1>4, <2>2, <3>1
      <3>3. Append(u \o t, x) = u \o Append(t, x)
        BY ONLY <3>2, AppendToConcat
      <3> QED
        BY <2>2, <2>4, <3>1, <3>3, Zenon
    <2> QED
      BY <2>1, <2>5
  <1>13. pkg'.p = p /\ pkg'.size = z /\ pkg' \in [p : Nat, size : Nat]
    <2>1. pkg \in [p : Nat, size : Nat]
      BY DEF RecvInv, DispatchInv
    <2>2. pkg.size - b = z
      BY <1>4, <1>6, <1>7
    <2>3. pkg' = [p |-> pkg.p, size |-> z]
      BY <1>2, <2>1, <2>2
    <2> QED
      BY <1>1, <1>4, <1>6, <2>3
  <1>14. InBodies(k, d)'
    <2>1. b > 0 /\ b = BodySize[sent'[p].op] /\ sent'[p].len = HdrSize + k * b /\ p \in 1..Len(sent')
      <3>1. sent' = sent
        BY <1>10
      <3>2. b = BodySize[sent[p].op] /\ sent[p].len = HdrSize + k * b /\ p \in 1..Len(sent)
        BY <1>1, <1>4
      <3>3. b \in Nat /\ b # 0
        BY <1>4
      <3>4. b > 0
        BY <3>3
      <3> QED
        BY <3>1, <3>2, <3>4
    <2>2. pkg'.size = d * b /\ pkg'.size <= DataLen' /\ d <= k /\ k > 0
      BY <1>4, <1>5, <1>6, <1>7, <1>10, <1>13
    <2>3. handled' = DoneOf(p - 1)' \o FirstBodies(p, b, k - d)
      BY <1>10, <1>12
    <2> QED
      BY <1>11, <1>13, <2>1, <2>2, <2>3 DEF InBodies, DoneOf, BodiesOf
  <1>15. DispatchInv'
    <2>1. handled' \in Seq(Bytes)
      <3>1. handled \in Seq(Bytes) /\ block.data[b] \in Bytes
        <4>1. <<p, HdrSize + (m + 1) * b>> \in Bytes
          BY <1>4, <1>6, NextBody
        <4> QED
          BY <1>9, <4>1 DEF RecvInv, DispatchInv
      <3> QED
        BY <1>2, <3>1, AppendProperties
    <2> QED
      BY <1>2, <1>6, <1>10, <1>13, <1>14, <2>1 DEF DispatchInv
  <1> QED
    BY <1>10, <1>15 DEF RecvInv

LEMMA RecvInvStep == RecvInv /\ [Next]_vars => RecvInv'
  <1> SUFFICES ASSUME RecvInv, [Next]_vars PROVE RecvInv'
    OBVIOUS
  <1>1. CASE \E op \in Opcodes : GetHdr(op)
    BY <1>1, GetHdrStep
  <1>2. CASE GetNextBody
    BY <1>2, GetNextBodyStep
  <1>3. CASE Serialize
    BY <1>3, SerializeStep
  <1>4. CASE PeerCloses
    BY <1>4, PeerClosesStep
  <1>5. CASE HandleCanRecv
    BY <1>5, HandleCanRecvStep
  <1>6. CASE OrderlyShutdown
    BY <1>6, OrderlyShutdownStep
  <1>7. CASE InternalErr \/ ReceivesNothing
    BY <1>7, InternalErrStep
  <1>8. CASE ReadHeader
    BY <1>8, ReadHeaderStep
  <1>9. CASE SkipHeader
    BY <1>9, SkipHeaderStep
  <1>10. CASE Incomplete
    BY <1>10, IncompleteStep
  <1>11. CASE EnterDispatchFun
    BY <1>11, EnterDispatchFunStep
  <1>12. CASE HandlePkg
    BY <1>12, HandlePkgStep
  <1>13. CASE LeaveDispatchFun
    BY <1>13, LeaveDispatchFunStep
  <1>14. CASE DispatchReturns
    BY <1>14, DispatchReturnsStep
  <1>15. CASE UNCHANGED vars
    <2>1. UNCHANGED <<archive, fin>> /\ UNCHANGED <<sent, wire, recvVars>>
      BY <1>15 DEF vars, sendVars
    <2>2. ArchiveInv'
      BY <2>1 DEF RecvInv, ArchiveInv
    <2> QED
      BY <2>1, <2>2, ArchiveStep
  <1> QED
    BY <1>1, <1>2, <1>3, <1>4, <1>5, <1>6, <1>7, <1>8, <1>9, <1>10, <1>11, <1>12, <1>13, <1>14, <1>15
    DEF Next

LEMMA RecvInvariance == Spec => []RecvInv
  BY InitInv, RecvInvStep, PTL DEF Spec

LEMMA RecvTypes == RecvInv => TypeOK
  <1> SUFFICES ASSUME RecvInv PROVE TypeOK
    OBVIOUS
  <1>1. archive \in [op : Opcodes, len : 0..BlockSize, pending : BOOLEAN] /\ fin \in BOOLEAN
    BY DEF RecvInv, ArchiveInv
  <1>2. sent \in Seq(Pkgs) /\ Len(sent) \in Nat /\ DOMAIN sent = 1..Len(sent)
    BY LenProperties DEF RecvInv, SentInv
  <1>3. \A p \in DOMAIN sent : sent[p].op \in Opcodes /\ sent[p].len \in HdrSize..BlockSize
    <2> SUFFICES ASSUME NEW p \in 1..Len(sent) PROVE sent[p].op \in Opcodes /\ sent[p].len \in HdrSize..BlockSize
      BY <1>2
    <2>1. sent[p] \in Pkgs
      BY <1>2, ElementOfSeq
    <2> QED
      BY <2>1 DEF Pkgs
  <1>4. block.offset \in Nat /\ DataLen \in Nat /\ block.offset + DataLen <= BlockSize
    BY AheadIs DEF RecvInv, StreamInv
  <1>5. block.offset + DataLen \in 0..BlockSize
    BY <1>4, SizesAre
  <1>6. phase \in {"idle", "dispatch", "header", "bodies"} /\ conn \in {"opened", "shutdown", "error", "pending", "aborted"}
    BY DEF RecvInv, DispatchInv
  <1>7. pkg.p \in 0..Len(sent) /\ pkg.size \in 0..BlockSize
    <2>1. CASE phase = "bodies"
      <3>1. PICK k \in Nat, c \in Nat : InBodies(k, c)
        BY <2>1 DEF RecvInv, DispatchInv
      <3>2. pkg.p \in 1..Len(sent) /\ pkg.size <= DataLen /\ pkg \in [p : Nat, size : Nat]
        BY <3>1 DEF InBodies, RecvInv, DispatchInv
      <3>3. pkg.size \in Nat /\ pkg.size <= BlockSize
        BY <1>4, <3>2, SizesAre
      <3> QED
        BY <1>2, <3>2, <3>3
    <2>2. CASE phase # "bodies"
      <3>1. pkg.p = 0 /\ pkg.size = 0
        BY <2>2 DEF RecvInv, DispatchInv, NoPkg
      <3> QED
        BY <1>2, <3>1, SizesAre
    <2> QED
      BY <2>1, <2>2
  <1> QED
    BY <1>1, <1>3, <1>5, <1>6, <1>7 DEF TypeOK

(* Types, for every size of header, body and block (RupRecv): no package   *)
(* grows beyond a block and no byte is received beyond its end             *)
(* (CArchive::get_next_body, CMemBlock).                                   *)
THEOREM RecvTypeCorrect == Spec => []TypeOK
  BY RecvInvariance, RecvTypes, PTL

LEMMA RecvOrder == RecvInv => DispatchedInOrder
  <1> SUFFICES ASSUME RecvInv PROVE DispatchedInOrder
    OBVIOUS
  <1>1. conn # "aborted"
    BY DEF RecvInv, DispatchInv
  <1>2. AllBodies = DoneOf(Len(sent)) /\ Len(sent) \in Nat
    BY AllAreDone, LenProperties DEF RecvInv, SentInv
  <1>3. \E s \in Seq(Bytes) : AllBodies = handled \o s
    <2>1. CASE phase # "bodies"
      <3>1. PICK n \in Nat : FirstOf(Ahead, sent) = <<n + 1, 1>> /\ handled = DoneOf(n)
        BY <2>1 DEF RecvInv, DispatchInv, AtBoundary
      <3>2. FirstOf(Ahead, sent)[1] - 1 \in 0..Len(sent) /\ FirstOf(Ahead, sent)[1] = n + 1
        BY <3>1, FirstIs DEF RecvInv
      <3>3. n \in 0..Len(sent)
        BY <3>2
      <3> QED
        BY <1>2, <3>1, <3>3, DonePrefix DEF RecvInv
    <2>2. CASE phase = "bodies"
      <3>1. PICK k \in Nat, c \in Nat : InBodies(k, c)
        BY <2>2 DEF RecvInv, DispatchInv
      <3>2. PICK p, b : p = pkg.p /\ b = BodySize[sent[p].op]
        OBVIOUS
      <3>3. BodiesAt(k, c, p, b)
        BY <3>1, <3>2, BodiesIs
      <3>4. p \in 1..Len(sent) /\ p \in Nat /\ b \in Nat \ {0} /\ k > 0 /\ c <= k
            /\ sent[p].len = HdrSize + k * b /\ DoneOf(p - 1) \in Seq(Bytes)
            /\ handled = DoneOf(p - 1) \o FirstBodies(p, b, k - c)
        BY <3>3 DEF BodiesAt
      <3> DEFINE t == FirstBodies(p, b, k)
                 m == k - c
                 r == SubSeq(t, m + 1, k)
      <3>5. m \in Nat /\ m <= k /\ b \in Nat
        BY <3>4
      <3>6. t \in Seq(Bytes) /\ Len(t) = k
        BY <3>4, FirstBodiesType
      <3>7. BodiesOf(p) = t
        <4>1. k * b > 0
          <5>1. b * k >= b /\ b * k = k * b
            BY <3>4, TimesAtLeast
          <5> QED
            BY <3>4, <5>1
        <4>2. sent[p].len # HdrSize
          BY <3>4, <4>1, SizesAre
        <4> QED
          BY <3>2, <3>4, <4>2, BodiesAre DEF RecvInv
      <3>8. t = FirstBodies(p, b, m) \o r /\ r \in Seq(Bytes) /\ FirstBodies(p, b, m) \in Seq(Bytes)
        <4>1. FirstBodies(p, b, m) = SubSeq(t, 1, m)
          <5>1. /\ SubSeq(t, 1, m) \in Seq(Bytes) /\ Len(SubSeq(t, 1, m)) = m
                /\ \A i \in 1..m : SubSeq(t, 1, m)[i] = t[i]
            BY <3>5, <3>6, StartOf
          <5>2. FirstBodies(p, b, m) \in Seq(Bytes) /\ Len(FirstBodies(p, b, m)) = m
            BY <3>4, <3>5, FirstBodiesType
          <5>3. \A i \in 1..m : FirstBodies(p, b, m)[i] = t[i]
            BY <3>5 DEF FirstBodies
          <5> HIDE DEF t, m
          <5>4. \A i \in 1..Len(FirstBodies(p, b, m)) : FirstBodies(p, b, m)[i] = SubSeq(t, 1, m)[i]
            BY <5>1, <5>2, <5>3
          <5> QED
            BY <5>1, <5>2, <5>4, SeqEqual
        <4> HIDE DEF t, m
        <4>2. SubSeq(t, 1, m) \o SubSeq(t, m + 1, k) = SubSeq(t, 1, k)
          <5>1. 1 \in 1..Len(t) + 1 /\ m \in 1 - 1 .. Len(t) /\ k \in m..Len(t)
            BY <3>5, <3>6
          <5> QED
            BY <3>6, <5>1, ConcatAdjacentSubSeq
        <4>3. SubSeq(t, 1, k) = t
          BY <3>6, SubSeqFull
        <4>4. r \in Seq(Bytes)
          <5>1. m \in 0..Len(t)
            BY <3>5, <3>6
          <5> QED
            BY <3>6, <5>1, RestOf
        <4>5. FirstBodies(p, b, m) \in Seq(Bytes)
          BY <3>4, <3>5, FirstBodiesType
        <4> QED
          BY <4>1, <4>2, <4>3, <4>4, <4>5
      <3> HIDE DEF t, m, r
      <3>9. DoneOf(p) = handled \o r
        <4>1. DoneOf(p) = DoneOf(p - 1) \o t
          BY <3>4, <3>7, DoneNext DEF RecvInv
        <4>2. handled = DoneOf(p - 1) \o FirstBodies(p, b, m)
          BY <3>4 DEF m
        <4>3. DoneOf(p) = DoneOf(p - 1) \o (FirstBodies(p, b, m) \o r)
          BY <3>8, <4>1
        <4>4. DoneOf(p - 1) \in Seq(Bytes) /\ FirstBodies(p, b, m) \in Seq(Bytes) /\ r \in Seq(Bytes)
          BY <3>4, <3>8
        <4>5. (DoneOf(p - 1) \o FirstBodies(p, b, m)) \o r = DoneOf(p - 1) \o (FirstBodies(p, b, m) \o r)
          BY ONLY <4>4, Associates
        <4> QED
          BY <4>2, <4>3, <4>5
      <3>10. p \in 0..Len(sent)
        BY <1>2, <3>4
      <3>11. PICK s \in Seq(Bytes) : DoneOf(Len(sent)) = DoneOf(p) \o s
        BY <3>10, DonePrefix DEF RecvInv
      <3>12. handled \in Seq(Bytes)
        BY DEF RecvInv, DispatchInv
      <3>13. AllBodies = handled \o (r \o s) /\ r \o s \in Seq(Bytes)
        <4>1. r \in Seq(Bytes) /\ s \in Seq(Bytes)
          BY <3>8
        <4>2. (handled \o r) \o s = handled \o (r \o s)
          BY ONLY <3>12, <4>1, Associates
        <4>3. r \o s \in Seq(Bytes)
          BY ONLY <4>1, ConcatProperties
        <4> QED
          BY <1>2, <3>9, <3>11, <4>2, <4>3
      <3> QED
        BY <3>13
    <2> QED
      BY <2>1, <2>2
  <1>4. IsPrefix(handled, AllBodies)
    <2>1. PICK s \in Seq(Bytes) : AllBodies = handled \o s
      BY <1>3
    <2>2. handled \in Seq(Bytes)
      BY DEF RecvInv, DispatchInv
    <2>3. IsPrefix(handled, handled \o s)
      BY <2>2, PrefixIs
    <2> QED
      BY <2>1, <2>3
  <1>5. phase = "idle" /\ block.data # <<>> => Head(block.data)[2] = 1 /\ (DataLen < HdrSize \/ DataLen < HdrLen)
    <2> SUFFICES ASSUME phase = "idle", block.data # <<>> PROVE Head(block.data)[2] = 1 /\ DataLen < HdrLen
      OBVIOUS
    <2>1. AtBoundary /\ DataLen > 0 /\ DataLen < sent[HeadPkg].len
      BY IdleIs
    <2>2. Head(block.data)[2] = 1
      BY <2>1, HeadIs DEF RecvInv
    <2> QED
      BY <2>1, <2>2 DEF HdrLen
  <1> QED
    BY <1>1, <1>4, <1>5 DEF DispatchedInOrder

(* Every body is handled once and in order, however the stream is cut,     *)
(* whatever the packages (CDispatcher::dispatch, dispatch_fun).            *)
THEOREM InOrderDispatch == Spec => []DispatchedInOrder
  BY RecvInvariance, RecvOrder, PTL

LEMMA RecvEnd == RecvInv => OrderlyCloseLosesNothing
  <1> SUFFICES ASSUME RecvInv, conn = "shutdown" PROVE fin /\ handled = AllBodies
    BY DEF OrderlyCloseLosesNothing
  <1>1. fin /\ Ahead = <<>> /\ phase = "idle" /\ AtBoundary
    BY DEF RecvInv, DispatchInv
  <1>2. PICK n \in Nat : FirstOf(Ahead, sent) = <<n + 1, 1>> /\ handled = DoneOf(n)
    BY <1>1 DEF AtBoundary
  <1>3. FirstOf(Ahead, sent) = <<Len(sent) + 1, 1>> /\ Len(sent) \in Nat
    BY <1>1, FirstIs, LenProperties DEF RecvInv, SentInv
  <1>4. n = Len(sent)
    <2>1. n + 1 = Len(sent) + 1
      BY <1>2, <1>3
    <2> QED
      BY <1>3, <2>1
  <1> QED
    BY <1>1, <1>2, <1>4, AllAreDone DEF RecvInv

(* A peer is taken for closed only when it is, and nothing it sent is      *)
(* lost: recvmsg is never given no room (CRupSock::handle_can_recv).       *)
THEOREM NothingLost == Spec => []OrderlyCloseLosesNothing
  BY RecvInvariance, RecvEnd, PTL

-----------------------------------------------------------------------------
(* The sending side: how queues of blocks flatten to their bytes.          *)

LEMMA FlattenOne ==
  ASSUME NEW T, NEW d \in Seq(T)
  PROVE  FlattenSeq(<<d>>) = d
  <1>1. <<>> \in Seq(Seq(T)) /\ Append(<<>>, d) = <<d>>
    BY EmptySeq
  <1>2. FlattenSeq(Append(<<>>, d)) = FlattenSeq(<<>>) \o d
    BY <1>1, FlattenAppend
  <1>3. <<>> \o d = d
    BY ConcatEmptySeq
  <1> QED
    BY <1>1, <1>2, <1>3, FlattenEmpty

LEMMA Regroups == \A T : \A a, b, c \in Seq(T) : (a \o b) \o c = a \o (b \o c)
  BY ConcatAssociative

LEMMA BytesRegroup == \A a, b, c \in Seq(Byte) : (a \o b) \o c = a \o (b \o c)
  BY ONLY Regroups

LEMMA AppendsOne == \A T : \A a \in Seq(T), x \in T : Append(a, x) = a \o <<x>>
  BY AppendIsConcat

Joins(s, t) == FlattenSeq(s \o t) = FlattenSeq(s) \o FlattenSeq(t)

LEMMA FlattenConcatStep ==
  ASSUME NEW T, NEW s, NEW v, NEW x,
         s \in Seq(Seq(T)), v \in Seq(Seq(T)), x \in Seq(T), Joins(s, v)
  PROVE  Joins(s, Append(v, x))
  <1>1. PICK S : S = Seq(T)
    OBVIOUS
  <1>2. s \in Seq(S) /\ v \in Seq(S) /\ <<x>> \in Seq(S) /\ x \in S
    BY <1>1
  <1>3. s \o Append(v, x) = Append(s \o v, x)
    <2>1. s \o v \in Seq(S)
      BY ONLY <1>2, ConcatProperties
    <2>2. Append(s \o v, x) = (s \o v) \o <<x>> /\ Append(v, x) = v \o <<x>>
      BY ONLY <1>2, <2>1, AppendsOne
    <2>3. (s \o v) \o <<x>> = s \o (v \o <<x>>)
      BY ONLY <1>2, Regroups
    <2> QED
      BY ONLY <2>2, <2>3
  <1>4. s \o v \in Seq(Seq(T)) /\ FlattenSeq(s) \in Seq(T) /\ FlattenSeq(v) \in Seq(T)
    BY ConcatProperties, FlattenType
  <1>5. FlattenSeq(Append(s \o v, x)) = FlattenSeq(s \o v) \o x /\ FlattenSeq(Append(v, x)) = FlattenSeq(v) \o x
    BY <1>4, FlattenAppend
  <1>6. (FlattenSeq(s) \o FlattenSeq(v)) \o x = FlattenSeq(s) \o (FlattenSeq(v) \o x)
    <2>1. PICK a, b : a = FlattenSeq(s) /\ b = FlattenSeq(v)
      OBVIOUS
    <2>2. a \in Seq(T) /\ b \in Seq(T) /\ x \in Seq(T)
      BY <1>4, <2>1
    <2>3. (a \o b) \o x = a \o (b \o x)
      BY ONLY <2>2, Regroups
    <2> QED
      BY ONLY <2>1, <2>3
  <1> QED
    BY <1>3, <1>5, <1>6, Zenon DEF Joins

LEMMA FlattenConcat ==
  ASSUME NEW T, NEW s, NEW t, s \in Seq(Seq(T)), t \in Seq(Seq(T))
  PROVE  Joins(s, t)
  <1> DEFINE Bad == {n \in Nat : \E u : u \in Seq(Seq(T)) /\ Len(u) = n /\ ~ Joins(s, u)}
  <1>1. Len(t) \in Nat
    BY LenProperties
  <1> SUFFICES ASSUME Bad # {} PROVE FALSE
    BY <1>1
  <1>2. PICK n \in Bad : \A k \in Bad : n <= k
    BY LeastExists
  <1>3. PICK u : u \in Seq(Seq(T)) /\ Len(u) = n /\ ~ Joins(s, u)
    BY <1>2
  <1>4. FlattenSeq(s) \in Seq(T)
    BY FlattenType
  <1>5. CASE u = <<>>
    <2>1. s \o <<>> = s /\ FlattenSeq(s) \o <<>> = FlattenSeq(s)
      BY <1>4, ConcatEmptySeq
    <2>2. Joins(s, <<>>)
      BY <2>1, FlattenEmpty DEF Joins
    <2> QED
      BY <1>3, <1>5, <2>2
  <1>6. CASE u # <<>>
    <2>1. PICK S : S = Seq(T)
      OBVIOUS
    <2>2. u \in Seq(S)
      BY <1>3, <2>1
    <2>3. PICK v \in Seq(S), x \in S : u = Append(v, x)
      BY ONLY <1>6, <2>2, SequenceEmptyOrAppend
    <2>4. Len(v) \in Nat /\ Len(u) = Len(v) + 1
      BY ONLY <2>3, LenProperties, AppendProperties
    <2>5. v \in Seq(Seq(T)) /\ x \in Seq(T)
      BY <2>1
    <2>6. ~ (n <= Len(v))
      BY <1>2, <1>3, <2>4
    <2>7. Joins(s, v)
      BY <1>2, <2>4, <2>5, <2>6
    <2> HIDE DEF Bad
    <2>8. Joins(s, Append(v, x))
      BY <2>5, <2>7, FlattenConcatStep
    <2> QED
      BY <1>3, <2>3, <2>8
  <1> QED
    BY <1>5, <1>6

(* The front of a queue and the rest, its last block and those before.     *)
LEMMA QueueSplits ==
  ASSUME NEW T, NEW q \in Seq(Seq(T)), q # <<>>
  PROVE  /\ Head(q) \in Seq(T) /\ Tail(q) \in Seq(Seq(T)) /\ q = <<Head(q)>> \o Tail(q)
         /\ Front(q) \in Seq(Seq(T)) /\ Last(q) \in Seq(T) /\ q = Front(q) \o <<Last(q)>>
         /\ FlattenSeq(q) = Head(q) \o FlattenSeq(Tail(q))
         /\ FlattenSeq(q) = FlattenSeq(Front(q)) \o Last(q)
  <1>1. Head(q) \in Seq(T) /\ Tail(q) \in Seq(Seq(T)) /\ q = <<Head(q)>> \o Tail(q)
    <2>1. Head(q) \in Seq(T) /\ Tail(q) \in Seq(Seq(T)) /\ Len(Tail(q)) = Len(q) - 1
          /\ \A i \in 1..Len(Tail(q)) : Tail(q)[i] = q[i + 1]
      BY HeadTailProperties
    <2>2. Len(q) \in Nat \ {0} /\ Head(q) = q[1]
      BY EmptySeq
    <2> DEFINE u == <<Head(q)>> \o Tail(q)
    <2>3. <<Head(q)>> \in Seq(Seq(T)) /\ Len(<<Head(q)>>) = 1 /\ <<Head(q)>>[1] = Head(q)
      BY <2>1
    <2>4. u \in Seq(Seq(T)) /\ Len(u) = Len(q) /\ \A i \in 1..Len(q) : u[i] = q[i]
      <3>1. u \in Seq(Seq(T)) /\ Len(u) = 1 + Len(Tail(q))
            /\ \A i \in 1..(1 + Len(Tail(q))) : u[i] = IF i <= 1 THEN <<Head(q)>>[i] ELSE Tail(q)[i - 1]
        <4> DEFINE h == <<Head(q)>>
        <4>1. h \in Seq(Seq(T)) /\ Len(h) = 1 /\ Tail(q) \in Seq(Seq(T))
          BY ONLY <2>1, <2>3
        <4> HIDE DEF h
        <4>2. /\ h \o Tail(q) \in Seq(Seq(T)) /\ Len(h \o Tail(q)) = Len(h) + Len(Tail(q))
              /\ \A i \in 1..(Len(h) + Len(Tail(q))) :
                   (h \o Tail(q))[i] = IF i <= Len(h) THEN h[i] ELSE Tail(q)[i - Len(h)]
          BY ONLY <4>1, ConcatProperties
        <4> QED
          BY <4>1, <4>2 DEF h
      <3>2. Len(u) = Len(q)
        BY <2>1, <2>2, <3>1
      <3> HIDE DEF u
      <3>3. ASSUME NEW i \in 1..Len(q) PROVE u[i] = q[i]
        <4>1. CASE i = 1
          BY ONLY <2>2, <2>3, <3>1, <3>2, <4>1
        <4>2. CASE i # 1
          <5>1. i - 1 \in 1..Len(Tail(q)) /\ i - 1 + 1 = i /\ ~ (i <= 1) /\ i \in 1..(1 + Len(Tail(q)))
            BY ONLY <2>1, <2>2, <4>2
          <5>2. Tail(q)[i - 1] = q[i]
            BY ONLY <2>1, <5>1
          <5> QED
            BY ONLY <3>1, <5>1, <5>2
        <4> QED
          BY <4>1, <4>2
      <3> QED
        BY <3>1, <3>2, <3>3
    <2> HIDE DEF u
    <2>5. u = q
      BY <2>4, SeqEqual
    <2> QED
      BY <2>1, <2>5 DEF u
  <1>2. Front(q) \in Seq(Seq(T)) /\ Last(q) \in Seq(T) /\ q = Front(q) \o <<Last(q)>>
    <2>1. PICK v \in Seq(Seq(T)), x \in Seq(T) : q = Append(v, x)
      BY SequenceEmptyOrAppend
    <2>2. Len(v) \in Nat /\ Len(q) = Len(v) + 1 /\ q[Len(q)] = x /\ \A i \in 1..Len(v) : q[i] = v[i]
      BY <2>1, LenProperties, AppendProperties
    <2>3. Last(q) = x
      BY <2>2 DEF Last
    <2>4. Front(q) = v
      <3>1. Front(q) = SubSeq(q, 1, Len(v))
        BY <2>2 DEF Front
      <3>2. \A i \in 1..Len(v) : q[i] \in Seq(T)
        BY <2>1, <2>2, ElementOfSeq
      <3>3. SubSeq(q, 1, Len(v)) \in Seq(Seq(T)) /\ Len(SubSeq(q, 1, Len(v))) = Len(v)
            /\ \A i \in 1..Len(v) : SubSeq(q, 1, Len(v))[i] = v[i]
        <4>1. 1 \in Int /\ Len(v) \in Int
          BY <2>2
        <4>2. /\ SubSeq(q, 1, Len(v)) \in Seq(Seq(T))
              /\ Len(SubSeq(q, 1, Len(v))) = IF 1 <= Len(v) THEN Len(v) - 1 + 1 ELSE 0
              /\ \A i \in 1..(Len(v) - 1 + 1) : SubSeq(q, 1, Len(v))[i] = q[1 + i - 1]
          BY <4>1, <3>2, SubSeqProperties
        <4> QED
          BY <2>2, <4>2
      <3> QED
        BY <2>1, <3>1, <3>3, SeqEqual
    <2>5. q = v \o <<x>>
      BY <2>1, AppendIsConcat
    <2> QED
      BY <2>1, <2>3, <2>4, <2>5
  <1>3. FlattenSeq(q) = Head(q) \o FlattenSeq(Tail(q))
    <2>1. <<Head(q)>> \in Seq(Seq(T)) /\ FlattenSeq(<<Head(q)>>) = Head(q)
      BY <1>1, FlattenOne
    <2>2. Joins(<<Head(q)>>, Tail(q))
      BY <1>1, <2>1, FlattenConcat
    <2> QED
      BY <1>1, <2>1, <2>2, Zenon DEF Joins
  <1>4. FlattenSeq(q) = FlattenSeq(Front(q)) \o Last(q)
    <2>1. <<Last(q)>> \in Seq(Seq(T)) /\ FlattenSeq(<<Last(q)>>) = Last(q)
      BY <1>2, FlattenOne
    <2>2. Joins(Front(q), <<Last(q)>>)
      BY <1>2, <2>1, FlattenConcat
    <2> QED
      BY <1>2, <2>1, <2>2, Zenon DEF Joins
  <1> QED
    BY <1>1, <1>2, <1>3, <1>4

-----------------------------------------------------------------------------
(* Orders of bytes.                                                        *)

Elements(x) == {x[i] : i \in 1..Len(x)}

(* Of two bytes of one message, of one sender, the first comes first.      *)
OneMsg ==
  {p \in Byte \X Byte :
     p[1][1] = p[2][1] /\ p[1][2] = p[2][2] => p[1][3] < p[2][3]}
OneSender ==
  {p \in Byte \X Byte :
     p[1][1] = p[2][1] =>
       \/ p[1][2] < p[2][2]
       \/ p[1][2] = p[2][2] /\ p[1][3] < p[2][3]}

Sorted(R, x) == \A i, j \in 1..Len(x) : i < j => <<x[i], x[j]>> \in R
Across(R, X, Y) == \A a \in X, b \in Y : <<a, b>> \in R

LEMMA ElementsIs ==
  ASSUME NEW T, NEW x \in Seq(T)
  PROVE  /\ Elements(x) \subseteq T /\ Elements(x) = ToSet(x)
         /\ \A i \in 1..Len(x) : x[i] \in Elements(x)
         /\ \A a \in Elements(x) : \E i \in 1..Len(x) : a = x[i]
  <1>1. Len(x) \in Nat /\ DOMAIN x = 1..Len(x)
    BY LenProperties
  <1>2. \A i \in 1..Len(x) : x[i] \in T
    BY ElementOfSeq
  <1> QED
    BY <1>1, <1>2, Zenon DEF Elements, ToSet

LEMMA ElementsEmpty == Elements(<<>>) = {}
  BY DEF Elements

LEMMA ElementsConcat ==
  ASSUME NEW T, NEW x \in Seq(T), NEW y \in Seq(T)
  PROVE  x \o y \in Seq(T) /\ Elements(x \o y) = Elements(x) \cup Elements(y)
  <1>1. PICK m, n, z : m = Len(x) /\ n = Len(y) /\ z = x \o y
    OBVIOUS
  <1>2. /\ m \in Nat /\ n \in Nat /\ z \in Seq(T) /\ Len(z) = m + n
        /\ \A i \in 1..(m + n) : z[i] = IF i <= m THEN x[i] ELSE y[i - m]
    BY <1>1, LenProperties, ConcatProperties
  <1>3. \A i \in 1..m : i \in 1..(m + n) /\ z[i] = x[i]
    BY ONLY <1>2
  <1>4. \A j \in 1..n : m + j \in 1..(m + n) /\ z[m + j] = y[j]
    <2> SUFFICES ASSUME NEW j \in 1..n PROVE m + j \in 1..(m + n) /\ z[m + j] = y[j]
      OBVIOUS
    <2>1. m + j \in 1..(m + n) /\ ~ (m + j <= m) /\ m + j - m = j
      BY ONLY <1>2
    <2> QED
      BY ONLY <1>2, <2>1
  <1>5. \A i \in 1..(m + n) : i \in 1..m \/ \E j \in 1..n : i = m + j
    <2> SUFFICES ASSUME NEW i \in 1..(m + n), i \notin 1..m PROVE \E j \in 1..n : i = m + j
      OBVIOUS
    <2>1. i - m \in 1..n /\ i = m + (i - m)
      BY ONLY <1>2, i \notin 1..m
    <2> QED
      BY ONLY <2>1
  <1>6. Elements(z) = Elements(x) \cup Elements(y)
    <2>1. Elements(z) = {z[i] : i \in 1..(m + n)} /\ Elements(x) = {x[i] : i \in 1..m} /\ Elements(y) = {y[i] : i \in 1..n}
      BY ONLY <1>1, <1>2 DEF Elements
    <2>2. \A a \in Elements(z) : a \in Elements(x) \cup Elements(y)
      <3> SUFFICES ASSUME NEW a \in Elements(z) PROVE a \in Elements(x) \cup Elements(y)
        OBVIOUS
      <3>0. PICK i \in 1..(m + n) : a = z[i]
        BY ONLY a \in Elements(z), <2>1
      <3>1. CASE i \in 1..m
        BY ONLY <1>3, <2>1, <3>0, <3>1
      <3>2. CASE \E j \in 1..n : i = m + j
        BY ONLY <1>4, <2>1, <3>0, <3>2
      <3> QED
        BY <1>5, <3>1, <3>2
    <2>3. \A a \in Elements(x) : a \in Elements(z)
      BY ONLY <1>3, <2>1
    <2>4. \A a \in Elements(y) : a \in Elements(z)
      BY ONLY <1>4, <2>1
    <2> QED
      BY <2>2, <2>3, <2>4
  <1> QED
    BY <1>1, <1>2, <1>6

(* What is sorted in both parts and across them is sorted.                 *)
LEMMA SortedConcat ==
  ASSUME NEW T, NEW R, NEW x \in Seq(T), NEW y \in Seq(T)
  PROVE  Sorted(R, x \o y) <=> Sorted(R, x) /\ Sorted(R, y) /\ Across(R, Elements(x), Elements(y))
  <1>1. PICK m, n, z : m = Len(x) /\ n = Len(y) /\ z = x \o y
    OBVIOUS
  <1>2. /\ m \in Nat /\ n \in Nat /\ z \in Seq(T) /\ Len(z) = m + n
        /\ \A i \in 1..(m + n) : z[i] = IF i <= m THEN x[i] ELSE y[i - m]
    BY <1>1, LenProperties, ConcatProperties
  <1>3. \A i \in 1..m : i \in 1..(m + n) /\ z[i] = x[i]
    BY ONLY <1>2
  <1>4. \A j \in 1..n : m + j \in 1..(m + n) /\ z[m + j] = y[j]
    <2> SUFFICES ASSUME NEW j \in 1..n PROVE m + j \in 1..(m + n) /\ z[m + j] = y[j]
      OBVIOUS
    <2>1. m + j \in 1..(m + n) /\ ~ (m + j <= m) /\ m + j - m = j
      BY ONLY <1>2
    <2> QED
      BY ONLY <1>2, <2>1
  <1>5. \A i \in 1..(m + n) : i \in 1..m \/ \E j \in 1..n : i = m + j
    <2> SUFFICES ASSUME NEW i \in 1..(m + n), i \notin 1..m PROVE \E j \in 1..n : i = m + j
      OBVIOUS
    <2>1. i - m \in 1..n /\ i = m + (i - m)
      BY ONLY <1>2, i \notin 1..m
    <2> QED
      BY ONLY <2>1
  <1>7. ASSUME Sorted(R, z) PROVE Sorted(R, x) /\ Sorted(R, y) /\ Across(R, Elements(x), Elements(y))
    <2>1. \A i, j \in 1..(m + n) : i < j => <<z[i], z[j]>> \in R
      BY ONLY <1>2, <1>7 DEF Sorted
    <2>2. Sorted(R, x)
      BY ONLY <1>1, <1>3, <2>1 DEF Sorted
    <2>3. ASSUME NEW i \in 1..n, NEW j \in 1..n, i < j PROVE <<y[i], y[j]>> \in R
      <3>1. m + i < m + j
        BY ONLY <1>2, <2>3
      <3>2. m + i \in 1..(m + n) /\ m + j \in 1..(m + n) /\ z[m + i] = y[i] /\ z[m + j] = y[j]
        BY ONLY <1>4
      <3> QED
        BY ONLY <2>1, <3>1, <3>2
    <2>4. ASSUME NEW i \in 1..m, NEW j \in 1..n PROVE <<x[i], y[j]>> \in R
      <3>1. i < m + j
        BY ONLY <1>2
      <3>2. i \in 1..(m + n) /\ m + j \in 1..(m + n) /\ z[i] = x[i] /\ z[m + j] = y[j]
        BY ONLY <1>3, <1>4
      <3> QED
        BY ONLY <2>1, <3>1, <3>2
    <2>5. Sorted(R, y)
      BY ONLY <1>1, <2>3 DEF Sorted
    <2>6. Across(R, Elements(x), Elements(y))
      BY ONLY <1>1, <2>4, Zenon DEF Across, Elements
    <2> QED
      BY <2>2, <2>5, <2>6
  <1>8. ASSUME Sorted(R, x), Sorted(R, y), Across(R, Elements(x), Elements(y)) PROVE Sorted(R, z)
    <2> SUFFICES ASSUME NEW i \in 1..(m + n), NEW j \in 1..(m + n), i < j PROVE <<z[i], z[j]>> \in R
      BY <1>2 DEF Sorted
    <2>1. CASE i \in 1..m /\ j \in 1..m
      BY ONLY <1>1, <1>3, <1>8, <2>1, i < j DEF Sorted
    <2>2. CASE \E k \in 1..n, l \in 1..n : i = m + k /\ j = m + l
      <3>1. PICK k \in 1..n, l \in 1..n : i = m + k /\ j = m + l
        BY <2>2
      <3>2. k < l
        BY ONLY <1>2, <3>1, i < j
      <3>3. <<y[k], y[l]>> \in R
        BY ONLY <1>1, <1>8, <3>2 DEF Sorted
      <3> QED
        BY ONLY <1>4, <3>1, <3>3
    <2>3. CASE i \in 1..m /\ \E l \in 1..n : j = m + l
      <3>1. PICK l \in 1..n : j = m + l
        BY <2>3
      <3>2. x[i] \in Elements(x) /\ y[l] \in Elements(y)
        BY <1>1, <2>3, Zenon DEF Elements
      <3>3. <<x[i], y[l]>> \in R
        BY <1>8, <3>2, Zenon DEF Across
      <3>4. z[i] = x[i] /\ z[j] = y[l]
        BY ONLY <1>3, <1>4, <2>3, <3>1
      <3> QED
        BY <3>3, <3>4
    <2>4. CASE j \in 1..m /\ \E k \in 1..n : i = m + k
      BY ONLY <1>2, <2>4, i < j
    <2> QED
      BY ONLY <1>5, <2>1, <2>2, <2>3, <2>4, i \in 1..(m + n), j \in 1..(m + n)
  <1> QED
    BY <1>1, <1>7, <1>8, Zenon

LEMMA SubSeqSplits ==
  ASSUME NEW T, NEW x \in Seq(T), NEW k \in 1..(Len(x) - 1)
  PROVE  /\ SubSeq(x, 1, k) \in Seq(T) /\ SubSeq(x, k + 1, Len(x)) \in Seq(T)
         /\ Len(SubSeq(x, k + 1, Len(x))) = Len(x) - k
         /\ x = SubSeq(x, 1, k) \o SubSeq(x, k + 1, Len(x))
  <1>1. Len(x) \in Nat /\ k \in Nat /\ k < Len(x) /\ k + 1 <= Len(x)
    BY LenProperties
  <1>2. \A i \in 1..Len(x) : x[i] \in T
    BY ElementOfSeq
  <1>3. SubSeq(x, 1, k) \in Seq(T)
    <2>1. \A i \in 1..k : x[i] \in T
      BY <1>1, <1>2
    <2> QED
      BY <1>1, <2>1, SubSeqProperties
  <1>4. SubSeq(x, k + 1, Len(x)) \in Seq(T) /\ Len(SubSeq(x, k + 1, Len(x))) = Len(x) - k
    <2>1. \A i \in (k + 1)..Len(x) : x[i] \in T
      BY <1>1, <1>2
    <2>2. k + 1 \in Int /\ Len(x) \in Int /\ Len(x) - (k + 1) + 1 = Len(x) - k
      BY <1>1
    <2>3. /\ SubSeq(x, k + 1, Len(x)) \in Seq(T)
          /\ Len(SubSeq(x, k + 1, Len(x))) = IF k + 1 <= Len(x) THEN Len(x) - (k + 1) + 1 ELSE 0
      BY <2>1, <2>2, SubSeqProperties
    <2> QED
      BY <1>1, <2>2, <2>3
  <1>5. 1 \in 1..(Len(x) + 1) /\ k \in (1 - 1)..Len(x) /\ Len(x) \in k..Len(x)
    BY <1>1
  <1>6. SubSeq(x, 1, k) \o SubSeq(x, k + 1, Len(x)) = SubSeq(x, 1, Len(x))
    BY <1>5, ConcatAdjacentSubSeq
  <1>7. SubSeq(x, 1, Len(x)) = x
    BY SubSeqFull
  <1> QED
    BY <1>3, <1>4, <1>6, <1>7

LEMMA NothingAround ==
  ASSUME NEW T, NEW x \in Seq(T)
  PROVE  x \o <<>> = x /\ <<>> \o x = x
  BY ConcatEmptySeq

-----------------------------------------------------------------------------
(* Queues of blocks.                                                       *)

Blocks == {b \in Seq(Byte) : Len(b) \in 1..MemSize}

LEMMA QueueIs ==
  ASSUME NEW q \in Seq(Blocks)
  PROVE  q \in Seq(Seq(Byte)) /\ FlattenSeq(q) \in Seq(Byte)
  <1>1. Blocks \subseteq Seq(Byte)
    BY DEF Blocks
  <1>2. q \in Seq(Seq(Byte))
    BY <1>1, SeqMonotonic
  <1> QED
    BY <1>2, FlattenType

LEMMA QueuesAre ==
  ASSUME NEW q \in Seq(Blocks), NEW r \in Seq(Blocks)
  PROVE  /\ FlattenSeq(q) \in Seq(Byte) /\ FlattenSeq(r) \in Seq(Byte)
         /\ FlattenSeq(q \o r) = FlattenSeq(q) \o FlattenSeq(r)
         /\ FlattenSeq(q \o r) \in Seq(Byte)
  <1>1. /\ q \in Seq(Seq(Byte)) /\ r \in Seq(Seq(Byte))
        /\ FlattenSeq(q) \in Seq(Byte) /\ FlattenSeq(r) \in Seq(Byte)
    BY QueueIs
  <1>2. FlattenSeq(q \o r) = FlattenSeq(q) \o FlattenSeq(r)
    <2>1. Joins(q, r)
      BY <1>1, FlattenConcat
    <2> QED
      BY <2>1 DEF Joins
  <1>3. FlattenSeq(q) \o FlattenSeq(r) \in Seq(Byte)
    BY <1>1, ConcatProperties
  <1> QED
    BY <1>1, <1>2, <1>3

LEMMA PushFrontIs ==
  ASSUME NEW q \in Seq(Blocks), NEW d \in Blocks
  PROVE  /\ <<d>> \o q \in Seq(Blocks)
         /\ FlattenSeq(<<d>> \o q) = d \o FlattenSeq(q)
  <1>1. <<d>> \in Seq(Blocks) /\ d \in Seq(Byte)
    BY DEF Blocks
  <1>2. FlattenSeq(<<d>>) = d
    BY <1>1, FlattenOne
  <1>3. FlattenSeq(<<d>> \o q) = FlattenSeq(<<d>>) \o FlattenSeq(q)
    BY <1>1, QueuesAre
  <1>4. <<d>> \o q \in Seq(Blocks)
    BY <1>1, ConcatProperties
  <1> QED
    BY <1>2, <1>3, <1>4

LEMMA PushBackIs ==
  ASSUME NEW q \in Seq(Blocks), NEW d \in Blocks
  PROVE  /\ PushBack(q, d) \in Seq(Blocks)
         /\ FlattenSeq(PushBack(q, d)) = FlattenSeq(q) \o d
  <1>1. q \in Seq(Seq(Byte)) /\ FlattenSeq(q) \in Seq(Byte) /\ d \in Seq(Byte) /\ Len(d) \in Nat
    BY QueueIs, LenProperties DEF Blocks
  <1>2. CASE q # <<>> /\ Len(Last(q)) + Len(d) <= MemSize
    <2>1. PICK f, z : f = Front(q) /\ z = Last(q)
      OBVIOUS
    <2>2. /\ f \in Seq(Seq(Byte)) /\ z \in Seq(Byte) /\ q = f \o <<z>>
          /\ FlattenSeq(q) = FlattenSeq(f) \o z
      BY <1>1, <1>2, <2>1, QueueSplits
    <2>3. f \in Seq(Blocks) /\ z \in Blocks
      <3>1. Len(q) \in Nat \ {0}
        BY <1>2, EmptySeq
      <3>2. \A i \in 1..Len(q) : q[i] \in Blocks
        BY ElementOfSeq
      <3>3. z \in Blocks
        BY <2>1, <3>1, <3>2 DEF Last
      <3>4. \A i \in 1..(Len(q) - 1) : q[i] \in Blocks
        BY <3>1, <3>2
      <3>5. SubSeq(q, 1, Len(q) - 1) \in Seq(Blocks)
        BY <3>1, <3>4, SubSeqProperties
      <3> QED
        BY <2>1, <3>3, <3>5 DEF Front
    <2>4. z \o d \in Blocks
      <3>1. z \o d \in Seq(Byte) /\ Len(z \o d) = Len(z) + Len(d)
        BY <1>1, <2>2, ConcatProperties
      <3>2. Len(z) \in 1..MemSize /\ Len(d) \in 1..MemSize /\ Len(z) + Len(d) <= MemSize /\ MemSize \in Nat
        BY <1>2, <2>1, <2>3, SockAssumption DEF Blocks
      <3>3. Len(z) + Len(d) \in 1..MemSize
        BY ONLY <3>2
      <3> QED
        BY <3>1, <3>3 DEF Blocks
    <2>5. PICK w : w = z \o d
      OBVIOUS
    <2>6. w \in Blocks /\ w \in Seq(Byte) /\ <<w>> \in Seq(Blocks)
      BY <2>4, <2>5 DEF Blocks
    <2>7. PushBack(q, d) = f \o <<w>>
      BY <1>2, <2>1, <2>5 DEF PushBack
    <2>8. f \o <<w>> \in Seq(Blocks)
      BY <2>3, <2>6, ConcatProperties
    <2>9. FlattenSeq(f \o <<w>>) = FlattenSeq(f) \o w
      <3>1. FlattenSeq(<<w>>) = w
        BY <2>6, FlattenOne
      <3>2. FlattenSeq(f \o <<w>>) = FlattenSeq(f) \o FlattenSeq(<<w>>)
        BY <2>3, <2>6, QueuesAre
      <3> QED
        BY <3>1, <3>2
    <2>10. FlattenSeq(f) \o (z \o d) = (FlattenSeq(f) \o z) \o d
      <3>1. PICK g : g = FlattenSeq(f)
        OBVIOUS
      <3>2. g \in Seq(Byte) /\ z \in Seq(Byte) /\ d \in Seq(Byte)
        BY <1>1, <2>2, <2>3, <3>1, QueueIs
      <3>3. (g \o z) \o d = g \o (z \o d)
        BY ONLY <3>2, BytesRegroup
      <3> QED
        BY <3>1, <3>3
    <2> QED
      BY <2>2, <2>5, <2>7, <2>8, <2>9, <2>10, Zenon
  <1>3. CASE ~ (q # <<>> /\ Len(Last(q)) + Len(d) <= MemSize)
    <2>1. PushBack(q, d) = Append(q, d)
      BY <1>3 DEF PushBack
    <2>2. Append(q, d) \in Seq(Blocks)
      BY AppendProperties
    <2>3. FlattenSeq(Append(q, d)) = FlattenSeq(q) \o d
      BY <1>1, FlattenAppend
    <2> QED
      BY <2>1, <2>2, <2>3
  <1> QED
    BY <1>2, <1>3

LEMMA PopIs ==
  ASSUME NEW q \in Seq(Blocks), q # <<>>
  PROVE  /\ Head(q) \in Blocks /\ Tail(q) \in Seq(Blocks)
         /\ FlattenSeq(q) = Head(q) \o FlattenSeq(Tail(q))
  <1>1. Head(q) \in Blocks /\ Tail(q) \in Seq(Blocks)
    BY HeadTailProperties
  <1>2. q \in Seq(Seq(Byte))
    BY QueueIs
  <1> QED
    BY <1>1, <1>2, QueueSplits

LEMMA CutIs ==
  ASSUME NEW q \in Seq(Blocks), q # <<>>, NEW h, h = Head(q),
         NEW k \in 1..(Len(h) - 1), NEW x, x = SubSeq(h, 1, k),
         NEW y, y = SubSeq(h, k + 1, Len(h))
  PROVE  /\ x \in Seq(Byte) /\ <<y>> \o Tail(q) \in Seq(Blocks)
         /\ FlattenSeq(q) = x \o FlattenSeq(<<y>> \o Tail(q))
  <1>1. h \in Blocks /\ Tail(q) \in Seq(Blocks) /\ FlattenSeq(q) = h \o FlattenSeq(Tail(q))
    BY PopIs
  <1>2. h \in Seq(Byte) /\ Len(h) \in 1..MemSize /\ MemSize \in Nat
    BY <1>1, SockAssumption DEF Blocks
  <1>3. x \in Seq(Byte) /\ y \in Seq(Byte) /\ Len(y) = Len(h) - k /\ h = x \o y
    BY <1>2, SubSeqSplits
  <1>4. Len(h) - k \in 1..MemSize
    BY <1>2
  <1>5. y \in Blocks
    BY <1>3, <1>4 DEF Blocks
  <1>6. <<y>> \o Tail(q) \in Seq(Blocks) /\ FlattenSeq(<<y>> \o Tail(q)) = y \o FlattenSeq(Tail(q))
    BY <1>1, <1>5, PushFrontIs
  <1>7. (x \o y) \o FlattenSeq(Tail(q)) = x \o (y \o FlattenSeq(Tail(q)))
    <2>1. PICK g : g = FlattenSeq(Tail(q))
      OBVIOUS
    <2>2. x \in Seq(Byte) /\ y \in Seq(Byte) /\ g \in Seq(Byte)
      BY <1>1, <1>3, <2>1, QueueIs
    <2>3. (x \o y) \o g = x \o (y \o g)
      BY ONLY <2>2, BytesRegroup
    <2> QED
      BY <2>1, <2>3
  <1> QED
    BY <1>1, <1>3, <1>6, <1>7, Zenon

-----------------------------------------------------------------------------
(* How bytes move between a thread's hand, the queues and the wire.        *)

LEMMA SockBytesAre ==
  ASSUME NEW b \in Byte
  PROVE  /\ b[1] \in Senders /\ b[2] \in 1..MaxSends /\ b[3] \in 1..MsgLen
         /\ b[2] \in Nat /\ b[3] \in Nat /\ b = <<b[1], b[2], b[3]>>
  BY SockAssumption DEF Byte

LEMMA OneMsgIs ==
  \A a, b \in Byte :
    <<a, b>> \in OneMsg <=> (a[1] = b[1] /\ a[2] = b[2] => a[3] < b[3])
  BY DEF OneMsg

LEMMA OneSenderIs ==
  \A a, b \in Byte :
    <<a, b>> \in OneSender <=>
      (a[1] = b[1] => a[2] < b[2] \/ (a[2] = b[2] /\ a[3] < b[3]))
  BY DEF OneSender

LEMMA SenderIsStronger ==
  ASSUME NEW a \in Byte, NEW b \in Byte, <<a, b>> \in OneSender
  PROVE  <<a, b>> \in OneMsg
  <1>1. a[2] \in Nat /\ b[2] \in Nat
    BY SockBytesAre
  <1>2. a[1] = b[1] => a[2] < b[2] \/ (a[2] = b[2] /\ a[3] < b[3])
    BY OneSenderIs
  <1>3. a[1] = b[1] /\ a[2] = b[2] => a[3] < b[3]
    BY <1>1, <1>2
  <1> QED
    BY <1>3, OneMsgIs

(* What is on the wire, w, and what is queued, q.                          *)
OrderHolds(w, q) ==
  /\ Sorted(OneMsg, w)
  /\ Across(OneMsg, Elements(w), Elements(q))
  /\ Sorted(OneSender, q)

(* Bytes of message n of thread s that nothing else knows.                 *)
AllOf(s, n, d) == \A b \in Elements(d) : b[1] = s /\ b[2] = n
NoneOf(s, n, x) == \A b \in Elements(x) : ~ (b[1] = s /\ b[2] = n)
OnlyBefore(s, n, x) == \A b \in Elements(x) : b[1] = s => b[2] < n

LEMMA ApartInMsg ==
  ASSUME NEW s, NEW n, NEW d \in Seq(Byte), NEW x \in Seq(Byte),
         AllOf(s, n, d), NoneOf(s, n, x)
  PROVE  /\ Across(OneMsg, Elements(d), Elements(x))
         /\ Across(OneMsg, Elements(x), Elements(d))
  <1>1. Elements(d) \subseteq Byte /\ Elements(x) \subseteq Byte
    BY ElementsIs
  <1>2. ASSUME NEW a \in Elements(d), NEW b \in Elements(x)
        PROVE  <<a, b>> \in OneMsg /\ <<b, a>> \in OneMsg
    <2>1. a \in Byte /\ b \in Byte /\ ~ (a[1] = b[1] /\ a[2] = b[2])
      BY <1>1 DEF AllOf, NoneOf
    <2> QED
      BY <2>1, OneMsgIs
  <1> QED
    BY <1>2 DEF Across

LEMMA BeforeIsNone ==
  ASSUME NEW s, NEW n \in Nat, NEW x \in Seq(Byte), OnlyBefore(s, n, x)
  PROVE  NoneOf(s, n, x)
  <1>1. \A b \in Elements(x) : b[1] = s => b[2] < n
    BY DEF OnlyBefore
  <1>2. \A b \in Elements(x) : b[2] \in Nat
    BY ElementsIs, SockBytesAre
  <1>3. \A b \in Elements(x) : ~ (b[1] = s /\ b[2] = n)
    BY <1>1, <1>2
  <1> QED
    BY <1>3 DEF NoneOf

LEMMA BehindTheOlder ==
  ASSUME NEW s, NEW n \in Nat, NEW d \in Seq(Byte), NEW x \in Seq(Byte),
         AllOf(s, n, d), OnlyBefore(s, n, x)
  PROVE  Across(OneSender, Elements(x), Elements(d))
  <1>1. Elements(d) \subseteq Byte /\ Elements(x) \subseteq Byte
    BY ElementsIs
  <1>2. ASSUME NEW a \in Elements(x), NEW b \in Elements(d)
        PROVE  <<a, b>> \in OneSender
    <2>1. a \in Byte /\ b \in Byte /\ (a[1] = b[1] => a[2] < b[2])
      BY <1>1 DEF AllOf, OnlyBefore
    <2> QED
      BY <2>1, OneSenderIs
  <1> QED
    BY <1>2 DEF Across

LEMMA BeforeTheOthers ==
  ASSUME NEW s, NEW n \in Nat, NEW d \in Seq(Byte), NEW x \in Seq(Byte),
         AllOf(s, n, d), \A b \in Elements(x) : b[1] # s
  PROVE  Across(OneSender, Elements(d), Elements(x))
  <1>1. Elements(d) \subseteq Byte /\ Elements(x) \subseteq Byte
    BY ElementsIs
  <1>2. ASSUME NEW a \in Elements(d), NEW b \in Elements(x)
        PROVE  <<a, b>> \in OneSender
    <2>1. a \in Byte /\ b \in Byte /\ a[1] # b[1]
      BY <1>1 DEF AllOf
    <2> QED
      BY <2>1, OneSenderIs
  <1> QED
    BY <1>2 DEF Across

LEMMA MsgIsSorted ==
  ASSUME NEW s, NEW n, NEW d \in Seq(Byte), AllOf(s, n, d), Sorted(OneMsg, d)
  PROVE  Sorted(OneSender, d)
  <1> SUFFICES ASSUME NEW i \in 1..Len(d), NEW j \in 1..Len(d), i < j
               PROVE  <<d[i], d[j]>> \in OneSender
    BY DEF Sorted
  <1>1. d[i] \in Byte /\ d[j] \in Byte /\ d[i] \in Elements(d) /\ d[j] \in Elements(d)
    BY ElementOfSeq DEF Elements
  <1>2. d[i][1] = d[j][1] /\ d[i][2] = d[j][2]
    BY <1>1 DEF AllOf
  <1>3. <<d[i], d[j]>> \in OneMsg
    BY DEF Sorted
  <1>4. d[i][3] < d[j][3]
    BY <1>1, <1>2, <1>3, OneMsgIs
  <1> QED
    BY <1>1, <1>2, <1>4, OneSenderIs

(* Bytes are queued between what is there.                                 *)
LEMMA InsertKeepsOrder ==
  ASSUME NEW w \in Seq(Byte), NEW x \in Seq(Byte), NEW y \in Seq(Byte), NEW d \in Seq(Byte),
         NEW s, NEW n \in Nat,
         OrderHolds(w, x \o y), AllOf(s, n, d), Sorted(OneMsg, d),
         Across(OneMsg, Elements(w), Elements(d)), OnlyBefore(s, n, x),
         \A b \in Elements(y) : b[1] # s
  PROVE  OrderHolds(w, x \o (d \o y))
  <1>1. /\ Elements(x \o y) = Elements(x) \cup Elements(y)
        /\ Sorted(OneSender, x) /\ Sorted(OneSender, y) /\ Across(OneSender, Elements(x), Elements(y))
    BY ElementsConcat, SortedConcat DEF OrderHolds
  <1>2. Sorted(OneSender, d)
    BY MsgIsSorted
  <1>3. Across(OneSender, Elements(d), Elements(y))
    BY BeforeTheOthers
  <1>4. Across(OneSender, Elements(x), Elements(d))
    BY BehindTheOlder
  <1>5. d \o y \in Seq(Byte) /\ Elements(d \o y) = Elements(d) \cup Elements(y) /\ Sorted(OneSender, d \o y)
    BY <1>1, <1>2, <1>3, ElementsConcat, SortedConcat
  <1>6. Across(OneSender, Elements(x), Elements(d \o y))
    BY <1>1, <1>4, <1>5 DEF Across
  <1>7. /\ Elements(x \o (d \o y)) = Elements(x) \cup Elements(d \o y)
        /\ Sorted(OneSender, x \o (d \o y))
    <2>1. PICK z : z = d \o y
      OBVIOUS
    <2>2. z \in Seq(Byte) /\ Sorted(OneSender, z) /\ Across(OneSender, Elements(x), Elements(z))
      BY <1>5, <1>6, <2>1
    <2>3. Elements(x \o z) = Elements(x) \cup Elements(z) /\ Sorted(OneSender, x \o z)
      BY <1>1, <2>2, ElementsConcat, SortedConcat
    <2> QED
      BY <2>1, <2>3, Zenon
  <1>8. Across(OneMsg, Elements(w), Elements(x \o (d \o y)))
    <2>1. Across(OneMsg, Elements(w), Elements(x) \cup Elements(y))
      BY <1>1 DEF OrderHolds
    <2> QED
      BY <1>5, <1>7, <2>1 DEF Across
  <1> QED
    BY <1>7, <1>8 DEF OrderHolds

(* Bytes of a message that is not queued go out.                           *)
LEMMA SendKeepsOrder ==
  ASSUME NEW w \in Seq(Byte), NEW q \in Seq(Byte), NEW d \in Seq(Byte),
         NEW s, NEW n, OrderHolds(w, q), AllOf(s, n, d), Sorted(OneMsg, d),
         NoneOf(s, n, w), NoneOf(s, n, q)
  PROVE  OrderHolds(w \o d, q)
  <1>1. Across(OneMsg, Elements(w), Elements(d)) /\ Across(OneMsg, Elements(d), Elements(q))
    BY ApartInMsg
  <1>2. Elements(w \o d) = Elements(w) \cup Elements(d) /\ Sorted(OneMsg, w \o d)
    BY <1>1, ElementsConcat, SortedConcat DEF OrderHolds
  <1>3. Across(OneMsg, Elements(w \o d), Elements(q))
    <2>1. Across(OneMsg, Elements(w), Elements(q))
      BY DEF OrderHolds
    <2> QED
      BY <1>1, <1>2, <2>1 DEF Across
  <1> QED
    BY <1>2, <1>3 DEF OrderHolds

(* The head of the queue goes out.                                         *)
LEMMA DrainKeepsOrder ==
  ASSUME NEW w \in Seq(Byte), NEW q \in Seq(Byte), NEW d \in Seq(Byte), OrderHolds(w, d \o q)
  PROVE  OrderHolds(w \o d, q)
  <1>1. /\ Elements(d \o q) = Elements(d) \cup Elements(q)
        /\ Sorted(OneSender, d) /\ Sorted(OneSender, q) /\ Across(OneSender, Elements(d), Elements(q))
    BY ElementsConcat, SortedConcat DEF OrderHolds
  <1>2. Elements(d) \subseteq Byte /\ Elements(q) \subseteq Byte
    BY ElementsIs
  <1>3. Across(OneMsg, Elements(d), Elements(q))
    <2> SUFFICES ASSUME NEW a \in Elements(d), NEW b \in Elements(q) PROVE <<a, b>> \in OneMsg
      BY DEF Across
    <2>1. <<a, b>> \in OneSender /\ a \in Byte /\ b \in Byte
      BY <1>1, <1>2 DEF Across
    <2> QED
      BY <2>1, SenderIsStronger
  <1>4. Sorted(OneMsg, d)
    <2> SUFFICES ASSUME NEW i \in 1..Len(d), NEW j \in 1..Len(d), i < j PROVE <<d[i], d[j]>> \in OneMsg
      BY DEF Sorted
    <2>1. <<d[i], d[j]>> \in OneSender /\ d[i] \in Byte /\ d[j] \in Byte
      BY <1>1, ElementOfSeq DEF Sorted
    <2> QED
      BY <2>1, SenderIsStronger
  <1>5. Across(OneMsg, Elements(w), Elements(d) \cup Elements(q))
    BY <1>1 DEF OrderHolds
  <1>6. Elements(w \o d) = Elements(w) \cup Elements(d) /\ Sorted(OneMsg, w \o d)
    <2>1. Across(OneMsg, Elements(w), Elements(d))
      BY <1>5 DEF Across
    <2> QED
      BY <1>4, <2>1, ElementsConcat, SortedConcat DEF OrderHolds
  <1>7. Across(OneMsg, Elements(w \o d), Elements(q))
    BY <1>3, <1>5, <1>6 DEF Across
  <1> QED
    BY <1>1, <1>6, <1>7 DEF OrderHolds

-----------------------------------------------------------------------------
(* The invariant of the sending side.                                      *)

Behind == FlattenSeq(qSendCache)

SockTypes ==
  /\ opened \in BOOLEAN
  /\ lkSending \in Senders \cup {"none", "task"}
  /\ qSendCache \in Seq(Blocks)
  /\ qSending \in Seq(Blocks)
  /\ pc \in [Senders -> {"out", "busy", "locked", "send", "rest"}]
  /\ pData \in [Senders -> Seq(Byte)]
  /\ sends \in [Senders -> 0..MaxSends]
  /\ taskPc \in {"out", "swap", "send"}
  /\ outWire \in Seq(Byte)

(* Who is past m_lkSending holds it, and what the task knows of the queue. *)
SockLockInv ==
  /\ \A s \in Senders : pc[s] \in {"locked", "send", "rest"} <=> lkSending = s
  /\ taskPc \in {"swap", "send"} <=> lkSending = "task"
  /\ taskPc = "swap" => qSending = <<>>
  /\ taskPc = "send" => qSending # <<>>

(* Thread s at p has d in hand, of its n-th message.                       *)
InHand(s, p, d, n) ==
  /\ p = "out" => d = <<>>
  /\ p # "out" => Len(d) \in 1..MsgLen /\ n \in 1..MaxSends
  /\ AllOf(s, n, d)
  /\ Sorted(OneMsg, d)
  /\ p \in {"busy", "locked", "send"} => d = Msg(s, n)

HandInv ==
  \A s \in Senders :
    /\ InHand(s, pc[s], pData[s], sends[s])
    /\ pc[s] = "rest" => Across(OneMsg, Elements(outWire), Elements(pData[s]))

(* Which messages have bytes on the wire and in the queues: no later one   *)
(* than the thread is at, and this one only when part of it went out.      *)
KeptHolds(w, q, c, p, n) ==
  /\ \A b \in w \cup q : b[2] <= n[b[1]]
  /\ \A b \in w \cup q : p[b[1]] \in {"busy", "locked", "send"} => b[2] < n[b[1]]
  /\ \A b \in q : p[b[1]] = "rest" => b[2] < n[b[1]]
  /\ \A b \in c : p[b[1]] \notin {"send", "rest"}

KeptInv == KeptHolds(Elements(outWire), Elements(Queued), Elements(Behind), pc, sends)

OrderInv == OrderHolds(outWire, Queued)

(* WholeOrNothing, with k kept and d in the hands.                         *)
WholeHolds(k, d) ==
  \A b \in k : \A i \in 1..MsgLen : <<b[1], b[2], i>> \in k \cup Elements(d[b[1]])

WholeInv ==
  /\ WholeHolds(Elements(outWire) \cup Elements(Queued), pData)
  /\ \A s \in Senders : pc[s] = "rest" =>
       \A i \in 1..MsgLen :
         <<s, sends[s], i>> \in (Elements(outWire) \cup Elements(Queued)) \cup Elements(pData[s])

SockInv ==
  SockTypes /\ SockLockInv /\ HandInv /\ KeptInv /\ OrderInv /\ WholeInv

LEMMA SockSizes ==
  /\ MaxSends \in Nat /\ MsgLen \in Nat /\ MsgLen > 0 /\ MemSize \in Nat /\ MsgLen <= MemSize
  /\ "none" \notin Senders /\ "task" \notin Senders
  BY SockAssumption

LEMMA StreamsAre ==
  ASSUME SockInv
  PROVE  /\ Queued \in Seq(Byte) /\ Behind \in Seq(Byte) /\ FlattenSeq(qSending) \in Seq(Byte)
         /\ Queued = FlattenSeq(qSending) \o Behind
         /\ Elements(Queued) = Elements(FlattenSeq(qSending)) \cup Elements(Behind)
         /\ outWire \in Seq(Byte)
         /\ Elements(outWire) \subseteq Byte /\ Elements(Queued) \subseteq Byte
         /\ Elements(Behind) \subseteq Byte
  <1>1. qSendCache \in Seq(Blocks) /\ qSending \in Seq(Blocks) /\ outWire \in Seq(Byte)
    BY DEF SockInv, SockTypes
  <1>2. /\ FlattenSeq(qSending) \in Seq(Byte) /\ FlattenSeq(qSendCache) \in Seq(Byte)
        /\ FlattenSeq(qSending \o qSendCache) = FlattenSeq(qSending) \o FlattenSeq(qSendCache)
        /\ FlattenSeq(qSending \o qSendCache) \in Seq(Byte)
    BY <1>1, QueuesAre
  <1>3. Elements(FlattenSeq(qSending) \o Behind) = Elements(FlattenSeq(qSending)) \cup Elements(Behind)
    <2>1. PICK g, c : g = FlattenSeq(qSending) /\ c = FlattenSeq(qSendCache)
      OBVIOUS
    <2>2. g \in Seq(Byte) /\ c \in Seq(Byte)
      BY <1>2, <2>1
    <2>3. Elements(g \o c) = Elements(g) \cup Elements(c)
      BY <2>2, ElementsConcat
    <2> QED
      BY <2>1, <2>3 DEF Behind
  <1> QED
    BY <1>1, <1>2, <1>3, ElementsIs DEF Behind, Queued

LEMMA MsgIs ==
  ASSUME NEW s \in Senders, NEW n \in 1..MaxSends
  PROVE  /\ Msg(s, n) \in Seq(Byte) /\ Len(Msg(s, n)) = MsgLen
         /\ AllOf(s, n, Msg(s, n)) /\ Sorted(OneMsg, Msg(s, n))
         /\ \A i \in 1..MsgLen : <<s, n, i>> \in Elements(Msg(s, n))
  <1>1. MsgLen \in Nat
    BY SockSizes
  <1>2. \A i \in 1..MsgLen : <<s, n, i>> \in Byte
    BY DEF Byte
  <1>3. Msg(s, n) \in [1..MsgLen -> Byte] /\ \A i \in 1..MsgLen : Msg(s, n)[i] = <<s, n, i>>
    BY <1>2 DEF Msg
  <1>4. Msg(s, n) \in Seq(Byte) /\ Len(Msg(s, n)) = MsgLen
    BY <1>1, <1>3
  <1>5. AllOf(s, n, Msg(s, n))
    BY <1>3, <1>4 DEF AllOf, Elements
  <1>6. Sorted(OneMsg, Msg(s, n))
    <2> SUFFICES ASSUME NEW i \in 1..MsgLen, NEW j \in 1..MsgLen, i < j
                 PROVE  <<Msg(s, n)[i], Msg(s, n)[j]>> \in OneMsg
      BY <1>4 DEF Sorted
    <2>1. <<s, n, i>> \in Byte /\ <<s, n, j>> \in Byte /\ <<s, n, i>>[3] = i /\ <<s, n, j>>[3] = j
      BY <1>2
    <2>2. << <<s, n, i>>, <<s, n, j>> >> \in OneMsg
      BY <2>1, OneMsgIs
    <2> QED
      BY <1>3, <2>2
  <1>7. \A i \in 1..MsgLen : <<s, n, i>> \in Elements(Msg(s, n))
    BY <1>3, <1>4 DEF Elements
  <1> QED
    BY <1>4, <1>5, <1>6, <1>7

LEMMA NothingInHand ==
  ASSUME NEW s, NEW n
  PROVE  InHand(s, "out", <<>>, n)
  <1>1. Len(<<>>) = 0 /\ Elements(<<>>) = {}
    BY ElementsEmpty
  <1> QED
    BY <1>1 DEF InHand, AllOf, Sorted

LEMMA MsgInHand ==
  ASSUME NEW s \in Senders, NEW n \in 1..MaxSends, NEW p \in {"busy", "locked", "send"}
  PROVE  InHand(s, p, Msg(s, n), n)
  BY MsgIs, SockSizes DEF InHand

(* What a thread with data in hand has.                                    *)
LEMMA HandIs ==
  ASSUME SockInv, NEW s \in Senders, pc[s] # "out"
  PROVE  /\ pData[s] \in Blocks /\ pData[s] \in Seq(Byte) /\ Len(pData[s]) \in 1..MsgLen
         /\ sends[s] \in 1..MaxSends /\ sends[s] \in Nat
         /\ AllOf(s, sends[s], pData[s]) /\ Sorted(OneMsg, pData[s])
         /\ Elements(pData[s]) \subseteq Byte
         /\ OnlyBefore(s, sends[s], Queued)
         /\ pc[s] # "rest" => NoneOf(s, sends[s], outWire)
         /\ NoneOf(s, sends[s], Queued)
  <1>1. /\ Len(pData[s]) \in 1..MsgLen /\ sends[s] \in 1..MaxSends
        /\ AllOf(s, sends[s], pData[s]) /\ Sorted(OneMsg, pData[s])
    BY DEF SockInv, HandInv, InHand
  <1>2. pData[s] \in Seq(Byte) /\ pc[s] \in {"out", "busy", "locked", "send", "rest"}
    BY DEF SockInv, SockTypes
  <1>3. pData[s] \in Blocks
    <2>1. Len(pData[s]) \in 1..MemSize
      BY <1>1, SockSizes
    <2> QED
      BY <1>2, <2>1 DEF Blocks
  <1>4. sends[s] \in Nat
    BY <1>1
  <1>5. OnlyBefore(s, sends[s], Queued)
    BY <1>2 DEF OnlyBefore, SockInv, KeptInv, KeptHolds
  <1>6. ASSUME pc[s] # "rest" PROVE NoneOf(s, sends[s], outWire)
    <2>1. OnlyBefore(s, sends[s], outWire)
      BY <1>2, <1>6 DEF OnlyBefore, SockInv, KeptInv, KeptHolds
    <2>2. outWire \in Seq(Byte)
      BY DEF SockInv, SockTypes
    <2> QED
      BY <1>4, <2>1, <2>2, BeforeIsNone
  <1>7. NoneOf(s, sends[s], Queued)
    BY <1>4, <1>5, StreamsAre, BeforeIsNone
  <1>8. Elements(pData[s]) \subseteq Byte
    BY <1>2, ElementsIs
  <1> QED
    BY <1>1, <1>2, <1>3, <1>4, <1>5, <1>6, <1>7, <1>8

LEMMA SockInitInv == SockInit => SockInv
  <1> SUFFICES ASSUME SockInit PROVE SockInv
    OBVIOUS
  <1>1. <<>> \in Seq(Byte) /\ <<>> \in Seq(Blocks) /\ Len(<<>>) = 0 /\ 0 \in 0..MaxSends
    BY EmptySeq, SockSizes
  <1>2. SockTypes
    BY <1>1 DEF SockInit, SockTypes
  <1>3. SockLockInv
    BY SockSizes DEF SockInit, SockLockInv
  <1>4. HandInv
    BY NothingInHand DEF SockInit, HandInv
  <1>5. Queued = <<>> /\ Behind = <<>> /\ outWire = <<>>
    <2>1. <<>> \o <<>> = <<>>
      BY <1>1, NothingAround
    <2> QED
      BY <2>1, FlattenEmpty DEF SockInit, Queued, Behind
  <1>6. KeptInv
    BY <1>5, ElementsEmpty DEF KeptInv, KeptHolds
  <1>7. OrderInv
    BY <1>1, <1>5, ElementsEmpty DEF OrderInv, OrderHolds, Sorted, Across
  <1>8. WholeInv
    BY <1>5, ElementsEmpty DEF WholeInv, WholeHolds, SockInit
  <1> QED
    BY <1>2, <1>3, <1>4, <1>6, <1>7, <1>8 DEF SockInv

(* Thread s returns, and of what is kept only the bytes d of its message   *)
(* are new; what is queued may go out.                                     *)
Leaves(w, q, c, p, n, s, p2, d, w2, q2, c2) ==
  /\ w \subseteq Byte /\ q \subseteq Byte /\ c \subseteq q
  /\ p2[s] = "out" /\ \A t \in Senders : t # s => p2[t] = p[t]
  /\ d \subseteq Byte /\ \A b \in d : b[1] = s /\ b[2] = n[s]
  /\ \A t \in Senders : n[t] \in Nat
  /\ w2 \subseteq w \cup d /\ q2 \subseteq q \cup d /\ c2 \subseteq c \cup d

LEMMA KeptStep ==
  ASSUME NEW w, NEW q, NEW c, NEW p, NEW n, KeptHolds(w, q, c, p, n),
         NEW s, NEW p2, NEW d, NEW w2, NEW q2, NEW c2,
         Leaves(w, q, c, p, n, s, p2, d, w2, q2, c2)
  PROVE  KeptHolds(w2, q2, c2, p2, n)
  <1>0. /\ w \subseteq Byte /\ q \subseteq Byte /\ c \subseteq q
        /\ p2[s] = "out" /\ \A t \in Senders : t # s => p2[t] = p[t]
        /\ d \subseteq Byte /\ \A b \in d : b[1] = s /\ b[2] = n[s]
        /\ \A t \in Senders : n[t] \in Nat
        /\ w2 \subseteq w \cup d /\ q2 \subseteq q \cup d /\ c2 \subseteq c \cup d
    BY DEF Leaves
  <1>1. \A b \in w \cup q : b[1] \in Senders
    BY <1>0, SockBytesAre
  <1>2. ASSUME NEW b \in w2 \cup q2 PROVE b[2] <= n[b[1]]
    <2>1. CASE b \in d
      <3>1. b[2] = n[b[1]] /\ b[2] \in Nat
        BY <1>0, <2>1, SockBytesAre
      <3> QED
        BY <3>1
    <2>2. CASE b \in w \cup q
      BY <2>2 DEF KeptHolds
    <2> QED
      BY <1>0, <2>1, <2>2
  <1>3. ASSUME NEW b \in w2 \cup q2, p2[b[1]] \in {"busy", "locked", "send"} PROVE b[2] < n[b[1]]
    <2>1. b[1] # s
      BY <1>0, <1>3
    <2>2. b \in w \cup q /\ p2[b[1]] = p[b[1]]
      BY <1>0, <1>1, <2>1
    <2> QED
      BY <1>3, <2>2 DEF KeptHolds
  <1>4. ASSUME NEW b \in q2, p2[b[1]] = "rest" PROVE b[2] < n[b[1]]
    <2>1. b[1] # s
      BY <1>0, <1>4
    <2>2. b \in q /\ p2[b[1]] = p[b[1]]
      BY <1>0, <1>1, <2>1
    <2> QED
      BY <1>4, <2>2 DEF KeptHolds
  <1>5. ASSUME NEW b \in c2 PROVE p2[b[1]] \notin {"send", "rest"}
    <2>1. CASE b[1] = s
      BY <1>0, <2>1
    <2>2. CASE b[1] # s
      <3>1. b \in c /\ p2[b[1]] = p[b[1]]
        BY <1>0, <1>1, <2>2
      <3> QED
        BY <3>1 DEF KeptHolds
    <2> QED
      BY <1>0, <2>1, <2>2
  <1> QED
    BY <1>2, <1>3, <1>4, <1>5 DEF KeptHolds

(* The types, the lock and the hands when a send() returns.                *)
LEMMA ReturnsStep ==
  ASSUME SockInv, NEW s \in Senders, pc[s] # "out", Returns(s),
         outWire' \in Seq(Byte), qSendCache' \in Seq(Blocks),
         UNCHANGED <<opened, qSending, taskPc>>,
         lkSending' = (IF pc[s] = "busy" THEN lkSending ELSE "none"),
         pc[s] = "busy" => UNCHANGED outWire
  PROVE  /\ SockTypes' /\ SockLockInv' /\ HandInv' /\ sends' = sends
         /\ pc'[s] = "out" /\ pData'[s] = <<>> /\ Elements(pData'[s]) = {}
         /\ \A t \in Senders : t # s => pc'[t] = pc[t] /\ pData'[t] = pData[t]
         /\ \A t \in Senders : pc'[t] = "rest" => pc[t] = "rest" /\ t # s
  <1>1. /\ pc' = [pc EXCEPT ![s] = "out"] /\ pData' = [pData EXCEPT ![s] = <<>>] /\ sends' = sends
        /\ SockTypes
    BY DEF Returns, SockInv
  <1>2. /\ pc'[s] = "out" /\ pData'[s] = <<>> /\ Elements(pData'[s]) = {}
        /\ \A t \in Senders : t # s => pc'[t] = pc[t] /\ pData'[t] = pData[t]
    BY <1>1, ElementsEmpty DEF SockTypes
  <1>3. SockTypes'
    <2>1. <<>> \in Seq(Byte)
      BY EmptySeq
    <2>2. pc' \in [Senders -> {"out", "busy", "locked", "send", "rest"}] /\ pData' \in [Senders -> Seq(Byte)]
      BY <1>1, <2>1 DEF SockTypes
    <2> QED
      BY <1>1, <2>2 DEF SockTypes
  <1>4. /\ \A t \in Senders : pc[t] \in {"locked", "send", "rest"} <=> lkSending = t
        /\ taskPc \in {"swap", "send"} <=> lkSending = "task"
    BY DEF SockInv, SockLockInv
  <1>5. pc[s] = "busy" \/ lkSending = s
    BY <1>1, <1>4 DEF SockTypes
  <1>6. SockLockInv'
    <2>1. \A t \in Senders : pc'[t] \in {"locked", "send", "rest"} <=> lkSending' = t
      BY <1>2, <1>4, <1>5, SockSizes
    <2>2. taskPc' \in {"swap", "send"} <=> lkSending' = "task"
      BY <1>4, <1>5, SockSizes
    <2> QED
      BY <2>1, <2>2 DEF SockInv, SockLockInv
  <1>7. HandInv'
    <2> SUFFICES ASSUME NEW t \in Senders
                 PROVE  /\ InHand(t, pc'[t], pData'[t], sends'[t])
                        /\ pc'[t] = "rest" => Across(OneMsg, Elements(outWire'), Elements(pData'[t]))
      BY DEF HandInv
    <2>1. CASE t = s
      BY <1>2, <2>1, NothingInHand
    <2>2. CASE t # s
      <3>1. InHand(t, pc[t], pData[t], sends[t]) /\ (pc[t] = "rest" => Across(OneMsg, Elements(outWire), Elements(pData[t])))
        BY DEF SockInv, HandInv
      <3>2. pc[t] = "rest" => outWire' = outWire
        BY <1>4, <1>5, <2>2
      <3> QED
        BY <1>1, <1>2, <2>2, <3>1, <3>2
    <2> QED
      BY <2>1, <2>2
  <1>8. \A t \in Senders : pc'[t] = "rest" => pc[t] = "rest" /\ t # s
    BY <1>2
  <1> QED
    BY <1>1, <1>2, <1>3, <1>6, <1>7, <1>8

(* What is kept only goes on.                                              *)
LEMMA KeptGoesOn ==
  ASSUME NEW w, NEW q, NEW c, NEW p, NEW n, KeptHolds(w, q, c, p, n),
         NEW w2, NEW q2, NEW c2,
         w2 \subseteq w \cup q, q2 \subseteq q, c2 \subseteq c
  PROVE  KeptHolds(w2, q2, c2, p, n)
  <1>1. w2 \cup q2 \subseteq w \cup q
    OBVIOUS
  <1> QED
    BY <1>1 DEF KeptHolds

(* d is new: nothing of message n of thread s was kept, and d with what    *)
(* stays in hand is all of it.                                             *)
Gains(k, f, s, n, f2, d) ==
  /\ \A b \in k : b[1] \in Senders
  /\ \A b \in k : ~ (b[1] = s /\ b[2] = n)
  /\ AllOf(s, n, f[s])
  /\ \A t \in Senders : t # s => f2[t] = f[t]
  /\ \A b \in d : b[1] = s /\ b[2] = n
  /\ d # {} => \A i \in 1..MsgLen : <<s, n, i>> \in d \cup Elements(f2[s])

LEMMA WholeGains ==
  ASSUME NEW k, NEW f, WholeHolds(k, f), NEW s, NEW n, NEW f2, NEW d,
         Gains(k, f, s, n, f2, d)
  PROVE  WholeHolds(k \cup d, f2)
  <1> SUFFICES ASSUME NEW b \in k \cup d, NEW i \in 1..MsgLen
               PROVE  <<b[1], b[2], i>> \in (k \cup d) \cup Elements(f2[b[1]])
    BY DEF WholeHolds
  <1>1. CASE b \in d
    BY <1>1 DEF Gains
  <1>2. CASE b \in k
    <2>1. <<b[1], b[2], i>> \in k \cup Elements(f[b[1]])
      BY <1>2 DEF WholeHolds
    <2>2. CASE b[1] = s
      <3>1. b[2] # n
        BY <1>2, <2>2 DEF Gains
      <3>2. <<b[1], b[2], i>> \notin Elements(f[s])
        <4>1. <<b[1], b[2], i>>[2] = b[2]
          OBVIOUS
        <4> QED
          BY <3>1, <4>1 DEF AllOf, Gains
      <3> QED
        BY <2>1, <2>2, <3>2
    <2>3. CASE b[1] # s
      BY <1>2, <2>1, <2>3 DEF Gains
    <2> QED
      BY <2>2, <2>3
  <1> QED
    BY <1>1, <1>2

(* What a whole message adds when a send() returns or goes on.             *)
LEMMA WholeStep ==
  ASSUME SockInv, NEW s \in Senders, pc[s] \in {"busy", "locked", "send"},
         \A t \in Senders : t # s => pData'[t] = pData[t],
         \A t \in Senders : t # s /\ pc'[t] = "rest" => pc[t] = "rest",
         sends' = sends,
         NEW d, \A b \in d : b[1] = s /\ b[2] = sends[s],
         d # {} => \A i \in 1..MsgLen : <<s, sends[s], i>> \in d \cup Elements(pData'[s]),
         pc'[s] = "rest" => d # {},
         Elements(outWire') \cup Elements(Queued') = (Elements(outWire) \cup Elements(Queued)) \cup d
  PROVE  WholeInv'
  <1> DEFINE k == Elements(outWire) \cup Elements(Queued)
  <1>1. \A b \in k : b[1] \in Senders
    BY StreamsAre, SockBytesAre
  <1>2. \A b \in k : ~ (b[1] = s /\ b[2] = sends[s])
    BY HandIs DEF NoneOf
  <1>3. AllOf(s, sends[s], pData[s])
    BY HandIs
  <1>4. WholeHolds(k, pData)
    BY DEF SockInv, WholeInv
  <1>5. \A t \in Senders : pc[t] = "rest" =>
          \A i \in 1..MsgLen : <<t, sends[t], i>> \in k \cup Elements(pData[t])
    BY DEF SockInv, WholeInv
  <1> HIDE DEF k
  <1>6. WholeHolds(k \cup d, pData')
    <2>1. PICK f, f2, n : f = pData /\ f2 = pData' /\ n = sends[s]
      OBVIOUS
    <2>2. WholeHolds(k, f) /\ Gains(k, f, s, n, f2, d)
      BY <1>1, <1>2, <1>3, <1>4, <2>1 DEF Gains
    <2>3. WholeHolds(k \cup d, f2)
      BY ONLY <2>2, WholeGains
    <2> QED
      BY <2>1, <2>3
  <1>7. \A t \in Senders : pc'[t] = "rest" =>
          \A i \in 1..MsgLen : <<t, sends[t], i>> \in (k \cup d) \cup Elements(pData'[t])
    BY <1>5
  <1>8. Elements(outWire') \cup Elements(Queued') = k \cup d
    BY DEF k
  <1> QED
    BY <1>6, <1>7, <1>8 DEF WholeInv

(* A message is queued at the end.                                         *)
LEMMA QueuesStep ==
  ASSUME SockInv, NEW s \in Senders, pc[s] \in {"busy", "locked"},
         qSendCache' = PushBack(qSendCache, pData[s]), Returns(s),
         UNCHANGED <<opened, qSending, taskPc, outWire>>,
         lkSending' = (IF pc[s] = "busy" THEN lkSending ELSE "none")
  PROVE  SockInv'
  <1> DEFINE d == pData[s]
             n == sends[s]
  <1>1. /\ d \in Blocks /\ d \in Seq(Byte) /\ n \in Nat /\ AllOf(s, n, d) /\ Sorted(OneMsg, d)
        /\ OnlyBefore(s, n, Queued) /\ NoneOf(s, n, outWire) /\ NoneOf(s, n, Queued)
        /\ Elements(d) \subseteq Byte /\ n \in 1..MaxSends
    BY HandIs
  <1>2. /\ Queued \in Seq(Byte) /\ Behind \in Seq(Byte) /\ FlattenSeq(qSending) \in Seq(Byte)
        /\ Queued = FlattenSeq(qSending) \o Behind /\ outWire \in Seq(Byte)
        /\ Elements(outWire) \subseteq Byte /\ Elements(Queued) \subseteq Byte
        /\ Elements(Behind) \subseteq Elements(Queued)
    BY StreamsAre
  <1>3. qSendCache \in Seq(Blocks) /\ qSending \in Seq(Blocks)
    BY DEF SockInv, SockTypes
  <1>4. d = Msg(s, n)
    BY DEF SockInv, HandInv, InHand
  <1> HIDE DEF d, n
  <1>5. qSendCache' \in Seq(Blocks) /\ Behind' = Behind \o d
    BY <1>1, <1>3, PushBackIs DEF Behind, d
  <1>6. Queued' = Queued \o d
    <2>1. FlattenSeq(qSending' \o qSendCache') = FlattenSeq(qSending) \o FlattenSeq(qSendCache')
      BY <1>3, <1>5, QueuesAre
    <2>2. Queued' = FlattenSeq(qSending) \o Behind'
      BY <2>1 DEF Queued, Behind
    <2>3. PICK g, c : g = FlattenSeq(qSending) /\ c = Behind
      OBVIOUS
    <2>4. g \in Seq(Byte) /\ c \in Seq(Byte) /\ d \in Seq(Byte)
      BY <1>1, <1>2, <2>3
    <2>5. (g \o c) \o d = g \o (c \o d)
      BY ONLY <2>4, BytesRegroup
    <2> QED
      BY <1>2, <1>5, <2>2, <2>3, <2>5, Zenon
  <1>7. /\ Elements(Queued') = Elements(Queued) \cup Elements(d)
        /\ Elements(Behind') = Elements(Behind) \cup Elements(d)
    <2>1. PICK q, c : q = Queued /\ c = Behind
      OBVIOUS
    <2>2. q \in Seq(Byte) /\ c \in Seq(Byte)
      BY <1>2, <2>1
    <2>3. Elements(q \o d) = Elements(q) \cup Elements(d) /\ Elements(c \o d) = Elements(c) \cup Elements(d)
      BY <1>1, <2>2, ElementsConcat
    <2> QED
      BY <1>5, <1>6, <2>1, <2>3
  <1>8. /\ SockTypes' /\ SockLockInv' /\ HandInv' /\ sends' = sends
        /\ pc'[s] = "out" /\ pData'[s] = <<>> /\ Elements(pData'[s]) = {}
        /\ \A t \in Senders : t # s => pc'[t] = pc[t] /\ pData'[t] = pData[t]
        /\ \A t \in Senders : pc'[t] = "rest" => pc[t] = "rest" /\ t # s
    BY <1>2, <1>5, ReturnsStep
  <1>9. KeptInv'
    <2>1. KeptHolds(Elements(outWire), Elements(Queued), Elements(Behind), pc, sends)
      BY DEF SockInv, KeptInv
    <2>2. \A b \in Elements(d) : b[1] = s /\ b[2] = sends[s]
      BY <1>1 DEF AllOf, n
    <2>3. \A t \in Senders : sends[t] \in Nat
      BY SockSizes DEF SockInv, SockTypes
    <2>4. Leaves(Elements(outWire), Elements(Queued), Elements(Behind), pc, sends, s, pc', Elements(d),
                 Elements(outWire), Elements(Queued'), Elements(Behind'))
      BY <1>1, <1>2, <1>7, <1>8, <2>2, <2>3 DEF Leaves
    <2>5. KeptHolds(Elements(outWire), Elements(Queued'), Elements(Behind'), pc', sends)
      BY ONLY <2>1, <2>4, KeptStep
    <2> QED
      BY <1>8, <2>5 DEF KeptInv
  <1>10. OrderInv'
    <2>1. <<>> \in Seq(Byte) /\ \A b \in Elements(<<>>) : b[1] # s
      BY EmptySeq, ElementsEmpty
    <2>2. PICK q, w : q = Queued /\ w = outWire
      OBVIOUS
    <2>3. q \in Seq(Byte) /\ w \in Seq(Byte) /\ OrderHolds(w, q) /\ OnlyBefore(s, n, q) /\ NoneOf(s, n, w)
      BY <1>1, <1>2, <2>2 DEF SockInv, OrderInv
    <2>4. q \o <<>> = q /\ d \o <<>> = d
      BY <1>1, <2>3, NothingAround
    <2>5. Across(OneMsg, Elements(w), Elements(d))
      BY <1>1, <2>3, ApartInMsg
    <2>6. OrderHolds(w, q \o <<>>)
      BY <2>3, <2>4
    <2>7. OrderHolds(w, q \o (d \o <<>>))
      BY <1>1, <2>1, <2>3, <2>5, <2>6, InsertKeepsOrder
    <2>8. OrderHolds(w, q \o d)
      BY <2>4, <2>7
    <2> QED
      BY <1>6, <2>2, <2>8 DEF OrderInv
  <1>11. WholeInv'
    <2>1. \A i \in 1..MsgLen : <<s, sends[s], i>> \in Elements(d)
      BY <1>1, <1>4, MsgIs DEF n
    <2>2. \A b \in Elements(d) : b[1] = s /\ b[2] = sends[s]
      BY <1>1 DEF AllOf, n
    <2>3. Elements(outWire') \cup Elements(Queued') = (Elements(outWire) \cup Elements(Queued)) \cup Elements(d)
      BY <1>7
    <2> QED
      BY <1>8, <2>1, <2>2, <2>3, WholeStep
  <1> QED
    BY <1>8, <1>9, <1>10, <1>11 DEF SockInv

-----------------------------------------------------------------------------
(* The steps of send().                                                    *)

LEMMA SendQueuesStep ==
  ASSUME SockInv, NEW s \in Senders, SendQueues(s) \/ SendQueuesBehind(s)
  PROVE  SockInv'
  <1>1. CASE SendQueues(s)
    BY <1>1, QueuesStep DEF SendQueues
  <1>2. CASE SendQueuesBehind(s)
    BY <1>2, QueuesStep DEF SendQueuesBehind
  <1> QED
    BY <1>1, <1>2

(* A new message is in hand.                                               *)
LEMMA SendTriesLockStep ==
  ASSUME SockInv, NEW s \in Senders, SendTriesLock(s)
  PROVE  SockInv'
  <1>1. PICK n : n = sends[s] + 1
    OBVIOUS
  <1>2. /\ SockTypes /\ SockLockInv /\ HandInv /\ KeptInv /\ OrderInv /\ WholeInv
        /\ pc[s] = "out" /\ sends[s] < MaxSends
        /\ UNCHANGED <<opened, qSendCache, qSending, taskPc, outWire>>
    BY DEF SendTriesLock, SockInv
  <1>3. /\ sends[s] \in 0..MaxSends /\ n \in 1..MaxSends
        /\ sends' = [sends EXCEPT ![s] = n] /\ sends'[s] = n
        /\ \A t \in Senders : t # s => sends'[t] = sends[t]
        /\ \A t \in Senders : sends[t] \in Nat
    BY <1>1, <1>2, SockSizes DEF SockTypes, SendTriesLock
  <1>4. Msg(s, n) \in Seq(Byte)
    BY <1>3, MsgIs
  <1>5. /\ pData' = [pData EXCEPT ![s] = Msg(s, n)] /\ pData'[s] = Msg(s, n)
        /\ \A t \in Senders : t # s => pData'[t] = pData[t]
    BY <1>2, <1>3 DEF SendTriesLock, SockTypes
  <1>6. /\ pc' \in [Senders -> {"out", "busy", "locked", "send", "rest"}]
        /\ pc'[s] \in {"busy", "locked"}
        /\ \A t \in Senders : t # s => pc'[t] = pc[t]
        /\ lkSending' \in {lkSending, s}
        /\ lkSending' # lkSending => lkSending = "none" /\ lkSending' = s /\ pc'[s] = "locked"
        /\ lkSending' = lkSending => pc'[s] = "busy" \/ lkSending = "none"
        /\ pc'[s] = "locked" <=> lkSending = "none"
        /\ lkSending = "none" => lkSending' = s
    BY <1>2, SockSizes DEF SendTriesLock, SockTypes
  <1>7. SockTypes'
    <2>1. pData' \in [Senders -> Seq(Byte)]
      BY <1>2, <1>4, <1>5 DEF SockTypes
    <2>2. sends' \in [Senders -> 0..MaxSends]
      BY <1>2, <1>3, SockSizes DEF SockTypes
    <2> QED
      BY <1>2, <1>6, <2>1, <2>2 DEF SockTypes
  <1>8. SockLockInv'
    BY <1>2, <1>6, SockSizes DEF SockLockInv
  <1>9. HandInv'
    <2> SUFFICES ASSUME NEW t \in Senders
                 PROVE  /\ InHand(t, pc'[t], pData'[t], sends'[t])
                        /\ pc'[t] = "rest" => Across(OneMsg, Elements(outWire'), Elements(pData'[t]))
      BY DEF HandInv
    <2>1. CASE t = s
      BY <1>3, <1>5, <1>6, <2>1, MsgInHand
    <2>2. CASE t # s
      BY <1>2, <1>3, <1>5, <1>6, <2>2 DEF HandInv
    <2> QED
      BY <2>1, <2>2
  <1>10. /\ Queued' = Queued /\ Behind' = Behind /\ outWire' = outWire
         /\ \A b \in Elements(outWire) \cup Elements(Queued) : b[1] \in Senders /\ b[2] \in Nat
         /\ \A b \in Elements(Behind) : b[1] \in Senders
    BY <1>2, StreamsAre, SockBytesAre DEF Queued, Behind
  <1>11. KeptInv'
    <2>1. PICK w, q, c : w = Elements(outWire) /\ q = Elements(Queued) /\ c = Elements(Behind)
      OBVIOUS
    <2>2. KeptHolds(w, q, c, pc, sends)
      BY <1>2, <2>1 DEF KeptInv
    <2>3. \A b \in w \cup q : b[1] \in Senders /\ b[2] \in Nat
      BY <1>10, <2>1
    <2>4. \A b \in w \cup q : b[2] <= sends'[b[1]] /\ (b[1] = s => b[2] < sends'[b[1]])
      <3> SUFFICES ASSUME NEW b \in w \cup q PROVE b[2] <= sends'[b[1]] /\ (b[1] = s => b[2] < sends'[b[1]])
        OBVIOUS
      <3>1. b[1] \in Senders /\ b[2] \in Nat /\ b[2] <= sends[b[1]]
        BY <2>2, <2>3 DEF KeptHolds
      <3>2. CASE b[1] = s
        BY <1>1, <1>3, <3>1, <3>2
      <3>3. CASE b[1] # s
        BY <1>3, <3>1, <3>3
      <3> QED
        BY <3>2, <3>3
    <2>5. \A b \in w \cup q : b[1] # s => pc'[b[1]] = pc[b[1]] /\ sends'[b[1]] = sends[b[1]]
      BY <1>3, <1>6, <2>3
    <2>6. \A b \in c : pc'[b[1]] \notin {"send", "rest"}
      BY <1>6, <1>10, <2>1, <2>2 DEF KeptHolds
    <2>7. \A b \in w \cup q : pc'[b[1]] \in {"busy", "locked", "send"} => b[2] < sends'[b[1]]
      BY <2>2, <2>4, <2>5 DEF KeptHolds
    <2>8. \A b \in q : pc'[b[1]] = "rest" => b[2] < sends'[b[1]]
      BY <2>2, <2>4, <2>5 DEF KeptHolds
    <2>9. KeptHolds(w, q, c, pc', sends')
      BY <2>4, <2>6, <2>7, <2>8 DEF KeptHolds
    <2> QED
      BY <1>10, <2>1, <2>9 DEF KeptInv
  <1>12. OrderInv'
    BY <1>2, <1>10 DEF OrderInv
  <1>13. WholeInv'
    <2>1. PICK k : k = Elements(outWire) \cup Elements(Queued)
      OBVIOUS
    <2>2. Elements(pData[s]) = {}
      BY <1>2, ElementsEmpty DEF HandInv, InHand
    <2>3. WholeHolds(k, pData)
      BY <1>2, <2>1 DEF WholeInv
    <2>4. \A b \in k : b[1] \in Senders
      BY <1>10, <2>1
    <2>5. WholeHolds(k, pData')
      BY <1>5, <2>2, <2>3, <2>4 DEF WholeHolds
    <2>6. \A t \in Senders : pc'[t] = "rest" =>
            \A i \in 1..MsgLen : <<t, sends'[t], i>> \in k \cup Elements(pData'[t])
      <3> SUFFICES ASSUME NEW t \in Senders, pc'[t] = "rest", NEW i \in 1..MsgLen
                   PROVE  <<t, sends'[t], i>> \in k \cup Elements(pData'[t])
        OBVIOUS
      <3>1. t # s /\ pc[t] = "rest" /\ sends'[t] = sends[t] /\ pData'[t] = pData[t]
        BY <1>3, <1>5, <1>6
      <3>2. <<t, sends[t], i>> \in k \cup Elements(pData[t])
        BY <1>2, <2>1, <3>1 DEF WholeInv
      <3> QED
        BY <3>1, <3>2
    <2> QED
      BY <1>10, <2>1, <2>5, <2>6 DEF WholeInv
  <1> QED
    BY <1>7, <1>8, <1>9, <1>11, <1>12, <1>13 DEF SockInv

LEMMA SendFindsNoneWaitingStep ==
  ASSUME SockInv, NEW s \in Senders, SendFindsNoneWaiting(s)
  PROVE  SockInv'
  <1>1. /\ SockTypes /\ SockLockInv /\ HandInv /\ KeptInv /\ OrderInv /\ WholeInv
        /\ pc[s] = "locked" /\ qSendCache = <<>> /\ pc' = [pc EXCEPT ![s] = "send"]
        /\ UNCHANGED <<opened, lkSending, qSendCache, qSending, pData, sends, taskPc, outWire>>
    BY DEF SendFindsNoneWaiting, SockInv
  <1>2. /\ pc' \in [Senders -> {"out", "busy", "locked", "send", "rest"}]
        /\ pc'[s] = "send" /\ \A t \in Senders : t # s => pc'[t] = pc[t]
    BY <1>1 DEF SockTypes
  <1>3. SockTypes'
    BY <1>1, <1>2 DEF SockTypes
  <1>4. SockLockInv'
    BY <1>1, <1>2 DEF SockLockInv
  <1>5. HandInv'
    <2> SUFFICES ASSUME NEW t \in Senders
                 PROVE  /\ InHand(t, pc'[t], pData[t], sends[t])
                        /\ pc'[t] = "rest" => Across(OneMsg, Elements(outWire), Elements(pData[t]))
      BY <1>1 DEF HandInv
    <2>1. InHand(t, pc[t], pData[t], sends[t]) /\ (pc[t] = "rest" => Across(OneMsg, Elements(outWire), Elements(pData[t])))
      BY <1>1 DEF HandInv
    <2>2. CASE t = s
      BY <1>1, <1>2, <2>1, <2>2 DEF InHand
    <2>3. CASE t # s
      BY <1>2, <2>1, <2>3
    <2> QED
      BY <2>2, <2>3
  <1>6. /\ Queued' = Queued /\ Behind' = Behind /\ Elements(Behind) = {}
        /\ \A b \in Elements(outWire) \cup Elements(Queued) : b[1] \in Senders
    BY <1>1, StreamsAre, SockBytesAre, FlattenEmpty, ElementsEmpty DEF Queued, Behind
  <1>7. KeptInv'
    <2>1. PICK w, q : w = Elements(outWire) /\ q = Elements(Queued)
      OBVIOUS
    <2>2. KeptHolds(w, q, {}, pc, sends) /\ \A b \in w \cup q : b[1] \in Senders
      BY <1>1, <1>6, <2>1 DEF KeptInv
    <2>3. \A b \in w \cup q : b[1] = s => b[2] < sends[b[1]]
      BY <1>1, <2>2 DEF KeptHolds
    <2>4. \A b \in w \cup q : b[1] # s => pc'[b[1]] = pc[b[1]]
      BY <1>2, <2>2
    <2>5. \A b \in w \cup q : pc'[b[1]] \in {"busy", "locked", "send"} => b[2] < sends[b[1]]
      BY <2>2, <2>3, <2>4 DEF KeptHolds
    <2>6. \A b \in q : pc'[b[1]] = "rest" => b[2] < sends[b[1]]
      BY <2>2, <2>3, <2>4 DEF KeptHolds
    <2>7. KeptHolds(w, q, {}, pc', sends)
      BY <2>2, <2>5, <2>6 DEF KeptHolds
    <2> QED
      BY <1>1, <1>6, <2>1, <2>7 DEF KeptInv
  <1>8. OrderInv'
    BY <1>1, <1>6 DEF OrderInv
  <1>9. WholeInv'
    <2>1. \A t \in Senders : pc'[t] = "rest" => pc[t] = "rest"
      BY <1>2
    <2> QED
      BY <1>1, <1>6, <2>1 DEF WholeInv
  <1> QED
    BY <1>3, <1>4, <1>5, <1>7, <1>8, <1>9 DEF SockInv

(* A message goes out, or the call fails and it goes nowhere.              *)
LEMMA SendsStep ==
  ASSUME SockInv, NEW s \in Senders, SendBlocks(s) \/ SendTakesAll(s)
  PROVE  SockInv'
  <1> DEFINE n == sends[s]
  <1>1. /\ pc[s] = "send" /\ lkSending' = "none" /\ Returns(s)
        /\ UNCHANGED <<opened, qSendCache, qSending, taskPc>>
        /\ outWire' = outWire \/ outWire' = outWire \o pData[s]
    BY DEF SendBlocks, SendTakesAll
  <1>2. /\ Queued \in Seq(Byte) /\ outWire \in Seq(Byte)
        /\ Elements(outWire) \subseteq Byte /\ Elements(Queued) \subseteq Byte
        /\ Elements(Behind) \subseteq Elements(Queued)
    BY StreamsAre
  <1>3. /\ pData[s] \in Seq(Byte) /\ AllOf(s, n, pData[s]) /\ Sorted(OneMsg, pData[s])
        /\ NoneOf(s, n, outWire) /\ NoneOf(s, n, Queued) /\ Elements(pData[s]) \subseteq Byte
        /\ n \in 1..MaxSends
    BY <1>1, HandIs
  <1>4. OrderHolds(outWire, Queued) /\ pData[s] = Msg(s, n)
    BY <1>1 DEF SockInv, OrderInv, HandInv, InHand
  <1>5. PICK d : /\ d \in Seq(Byte) /\ outWire' = outWire \o d
                 /\ AllOf(s, n, d) /\ Sorted(OneMsg, d)
                 /\ Elements(d) # {} => d = pData[s]
    <2>1. <<>> \in Seq(Byte) /\ Elements(<<>>) = {} /\ outWire \o <<>> = outWire /\ Len(<<>>) = 0
      BY <1>2, EmptySeq, ElementsEmpty, NothingAround
    <2>2. AllOf(s, n, <<>>) /\ Sorted(OneMsg, <<>>)
      BY <2>1 DEF AllOf, Sorted
    <2> HIDE DEF n
    <2> QED
      BY <1>1, <1>3, <2>1, <2>2
  <1> HIDE DEF n
  <1>6. outWire' \in Seq(Byte) /\ Elements(outWire') = Elements(outWire) \cup Elements(d)
    <2>1. PICK w : w = outWire
      OBVIOUS
    <2>2. w \in Seq(Byte)
      BY <1>2, <2>1
    <2>3. w \o d \in Seq(Byte) /\ Elements(w \o d) = Elements(w) \cup Elements(d)
      BY <1>5, <2>2, ElementsConcat, ConcatProperties
    <2> QED
      BY <1>5, <2>1, <2>3
  <1>7. Queued' = Queued /\ Behind' = Behind
    BY <1>1 DEF Queued, Behind
  <1>8. /\ SockTypes' /\ SockLockInv' /\ HandInv' /\ sends' = sends
        /\ pc'[s] = "out" /\ pData'[s] = <<>> /\ Elements(pData'[s]) = {}
        /\ \A t \in Senders : t # s => pc'[t] = pc[t] /\ pData'[t] = pData[t]
        /\ \A t \in Senders : pc'[t] = "rest" => pc[t] = "rest" /\ t # s
    <2>1. qSendCache' \in Seq(Blocks)
      BY <1>1 DEF SockInv, SockTypes
    <2> QED
      BY <1>1, <1>6, <2>1, ReturnsStep
  <1>9. \A b \in Elements(d) : b[1] = s /\ b[2] = sends[s]
    BY <1>5 DEF AllOf, n
  <1>10. KeptInv'
    <2>1. KeptHolds(Elements(outWire), Elements(Queued), Elements(Behind), pc, sends)
      BY DEF SockInv, KeptInv
    <2>2. \A t \in Senders : sends[t] \in Nat
      BY SockSizes DEF SockInv, SockTypes
    <2>3. Elements(d) \subseteq Byte
      BY <1>5, ElementsIs
    <2>4. Leaves(Elements(outWire), Elements(Queued), Elements(Behind), pc, sends, s, pc', Elements(d),
                 Elements(outWire'), Elements(Queued), Elements(Behind))
      BY <1>2, <1>6, <1>8, <1>9, <2>2, <2>3 DEF Leaves
    <2>5. KeptHolds(Elements(outWire'), Elements(Queued), Elements(Behind), pc', sends)
      BY ONLY <2>1, <2>4, KeptStep
    <2> QED
      BY <1>7, <1>8, <2>5 DEF KeptInv
  <1>11. OrderInv'
    <2>1. OrderHolds(outWire \o d, Queued)
      <3>1. PICK w, q : w = outWire /\ q = Queued
        OBVIOUS
      <3>2. w \in Seq(Byte) /\ q \in Seq(Byte) /\ OrderHolds(w, q) /\ NoneOf(s, n, w) /\ NoneOf(s, n, q)
        BY <1>2, <1>3, <1>4, <3>1
      <3>3. OrderHolds(w \o d, q)
        BY <1>5, <3>2, SendKeepsOrder
      <3> QED
        BY <3>1, <3>3
    <2> QED
      BY <1>5, <1>7, <2>1 DEF OrderInv
  <1>12. WholeInv'
    <2>1. Elements(d) # {} => \A i \in 1..MsgLen : <<s, sends[s], i>> \in Elements(d)
      BY <1>3, <1>4, <1>5, MsgIs DEF n
    <2>2. Elements(outWire') \cup Elements(Queued') = (Elements(outWire) \cup Elements(Queued)) \cup Elements(d)
      BY <1>6, <1>7
    <2> QED
      BY <1>1, <1>8, <1>9, <2>1, <2>2, WholeStep
  <1> QED
    BY <1>8, <1>10, <1>11, <1>12 DEF SockInv

(* The head of a message goes out, the rest stays in hand.                 *)
LEMMA SendTakesPartStep ==
  ASSUME SockInv, NEW s \in Senders, NEW k \in 1..(MsgLen - 1), SendTakesPart(s, k)
  PROVE  SockInv'
  <1>1. PICK d, n, h, r : d = pData[s] /\ n = sends[s] /\ h = SubSeq(d, 1, k) /\ r = SubSeq(d, k + 1, Len(d))
    OBVIOUS
  <1>2. /\ SockTypes /\ SockLockInv /\ HandInv /\ KeptInv /\ OrderInv /\ WholeInv
        /\ pc[s] = "send" /\ outWire' = outWire \o h
        /\ pData' = [pData EXCEPT ![s] = r] /\ pc' = [pc EXCEPT ![s] = "rest"]
        /\ UNCHANGED <<opened, lkSending, qSendCache, qSending, sends, taskPc>>
    BY <1>1 DEF SendTakesPart, SockInv, SockTypes
  <1>3. /\ d \in Seq(Byte) /\ AllOf(s, n, d) /\ Sorted(OneMsg, d) /\ n \in 1..MaxSends
        /\ NoneOf(s, n, outWire) /\ NoneOf(s, n, Queued) /\ OnlyBefore(s, n, Queued)
    BY <1>1, <1>2, HandIs
  <1>4. d = Msg(s, n) /\ Len(d) = MsgLen /\ \A i \in 1..MsgLen : <<s, n, i>> \in Elements(d)
    <2>1. d = Msg(s, n)
      BY <1>1, <1>2 DEF HandInv, InHand
    <2> QED
      BY <1>3, <2>1, MsgIs
  <1>5. h \in Seq(Byte) /\ r \in Seq(Byte) /\ Len(r) = MsgLen - k /\ d = h \o r /\ Len(h) = k
    <2>1. k \in 1..(Len(d) - 1)
      BY <1>4
    <2>2. h \in Seq(Byte) /\ r \in Seq(Byte) /\ Len(r) = Len(d) - k /\ d = h \o r
      BY <1>1, <1>3, <2>1, SubSeqSplits
    <2>3. Len(h \o r) = Len(h) + Len(r)
      BY <2>2, ConcatProperties
    <2>4. Len(h) = k
      BY <2>1, <2>2, <2>3, LenProperties
    <2> QED
      BY <1>4, <2>2, <2>4
  <1>6. /\ Elements(d) = Elements(h) \cup Elements(r)
        /\ Sorted(OneMsg, h) /\ Sorted(OneMsg, r) /\ Across(OneMsg, Elements(h), Elements(r))
    <2>1. /\ Elements(h \o r) = Elements(h) \cup Elements(r)
          /\ Sorted(OneMsg, h \o r) <=> Sorted(OneMsg, h) /\ Sorted(OneMsg, r) /\ Across(OneMsg, Elements(h), Elements(r))
      BY <1>5, ElementsConcat, SortedConcat
    <2> QED
      BY <1>3, <1>5, <2>1
  <1>7. AllOf(s, n, h) /\ AllOf(s, n, r)
    BY <1>3, <1>6 DEF AllOf
  <1>8. /\ Queued \in Seq(Byte) /\ outWire \in Seq(Byte) /\ Queued' = Queued /\ Behind' = Behind
        /\ Elements(outWire) \subseteq Byte /\ Elements(Queued) \subseteq Byte
        /\ Elements(Behind) \subseteq Elements(Queued)
    BY <1>2, StreamsAre DEF Queued, Behind
  <1>9. /\ outWire' \in Seq(Byte) /\ Elements(outWire') = Elements(outWire) \cup Elements(h)
        /\ Across(OneMsg, Elements(outWire), Elements(r))
        /\ OrderHolds(outWire', Queued)
    <2>1. PICK w, q : w = outWire /\ q = Queued
      OBVIOUS
    <2>2. w \in Seq(Byte) /\ q \in Seq(Byte) /\ OrderHolds(w, q) /\ NoneOf(s, n, w) /\ NoneOf(s, n, q)
      BY <1>2, <1>3, <1>8, <2>1 DEF OrderInv
    <2>3. w \o h \in Seq(Byte) /\ Elements(w \o h) = Elements(w) \cup Elements(h)
      BY <1>5, <2>2, ElementsConcat, ConcatProperties
    <2>4. Across(OneMsg, Elements(w), Elements(r))
      BY <1>5, <1>7, <2>2, ApartInMsg
    <2>5. OrderHolds(w \o h, q)
      BY <1>5, <1>6, <1>7, <2>2, SendKeepsOrder
    <2> QED
      BY <1>2, <2>1, <2>3, <2>4, <2>5
  <1>10. /\ pc' \in [Senders -> {"out", "busy", "locked", "send", "rest"}]
         /\ pData' \in [Senders -> Seq(Byte)]
         /\ pc'[s] = "rest" /\ pData'[s] = r
         /\ \A t \in Senders : t # s => pc'[t] = pc[t] /\ pData'[t] = pData[t]
    BY <1>2, <1>5 DEF SockTypes
  <1>11. SockTypes'
    BY <1>2, <1>9, <1>10 DEF SockTypes
  <1>12. SockLockInv'
    BY <1>2, <1>10 DEF SockLockInv
  <1>13. \A t \in Senders : t # s => pc[t] # "rest"
    <2>1. lkSending = s
      BY <1>2 DEF SockLockInv
    <2> QED
      BY <1>2, <2>1 DEF SockLockInv
  <1>14. HandInv'
    <2> SUFFICES ASSUME NEW t \in Senders
                 PROVE  /\ InHand(t, pc'[t], pData'[t], sends[t])
                        /\ pc'[t] = "rest" => Across(OneMsg, Elements(outWire'), Elements(pData'[t]))
      BY <1>2 DEF HandInv
    <2>1. CASE t = s
      <3>1. Len(r) \in 1..MsgLen
        BY <1>5, SockSizes
      <3>2. InHand(s, "rest", r, n)
        BY <1>3, <1>6, <1>7, <3>1 DEF InHand
      <3>3. Across(OneMsg, Elements(outWire'), Elements(r))
        BY <1>6, <1>9 DEF Across
      <3> QED
        BY <1>1, <1>10, <2>1, <3>2, <3>3
    <2>2. CASE t # s
      <3>1. InHand(t, pc[t], pData[t], sends[t])
        BY <1>2 DEF HandInv
      <3> QED
        BY <1>10, <1>13, <2>2, <3>1
    <2> QED
      BY <2>1, <2>2
  <1>15. KeptInv'
    <2>1. PICK w, q, c, e : /\ w = Elements(outWire) /\ q = Elements(Queued) /\ c = Elements(Behind)
                            /\ e = Elements(h)
      OBVIOUS
    <2>2. KeptHolds(w, q, c, pc, sends)
      BY <1>2, <2>1 DEF KeptInv
    <2>3. /\ \A b \in w \cup q : b[1] \in Senders
          /\ \A b \in c : b[1] \in Senders
          /\ \A b \in e : b[1] = s /\ b[2] = sends[s]
      BY <1>1, <1>7, <1>8, <2>1, SockBytesAre DEF AllOf
    <2>4. sends[s] <= sends[s]
      BY <1>1, <1>3
    <2>5. \A b \in (w \cup e) \cup q : b[2] <= sends[b[1]]
      BY <2>2, <2>3, <2>4 DEF KeptHolds
    <2>6. \A b \in (w \cup e) \cup q : pc'[b[1]] \in {"busy", "locked", "send"} => b[2] < sends[b[1]]
      BY <1>10, <2>2, <2>3 DEF KeptHolds
    <2>7. \A b \in q : pc'[b[1]] = "rest" => b[2] < sends[b[1]]
      BY <1>2, <1>10, <2>2, <2>3 DEF KeptHolds
    <2>8. \A b \in c : pc'[b[1]] \notin {"send", "rest"}
      BY <1>2, <1>10, <2>2, <2>3 DEF KeptHolds
    <2>9. KeptHolds(w \cup e, q, c, pc', sends)
      BY <2>5, <2>6, <2>7, <2>8 DEF KeptHolds
    <2> QED
      BY <1>2, <1>8, <1>9, <2>1, <2>9 DEF KeptInv
  <1>16. OrderInv'
    BY <1>8, <1>9 DEF OrderInv
  <1>17. WholeInv'
    <2>1. \A b \in Elements(h) : b[1] = s /\ b[2] = sends[s]
      BY <1>1, <1>7 DEF AllOf
    <2>2. \A i \in 1..MsgLen : <<s, sends[s], i>> \in Elements(h) \cup Elements(pData'[s])
      BY <1>1, <1>4, <1>6, <1>10
    <2>3. Elements(h) # {}
      <3>1. h[1] \in Elements(h)
        BY <1>5, ElementsIs
      <3> QED
        BY <3>1
    <2>4. Elements(outWire') \cup Elements(Queued') = (Elements(outWire) \cup Elements(Queued)) \cup Elements(h)
      BY <1>8, <1>9
    <2>5. /\ \A t \in Senders : t # s => pData'[t] = pData[t]
          /\ \A t \in Senders : t # s /\ pc'[t] = "rest" => pc[t] = "rest"
          /\ sends' = sends /\ pc[s] \in {"busy", "locked", "send"}
      BY <1>2, <1>10
    <2> QED
      BY <2>1, <2>2, <2>3, <2>4, <2>5, WholeStep
  <1> QED
    BY <1>11, <1>12, <1>14, <1>15, <1>16, <1>17 DEF SockInv

(* The rest is queued before what others queued meanwhile: none of that is *)
(* of this thread, and all that waits in m_qSending is older.              *)
LEMMA SendQueuesRestStep ==
  ASSUME SockInv, NEW s \in Senders, SendQueuesRest(s)
  PROVE  SockInv'
  <1>1. PICK d, n, g, c : /\ d = pData[s] /\ n = sends[s]
                          /\ g = FlattenSeq(qSending) /\ c = Behind
    OBVIOUS
  <1>2. /\ SockTypes /\ SockLockInv /\ HandInv /\ KeptInv /\ OrderInv /\ WholeInv
        /\ pc[s] = "rest" /\ qSendCache' = <<d>> \o qSendCache /\ lkSending' = "none" /\ Returns(s)
        /\ UNCHANGED <<opened, qSending, taskPc, outWire>>
        /\ qSendCache \in Seq(Blocks) /\ qSending \in Seq(Blocks)
    BY <1>1 DEF SendQueuesRest, SockInv, SockTypes
  <1>3. /\ d \in Blocks /\ d \in Seq(Byte) /\ AllOf(s, n, d) /\ Sorted(OneMsg, d) /\ n \in Nat
        /\ OnlyBefore(s, n, Queued) /\ Elements(d) \subseteq Byte
    BY <1>1, <1>2, HandIs
  <1>4. /\ Queued \in Seq(Byte) /\ c \in Seq(Byte) /\ g \in Seq(Byte) /\ Queued = g \o c
        /\ Elements(Queued) = Elements(g) \cup Elements(c) /\ outWire \in Seq(Byte)
        /\ Elements(outWire) \subseteq Byte /\ Elements(Queued) \subseteq Byte
    BY <1>1, StreamsAre
  <1>5. qSendCache' \in Seq(Blocks) /\ Behind' = d \o c
    BY <1>1, <1>2, <1>3, PushFrontIs DEF Behind
  <1>6. Queued' = g \o (d \o c)
    <2>1. FlattenSeq(qSending' \o qSendCache') = FlattenSeq(qSending) \o FlattenSeq(qSendCache')
      BY <1>2, <1>5, QueuesAre
    <2> QED
      BY <1>1, <1>5, <2>1 DEF Queued, Behind
  <1>7. /\ Elements(Behind') = Elements(Behind) \cup Elements(d)
        /\ Elements(Queued') = Elements(Queued) \cup Elements(d)
    <2>1. PICK z : z = d \o c
      OBVIOUS
    <2>2. z \in Seq(Byte) /\ Elements(z) = Elements(d) \cup Elements(c)
      BY <1>3, <1>4, <2>1, ElementsConcat, ConcatProperties
    <2>3. Elements(g \o z) = Elements(g) \cup Elements(z)
      BY <1>4, <2>2, ElementsConcat
    <2> QED
      BY <1>1, <1>4, <1>5, <1>6, <2>1, <2>2, <2>3
  <1>8. /\ SockTypes' /\ SockLockInv' /\ HandInv' /\ sends' = sends
        /\ pc'[s] = "out" /\ pData'[s] = <<>> /\ Elements(pData'[s]) = {}
        /\ \A t \in Senders : t # s => pc'[t] = pc[t] /\ pData'[t] = pData[t]
        /\ \A t \in Senders : pc'[t] = "rest" => pc[t] = "rest" /\ t # s
    BY <1>2, <1>4, <1>5, ReturnsStep
  <1>9. KeptInv'
    <2>1. KeptHolds(Elements(outWire), Elements(Queued), Elements(Behind), pc, sends)
      BY <1>2 DEF KeptInv
    <2>2. \A b \in Elements(d) : b[1] = s /\ b[2] = sends[s]
      BY <1>1, <1>3 DEF AllOf
    <2>3. \A t \in Senders : sends[t] \in Nat
      BY <1>2, SockSizes DEF SockTypes
    <2>4. Leaves(Elements(outWire), Elements(Queued), Elements(Behind), pc, sends, s, pc', Elements(d),
                 Elements(outWire), Elements(Queued'), Elements(Behind'))
      BY <1>1, <1>3, <1>4, <1>7, <1>8, <2>2, <2>3 DEF Leaves
    <2>5. KeptHolds(Elements(outWire), Elements(Queued'), Elements(Behind'), pc', sends)
      BY ONLY <2>1, <2>4, KeptStep
    <2> QED
      BY <1>2, <1>8, <2>5 DEF KeptInv
  <1>10. OrderInv'
    <2>1. PICK w : w = outWire
      OBVIOUS
    <2>2. w \in Seq(Byte) /\ OrderHolds(w, g \o c) /\ Across(OneMsg, Elements(w), Elements(d))
      BY <1>1, <1>2, <1>4, <2>1 DEF OrderInv, HandInv
    <2>3. OnlyBefore(s, n, g)
      BY <1>3, <1>4 DEF OnlyBefore
    <2>4. \A b \in Elements(c) : b[1] # s
      BY <1>1, <1>2 DEF KeptInv, KeptHolds
    <2>5. OrderHolds(w, g \o (d \o c))
      BY <1>3, <1>4, <2>2, <2>3, <2>4, InsertKeepsOrder
    <2> QED
      BY <1>2, <1>6, <2>1, <2>5 DEF OrderInv
  <1>11. WholeInv'
    <2>1. PICK k, e : k = Elements(outWire) \cup Elements(Queued) /\ e = Elements(d)
      OBVIOUS
    <2>2. /\ WholeHolds(k, pData)
          /\ \A t \in Senders : pc[t] = "rest" => \A i \in 1..MsgLen : <<t, sends[t], i>> \in k \cup Elements(pData[t])
      BY <1>2, <2>1 DEF WholeInv
    <2>3. \A b \in k : b[1] \in Senders
      BY <1>4, <2>1, SockBytesAre
    <2>4. \A b \in e : b[1] = s /\ b[2] = sends[s]
      BY <1>1, <1>3, <2>1 DEF AllOf
    <2>5. \A i \in 1..MsgLen : <<s, sends[s], i>> \in k \cup e
      BY <1>1, <1>2, <2>1, <2>2
    <2>6. WholeHolds(k \cup e, pData')
      <3> SUFFICES ASSUME NEW b \in k \cup e, NEW i \in 1..MsgLen
                   PROVE  <<b[1], b[2], i>> \in (k \cup e) \cup Elements(pData'[b[1]])
        BY DEF WholeHolds
      <3>1. CASE b \in e
        BY <2>4, <2>5, <3>1
      <3>2. CASE b \in k
        <4>1. <<b[1], b[2], i>> \in k \cup Elements(pData[b[1]])
          BY <2>2, <3>2 DEF WholeHolds
        <4>2. b[1] = s => pData[b[1]] = d
          BY <1>1
        <4>3. b[1] # s => pData'[b[1]] = pData[b[1]]
          BY <1>8, <2>3, <3>2
        <4> QED
          BY <2>1, <4>1, <4>2, <4>3
      <3> QED
        BY <3>1, <3>2
    <2>7. \A t \in Senders : pc'[t] = "rest" =>
            \A i \in 1..MsgLen : <<t, sends[t], i>> \in (k \cup e) \cup Elements(pData'[t])
      BY <1>8, <2>2
    <2>8. Elements(outWire') \cup Elements(Queued') = k \cup e
      BY <1>2, <1>7, <2>1
    <2> QED
      BY <1>8, <2>6, <2>7, <2>8 DEF WholeInv
  <1> QED
    BY <1>8, <1>9, <1>10, <1>11 DEF SockInv

-----------------------------------------------------------------------------
(* The steps of handle_can_send().                                         *)

(* No thread is past m_lkSending, and h goes out from the front.           *)
LEMMA DrainStep ==
  ASSUME SockInv, \A s \in Senders : pc[s] \in {"out", "busy"},
         UNCHANGED <<opened, senderVars>>,
         qSendCache' \in Seq(Blocks), qSending' \in Seq(Blocks),
         taskPc' \in {"out", "swap", "send"}, lkSending' \in {"none", "task"},
         SockLockInv',
         NEW h \in Seq(Byte), outWire' = outWire \o h, Queued = h \o Queued',
         Elements(Behind') \subseteq Elements(Behind)
  PROVE  SockInv'
  <1>1. /\ SockTypes /\ SockLockInv /\ HandInv /\ KeptInv /\ OrderInv /\ WholeInv
        /\ pc' = pc /\ pData' = pData /\ sends' = sends /\ opened' = opened
    BY DEF SockInv, senderVars
  <1>2. PICK w, q, r : w = outWire /\ q = Queued /\ r = Queued'
    OBVIOUS
  <1>3. w \in Seq(Byte) /\ q \in Seq(Byte) /\ r \in Seq(Byte) /\ q = h \o r
    <2>1. w \in Seq(Byte) /\ q \in Seq(Byte)
      BY <1>2, StreamsAre
    <2>2. FlattenSeq(qSending' \o qSendCache') \in Seq(Byte)
      BY QueuesAre
    <2> QED
      BY <1>2, <2>1, <2>2 DEF Queued
  <1>4. /\ outWire' = w \o h /\ w \o h \in Seq(Byte)
        /\ Elements(w \o h) = Elements(w) \cup Elements(h)
        /\ Elements(q) = Elements(h) \cup Elements(r)
    BY <1>2, <1>3, ElementsConcat, ConcatProperties
  <1>5. SockTypes'
    BY <1>1, <1>4 DEF SockTypes
  <1>6. HandInv'
    BY <1>1 DEF HandInv
  <1>7. KeptInv'
    <2>1. KeptHolds(Elements(w), Elements(q), Elements(Behind), pc, sends)
      BY <1>1, <1>2 DEF KeptInv
    <2>2. KeptHolds(Elements(w \o h), Elements(r), Elements(Behind'), pc, sends)
      <3>1. /\ Elements(w \o h) \subseteq Elements(w) \cup Elements(q)
            /\ Elements(r) \subseteq Elements(q)
        BY <1>4
      <3> QED
        BY <2>1, <3>1, KeptGoesOn
    <2> QED
      BY <1>1, <1>2, <1>4, <2>2 DEF KeptInv
  <1>8. OrderInv'
    <2>1. OrderHolds(w, h \o r)
      BY <1>1, <1>2, <1>3 DEF OrderInv
    <2>2. OrderHolds(w \o h, r)
      BY <1>3, <2>1, DrainKeepsOrder
    <2> QED
      BY <1>2, <1>4, <2>2 DEF OrderInv
  <1>9. WholeInv'
    <2>1. Elements(w \o h) \cup Elements(r) = Elements(w) \cup Elements(q)
      BY <1>4
    <2>2. WholeHolds(Elements(w) \cup Elements(q), pData)
      BY <1>1, <1>2 DEF WholeInv
    <2>3. WholeHolds(Elements(outWire') \cup Elements(Queued'), pData')
      BY <1>1, <1>2, <1>4, <2>1, <2>2
    <2>4. \A s \in Senders : pc'[s] # "rest"
      BY <1>1
    <2> QED
      BY <2>3, <2>4 DEF WholeInv
  <1> QED
    BY <1>5, <1>6, <1>7, <1>8, <1>9 DEF SockInv

(* What the task knows before a step.                                      *)
LEMMA TaskFinds ==
  ASSUME SockInv, taskPc \in {"swap", "send"} \/ lkSending = "none"
  PROVE  /\ SockTypes /\ SockLockInv
         /\ \A s \in Senders : pc[s] \in {"out", "busy"}
         /\ taskPc \in {"swap", "send"} => lkSending = "task"
         /\ taskPc = "send" => qSending # <<>>
         /\ taskPc = "swap" => qSending = <<>>
         /\ qSendCache \in Seq(Blocks) /\ qSending \in Seq(Blocks)
         /\ Queued \in Seq(Byte) /\ outWire \in Seq(Byte)
         /\ <<>> \in Seq(Byte) /\ outWire \o <<>> = outWire /\ <<>> \o Queued = Queued
         /\ Queued = FlattenSeq(qSending) \o Behind /\ Behind \in Seq(Byte)
  <1>1. SockTypes /\ SockLockInv
    BY DEF SockInv
  <1>2. Queued \in Seq(Byte) /\ outWire \in Seq(Byte) /\ Queued = FlattenSeq(qSending) \o Behind /\ Behind \in Seq(Byte)
    BY StreamsAre
  <1>3. <<>> \in Seq(Byte) /\ outWire \o <<>> = outWire /\ <<>> \o Queued = Queued
    BY <1>2, EmptySeq, NothingAround
  <1>4. taskPc \in {"swap", "send"} => lkSending = "task"
    BY <1>1 DEF SockLockInv
  <1>5. \A s \in Senders : pc[s] \in {"out", "busy"}
    BY <1>1, <1>4, SockSizes DEF SockLockInv, SockTypes
  <1> QED
    BY <1>1, <1>2, <1>3, <1>4, <1>5 DEF SockTypes, SockLockInv

(* The task takes the lock, or gives it up.                                *)
LEMMA TaskWaitsStep ==
  ASSUME SockInv, TaskLocks \/ TaskBlocks
  PROVE  SockInv'
  <1>1. taskPc \in {"swap", "send"} \/ lkSending = "none"
    BY DEF TaskLocks, TaskBlocks
  <1>2. /\ SockTypes /\ SockLockInv /\ \A s \in Senders : pc[s] \in {"out", "busy"}
        /\ taskPc = "send" => qSending # <<>>
        /\ qSendCache \in Seq(Blocks) /\ qSending \in Seq(Blocks)
        /\ <<>> \in Seq(Byte) /\ outWire \o <<>> = outWire /\ <<>> \o Queued = Queued
    BY <1>1, TaskFinds
  <1>3. /\ UNCHANGED <<opened, qSendCache, qSending, senderVars, outWire>>
        /\ \/ lkSending' = "task" /\ taskPc' = IF qSending = <<>> THEN "swap" ELSE "send"
           \/ lkSending' = "none" /\ taskPc' = "out"
    BY DEF TaskLocks, TaskBlocks, TaskReturns
  <1>4. SockLockInv'
    <2>1. pc' = pc /\ qSending' = qSending
      BY <1>3 DEF senderVars
    <2> QED
      BY <1>2, <1>3, <2>1, SockSizes DEF SockLockInv
  <1>5. Queued' = Queued /\ Behind' = Behind
    BY <1>3 DEF Queued, Behind
  <1> QED
    BY <1>2, <1>3, <1>4, <1>5, DrainStep

(* What waited in m_qSendCache waits in m_qSending.                        *)
LEMMA TaskSwapsStep ==
  ASSUME SockInv, TaskSwaps
  PROVE  SockInv'
  <1>1. taskPc \in {"swap", "send"} \/ lkSending = "none"
    BY DEF TaskSwaps
  <1>2. /\ SockTypes /\ SockLockInv /\ \A s \in Senders : pc[s] \in {"out", "busy"}
        /\ taskPc \in {"swap", "send"} => lkSending = "task"
        /\ taskPc = "swap" => qSending = <<>>
        /\ qSendCache \in Seq(Blocks) /\ qSending \in Seq(Blocks)
        /\ <<>> \in Seq(Byte) /\ outWire \o <<>> = outWire /\ <<>> \o Queued = Queued
        /\ Queued = FlattenSeq(qSending) \o Behind /\ Behind \in Seq(Byte)
    BY <1>1, TaskFinds
  <1>3. /\ UNCHANGED <<opened, senderVars, outWire>> /\ qSending = <<>>
        /\ qSending' = qSendCache /\ qSendCache' = <<>>
        /\ \/ qSendCache = <<>> /\ lkSending' = "none" /\ taskPc' = "out"
           \/ qSendCache # <<>> /\ lkSending' = "task" /\ taskPc' = "send"
    BY <1>2 DEF TaskSwaps, TaskReturns
  <1>4. SockLockInv'
    <2>1. pc' = pc
      BY <1>3 DEF senderVars
    <2> QED
      BY <1>2, <1>3, <2>1, SockSizes DEF SockLockInv
  <1>5. Queued' = Queued /\ Elements(Behind') = {}
    <2>1. Behind' = <<>> /\ FlattenSeq(qSending) = <<>>
      BY <1>3, FlattenEmpty DEF Behind
    <2>2. qSending' \o qSendCache' = qSendCache
      BY <1>2, <1>3, NothingAround
    <2>3. Queued' = Behind
      BY <2>2 DEF Queued, Behind
    <2>4. Queued = Behind
      BY <1>2, <2>1, NothingAround
    <2> QED
      BY <2>1, <2>3, <2>4, ElementsEmpty
  <1>6. <<>> \in Seq(Blocks)
    BY EmptySeq
  <1> QED
    BY <1>2, <1>3, <1>4, <1>5, <1>6, DrainStep

(* The front block goes out, or its head does.                             *)
LEMMA TaskSendsStep ==
  ASSUME SockInv, TaskSendsBlock \/ \E k \in 1..(MemSize - 1) : TaskSendsPart(k)
  PROVE  SockInv'
  <1>1. taskPc = "send"
    BY DEF TaskSendsBlock, TaskSendsPart
  <1>2. /\ SockTypes /\ SockLockInv /\ \A s \in Senders : pc[s] \in {"out", "busy"}
        /\ lkSending = "task" /\ qSending # <<>>
        /\ qSendCache \in Seq(Blocks) /\ qSending \in Seq(Blocks)
        /\ Queued = FlattenSeq(qSending) \o Behind /\ Behind \in Seq(Byte)
    BY <1>1, TaskFinds
  <1>3. /\ UNCHANGED <<opened, qSendCache, senderVars>>
        /\ \/ lkSending' = "none" /\ taskPc' = "out"
           \/ lkSending' = "task" /\ taskPc' = IF qSending' = <<>> THEN "swap" ELSE "send"
    BY <1>2 DEF TaskSendsBlock, TaskSendsPart, TaskReturns
  <1>4. PICK h : /\ h \in Seq(Byte) /\ outWire' = outWire \o h /\ qSending' \in Seq(Blocks)
                 /\ FlattenSeq(qSending) = h \o FlattenSeq(qSending')
    <2>1. CASE TaskSendsBlock
      <3>1. /\ Head(qSending) \in Blocks /\ Tail(qSending) \in Seq(Blocks)
            /\ FlattenSeq(qSending) = Head(qSending) \o FlattenSeq(Tail(qSending))
        BY <1>2, PopIs
      <3>2. Head(qSending) \in Seq(Byte)
        BY <3>1 DEF Blocks
      <3>3. outWire' = outWire \o Head(qSending) /\ qSending' = Tail(qSending)
        BY <2>1 DEF TaskSendsBlock
      <3> QED
        BY <3>1, <3>2, <3>3, Zenon
    <2>2. CASE \E k \in 1..(MemSize - 1) : TaskSendsPart(k)
      <3>1. PICK k \in 1..(MemSize - 1) : TaskSendsPart(k)
        BY <2>2
      <3>2. PICK b, x, y : b = Head(qSending) /\ x = SubSeq(b, 1, k) /\ y = SubSeq(b, k + 1, Len(b))
        OBVIOUS
      <3>3. k < Len(b) /\ outWire' = outWire \o x /\ qSending' = <<y>> \o Tail(qSending)
        BY <3>1, <3>2 DEF TaskSendsPart
      <3>4. Len(b) \in Nat
        BY <1>2, <3>2, PopIs, LenProperties DEF Blocks
      <3>5. k \in 1..(Len(b) - 1)
        BY <3>3, <3>4, SockSizes
      <3>6. /\ x \in Seq(Byte) /\ <<y>> \o Tail(qSending) \in Seq(Blocks)
            /\ FlattenSeq(qSending) = x \o FlattenSeq(<<y>> \o Tail(qSending))
        <4>1. PICK q : q = qSending
          OBVIOUS
        <4>2. q \in Seq(Blocks) /\ q # <<>> /\ b = Head(q)
          BY <1>2, <3>2, <4>1
        <4>3. /\ x \in Seq(Byte) /\ <<y>> \o Tail(q) \in Seq(Blocks)
              /\ FlattenSeq(q) = x \o FlattenSeq(<<y>> \o Tail(q))
          BY ONLY <3>2, <3>5, <4>2, CutIs
        <4> QED
          BY <4>1, <4>3
      <3> QED
        BY <3>3, <3>6, Zenon
    <2> QED
      BY <2>1, <2>2
  <1>5. Behind' = Behind
    BY <1>3 DEF Behind
  <1>6. Queued = h \o Queued'
    <2>1. PICK f, c : f = FlattenSeq(qSending') /\ c = Behind
      OBVIOUS
    <2>2. h \in Seq(Byte) /\ f \in Seq(Byte) /\ c \in Seq(Byte)
      BY <1>2, <1>4, <2>1, QueueIs
    <2>3. (h \o f) \o c = h \o (f \o c)
      BY ONLY <2>2, BytesRegroup
    <2>4. FlattenSeq(qSending' \o qSendCache') = FlattenSeq(qSending') \o FlattenSeq(qSendCache')
      BY <1>2, <1>3, <1>4, QueuesAre
    <2>5. Queued' = f \o c
      BY <1>5, <2>1, <2>4 DEF Queued, Behind
    <2> QED
      BY <1>2, <1>4, <2>1, <2>3, <2>5, Zenon
  <1>7. SockLockInv'
    <2>1. pc' = pc
      BY <1>3 DEF senderVars
    <2> QED
      BY <1>2, <1>3, <2>1, SockSizes DEF SockLockInv
  <1>8. taskPc' \in {"out", "swap", "send"} /\ lkSending' \in {"none", "task"} /\ qSendCache' \in Seq(Blocks)
    BY <1>2, <1>3
  <1>9. Elements(Behind') \subseteq Elements(Behind)
    BY <1>5
  <1> QED
    BY <1>2, <1>3, <1>4, <1>6, <1>7, <1>8, <1>9, DrainStep

(* The connection dies, or nothing happens.                                *)
LEMMA SockStands ==
  ASSUME SockInv, opened' \in BOOLEAN,
         UNCHANGED <<lkSending, qSendCache, qSending, senderVars, taskPc, outWire>>
  PROVE  SockInv'
  <1>1. /\ pc' = pc /\ pData' = pData /\ sends' = sends /\ lkSending' = lkSending /\ taskPc' = taskPc
        /\ qSendCache' = qSendCache /\ qSending' = qSending /\ outWire' = outWire
        /\ Queued' = Queued /\ Behind' = Behind
    BY DEF senderVars, Queued, Behind
  <1>2. SockTypes' /\ SockLockInv' /\ HandInv'
    BY <1>1 DEF SockInv, SockTypes, SockLockInv, HandInv
  <1>3. KeptInv' /\ OrderInv' /\ WholeInv'
    BY <1>1 DEF SockInv, KeptInv, OrderInv, WholeInv
  <1> QED
    BY <1>2, <1>3 DEF SockInv

LEMMA SockInvStep == SockInv /\ [SockNext]_sockVars => SockInv'
  <1> SUFFICES ASSUME SockInv, [SockNext]_sockVars PROVE SockInv'
    OBVIOUS
  <1>1. ASSUME NEW s \in Senders, SendTriesLock(s) PROVE SockInv'
    BY <1>1, SendTriesLockStep
  <1>2. ASSUME NEW s \in Senders, SendGoesOn(s) PROVE SockInv'
    <2>1. CASE SendQueues(s) \/ SendQueuesBehind(s)
      BY <2>1, SendQueuesStep
    <2>2. CASE SendFindsNoneWaiting(s)
      BY <2>2, SendFindsNoneWaitingStep
    <2>3. CASE SendBlocks(s) \/ SendTakesAll(s)
      BY <2>3, SendsStep
    <2>4. CASE SendQueuesRest(s)
      BY <2>4, SendQueuesRestStep
    <2>5. CASE \E k \in 1..(MsgLen - 1) : SendTakesPart(s, k)
      BY <2>5, SendTakesPartStep
    <2> QED
      BY <1>2, <2>1, <2>2, <2>3, <2>4, <2>5 DEF SendGoesOn
  <1>3. CASE TaskStep
    BY <1>3, TaskWaitsStep, TaskSwapsStep, TaskSendsStep DEF TaskStep
  <1>4. CASE Dies
    BY <1>4, SockStands DEF Dies
  <1>5. CASE UNCHANGED sockVars
    BY <1>5, SockStands DEF sockVars, SockInv, SockTypes
  <1> QED
    BY <1>1, <1>2, <1>3, <1>4, <1>5 DEF SockNext

LEMMA SockInvariance == SockSpec => []SockInv
  BY SockInitInv, SockInvStep, PTL DEF SockSpec

-----------------------------------------------------------------------------
(* What the invariant gives.                                               *)

LEMMA SockTypesHold == SockInv => SockTypeOK
  <1> SUFFICES ASSUME SockInv PROVE SockTypeOK
    OBVIOUS
  <1>1. SockTypes
    BY DEF SockInv
  <1>2. \A q \in Seq(Blocks) : ToSet(q) \subseteq Blocks
    <2> SUFFICES ASSUME NEW q \in Seq(Blocks) PROVE ToSet(q) \subseteq Blocks
      OBVIOUS
    <2>1. Elements(q) \subseteq Blocks /\ Elements(q) = ToSet(q)
      BY ElementsIs
    <2> QED
      BY <2>1
  <1>3. ToSet(qSendCache) \cup ToSet(qSending) \subseteq Blocks
    BY <1>1, <1>2 DEF SockTypes
  <1>4. \A b \in ToSet(qSendCache) \cup ToSet(qSending) : b \in Seq(Byte) /\ Len(b) \in 1..MemSize
    BY <1>3 DEF Blocks
  <1> QED
    BY <1>1, <1>4 DEF SockTypes, SockTypeOK

LEMMA OnceHolds == SockInv => EachByteOnce
  <1> SUFFICES ASSUME SockInv PROVE EachByteOnce
    OBVIOUS
  <1>1. PICK w, q : w = outWire /\ q = Queued
    OBVIOUS
  <1>2. w \in Seq(Byte) /\ q \in Seq(Byte) /\ OrderHolds(w, q)
    BY <1>1, StreamsAre DEF SockInv, OrderInv
  <1>3. PICK x : x = w \o q
    OBVIOUS
  <1>4. x \in Seq(Byte) /\ Sorted(OneMsg, x)
    <2>1. Sorted(OneMsg, q)
      <3> SUFFICES ASSUME NEW i \in 1..Len(q), NEW j \in 1..Len(q), i < j PROVE <<q[i], q[j]>> \in OneMsg
        BY DEF Sorted
      <3>1. <<q[i], q[j]>> \in OneSender /\ q[i] \in Byte /\ q[j] \in Byte
        BY <1>2, ElementOfSeq DEF OrderHolds, Sorted
      <3> QED
        BY <3>1, SenderIsStronger
    <2> QED
      BY <1>2, <1>3, <2>1, ElementsConcat, SortedConcat DEF OrderHolds
  <1>5. Len(x) \in Nat /\ DOMAIN x = 1..Len(x) /\ \A i \in 1..Len(x) : x[i] \in Byte
    BY <1>4, LenProperties, ElementOfSeq
  <1>6. ASSUME NEW i \in 1..Len(x), NEW j \in 1..Len(x), i < j PROVE x[i] # x[j]
    <2>1. <<x[i], x[j]>> \in OneMsg /\ x[i] \in Byte /\ x[j] \in Byte
      BY <1>4, <1>5, <1>6 DEF Sorted
    <2>2. x[i][3] \in Nat
      BY <2>1, SockBytesAre
    <2>3. x[i] = x[j] => x[i][3] < x[i][3]
      BY <2>1, OneMsgIs
    <2> QED
      BY <2>2, <2>3
  <1>7. \A i, j \in DOMAIN x : x[i] = x[j] => i = j
    BY <1>5, <1>6
  <1>8. IsInjective(x)
    BY <1>7 DEF IsInjective
  <1> QED
    BY <1>1, <1>3, <1>8 DEF EachByteOnce

LEMMA QueuesHold == SockInv => QueuesKeepOrder
  <1> SUFFICES ASSUME SockInv, NEW s \in Senders PROVE Ordered(s, Queued)
    BY DEF QueuesKeepOrder
  <1>1. PICK q : q = Queued
    OBVIOUS
  <1>2. q \in Seq(Byte) /\ Sorted(OneSender, q)
    BY <1>1, StreamsAre DEF SockInv, OrderInv, OrderHolds
  <1>3. ASSUME NEW i \in 1..Len(q), NEW j \in 1..Len(q), i < j, q[i][1] = s, q[j][1] = s
        PROVE  q[i][2] < q[j][2] \/ (q[i][2] = q[j][2] /\ q[i][3] < q[j][3])
    <2>1. <<q[i], q[j]>> \in OneSender /\ q[i] \in Byte /\ q[j] \in Byte
      BY <1>2, <1>3, ElementOfSeq DEF Sorted
    <2> QED
      BY <1>3, <2>1, OneSenderIs
  <1> QED
    BY <1>1, <1>3 DEF Ordered

LEMMA WholeIs == SockInv => WholeOrNothing
  <1> SUFFICES ASSUME SockInv PROVE WholeOrNothing
    OBVIOUS
  <1>1. /\ Elements(outWire) = ToSet(outWire) /\ Elements(Queued) = ToSet(Queued)
        /\ \A b \in Elements(outWire) \cup Elements(Queued) : b[1] \in Senders
    <2>1. Queued \in Seq(Byte) /\ outWire \in Seq(Byte)
          /\ Elements(outWire) \subseteq Byte /\ Elements(Queued) \subseteq Byte
      BY StreamsAre
    <2>2. \A b \in Elements(outWire) \cup Elements(Queued) : b[1] \in Senders
      BY <2>1, SockBytesAre
    <2> QED
      BY <2>1, <2>2, ElementsIs
  <1>2. \A s \in Senders : Elements(pData[s]) = ToSet(pData[s])
    <2>1. \A s \in Senders : pData[s] \in Seq(Byte)
      BY DEF SockInv, SockTypes
    <2> QED
      BY <2>1, ElementsIs
  <1>3. WholeHolds(ToSet(outWire) \cup ToSet(Queued), pData)
    BY <1>1 DEF SockInv, WholeInv
  <1> QED
    BY <1>1, <1>2, <1>3 DEF WholeHolds, WholeOrNothing

LEMMA MessageHolds == SockInv => MessageInOrder
  <1> SUFFICES ASSUME SockInv, NEW s \in Senders
               PROVE  LET bytes == outWire \o (IF pc[s] = "rest" THEN pData[s] ELSE <<>>) \o Queued IN
                      \A i, j \in 1..Len(bytes) :
                        i < j /\ bytes[i][1] = s /\ bytes[j][1] = s /\ bytes[i][2] = bytes[j][2]
                          => bytes[i][3] < bytes[j][3]
    BY Zenon DEF MessageInOrder
  <1>0. PICK m, x : /\ m = IF pc[s] = "rest" THEN pData[s] ELSE <<>>
                    /\ x = outWire \o m \o Queued
    OBVIOUS
  <1>1. PICK w, q, n : w = outWire /\ q = Queued /\ n = sends[s]
    OBVIOUS
  <1>2. w \in Seq(Byte) /\ q \in Seq(Byte) /\ OrderHolds(w, q)
    BY <1>1, StreamsAre DEF SockInv, OrderInv
  <1>3. /\ m \in Seq(Byte) /\ AllOf(s, n, m) /\ Sorted(OneMsg, m)
        /\ Across(OneMsg, Elements(w), Elements(m)) /\ Across(OneMsg, Elements(m), Elements(q))
    <2>1. CASE pc[s] = "rest"
      <3>1. m \in Seq(Byte) /\ AllOf(s, n, m) /\ Sorted(OneMsg, m) /\ NoneOf(s, n, q)
        BY <1>0, <1>1, <2>1, HandIs
      <3>2. Across(OneMsg, Elements(w), Elements(m))
        BY <1>0, <1>1, <2>1 DEF SockInv, HandInv
      <3>3. Across(OneMsg, Elements(m), Elements(q))
        BY <1>2, <3>1, ApartInMsg
      <3> QED
        BY <3>1, <3>2, <3>3
    <2>2. CASE pc[s] # "rest"
      <3>1. m = <<>> /\ m \in Seq(Byte) /\ Elements(m) = {} /\ Len(m) = 0
        BY <1>0, <2>2, EmptySeq, ElementsEmpty
      <3> QED
        BY <3>1 DEF AllOf, Sorted, Across
    <2> QED
      BY <2>1, <2>2
  <1>4. PICK v : v = w \o m
    OBVIOUS
  <1>5. v \in Seq(Byte) /\ Elements(v) = Elements(w) \cup Elements(m) /\ Sorted(OneMsg, v)
    BY ONLY <1>2, <1>3, <1>4, ElementsConcat, SortedConcat DEF OrderHolds
  <1>6. Across(OneMsg, Elements(v), Elements(q))
    BY <1>2, <1>3, <1>5 DEF OrderHolds, Across
  <1>7. Sorted(OneMsg, q)
    <2> SUFFICES ASSUME NEW a \in 1..Len(q), NEW b \in 1..Len(q), a < b PROVE <<q[a], q[b]>> \in OneMsg
      BY DEF Sorted
    <2>1. <<q[a], q[b]>> \in OneSender /\ q[a] \in Byte /\ q[b] \in Byte
      BY <1>2, ElementOfSeq DEF OrderHolds, Sorted
    <2> QED
      BY <2>1, SenderIsStronger
  <1>8. x = v \o q
    BY <1>0, <1>1, <1>4, Zenon
  <1>9. x \in Seq(Byte) /\ Sorted(OneMsg, x)
    BY ONLY <1>2, <1>5, <1>6, <1>7, <1>8, ElementsConcat, SortedConcat
  <1>10. ASSUME NEW i \in 1..Len(x), NEW j \in 1..Len(x), i < j, x[i][1] = x[j][1], x[i][2] = x[j][2]
         PROVE  x[i][3] < x[j][3]
    <2>1. <<x[i], x[j]>> \in OneMsg /\ x[i] \in Byte /\ x[j] \in Byte
      BY <1>9, <1>10, ElementOfSeq DEF Sorted
    <2> QED
      BY <1>10, <2>1, OneMsgIs
  <1> QED
    BY <1>0, <1>10, Zenon

(* Whatever partial ::sends, swaps and pushes come together, the queues    *)
(* hold blocks of 1 to MemSize bytes (send() appends to a block only what  *)
(* fits) and every lock and counter has its range.                         *)
THEOREM SockTypeCorrect == SockSpec => []SockTypeOK
  BY SockInvariance, SockTypesHold, PTL

(* send() and handle_can_send(): no byte is sent twice, queued twice, or   *)
(* sent and still queued.                                                  *)
THEOREM ByteOnce == SockSpec => []EachByteOnce
  BY SockInvariance, OnceHolds, PTL

(* The bytes that wait in m_qSending and m_qSendCache keep each thread's   *)
(* order, the rest that send() puts in front included.                     *)
THEOREM QueueOrder == SockSpec => []QueuesKeepOrder
  BY SockInvariance, QueuesHold, PTL

(* A message of which one byte is sent or queued is sent, queued or in the *)
(* hands of its send() as a whole.                                         *)
THEOREM WholeMessages == SockSpec => []WholeOrNothing
  BY SockInvariance, WholeIs, PTL

(* The bytes of one message leave in order: on the wire, in hand, queued.  *)
THEOREM MessageOrder == SockSpec => []MessageInOrder
  BY SockInvariance, MessageHolds, PTL
=============================================================================
