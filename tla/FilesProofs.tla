----------------------------- MODULE FilesProofs ----------------------------
(***************************************************************************)
(* Proofs about the files of a task (TaskFiles), for any names, any depth  *)
(* of the paths and any objects in the store: the files that are staged    *)
(* for the executors and stored after them.                                *)
(***************************************************************************)
EXTENDS TaskFiles, MountsProofs

(* The provers to try on a step in turn, with the seconds each may take.   *)
USE ZenonT(5), SMTT(20), ZenonT(20), SMTT(40), SMTT(60)

-----------------------------------------------------------------------------
(* Places relative to a directory.                                         *)

(* The length and the names of a path.                                     *)
LEMMA NamesIs ==
  ASSUME NEW s \in Names
  PROVE  Len(s) \in Nat /\ \A k \in 1..Len(s) : s[k] \in Name
BY LenProperties, ElementOfSeq DEF Names

(* Two paths with the same names are equal.                                *)
LEMMA NamesEqual ==
  ASSUME NEW s \in Names, NEW t \in Names, Len(s) = Len(t), \A k \in 1..Len(s) : s[k] = t[k]
  PROVE  s = t
BY SeqEqual DEF Names

(* The names of s behind those of d.                                       *)
LEMMA RestIs ==
  ASSUME NEW s \in Names, NEW d \in Names, Len(d) <= Len(s)
  PROVE  /\ Rest(s, d) \in Names /\ Len(Rest(s, d)) = Len(s) - Len(d)
         /\ \A k \in 1..(Len(s) - Len(d)) : Rest(s, d)[k] = s[Len(d) + k]
<1> DEFINE n == Len(s)
           m == Len(d)
<1>1. n \in Nat /\ m \in Nat /\ m <= n /\ \A k \in 1..n : s[k] \in Name
  BY NamesIs
<1>2. Rest(s, d) = SubSeq(s, m + 1, n)
  BY DEF Rest
<1> HIDE DEF n, m
<1>3. m + 1 \in Int /\ n \in Int /\ \A k \in (m + 1)..n : s[k] \in Name
  BY <1>1
<1>4. /\ SubSeq(s, m + 1, n) \in Seq(Name)
      /\ Len(SubSeq(s, m + 1, n)) = (IF m + 1 <= n THEN n - (m + 1) + 1 ELSE 0)
      /\ \A k \in 1..(n - (m + 1) + 1) : SubSeq(s, m + 1, n)[k] = s[m + 1 + k - 1]
  BY <1>3, SubSeqProperties
<1>5. (IF m + 1 <= n THEN n - (m + 1) + 1 ELSE 0) = n - m /\ n - (m + 1) + 1 = n - m
  BY <1>1
<1>6. ASSUME NEW k \in 1..(n - m) PROVE SubSeq(s, m + 1, n)[k] = s[m + k]
  <2>1. m + 1 + k - 1 = m + k
    BY <1>1, <1>6
  <2>2. SubSeq(s, m + 1, n)[k] = s[m + 1 + k - 1]
    BY <1>4, <1>5, <1>6
  <2>3. QED
    BY <2>1, <2>2
<1>7. QED
  BY <1>2, <1>4, <1>5, <1>6 DEF Names, n, m

(* The names of two paths joined.                                          *)
LEMMA JoinIs ==
  ASSUME NEW s \in Names, NEW t \in Names
  PROVE  /\ s \o t \in Names /\ Len(s \o t) = Len(s) + Len(t)
         /\ \A k \in 1..Len(s) : (s \o t)[k] = s[k]
         /\ \A k \in 1..Len(t) : (s \o t)[Len(s) + k] = t[k]
<1> DEFINE n == Len(s)
           m == Len(t)
           c == s \o t
<1>1. n \in Nat /\ m \in Nat
  BY NamesIs
<1>2. /\ c \in Seq(Name) /\ Len(c) = n + m
      /\ \A k \in 1..(n + m) : c[k] = IF k <= n THEN s[k] ELSE t[k - n]
  BY ConcatProperties DEF Names
<1> HIDE DEF n, m, c
<1>3. ASSUME NEW k \in 1..n PROVE c[k] = s[k]
  <2>1. k \in 1..(n + m) /\ k <= n
    BY <1>1, <1>3
  <2>2. QED
    BY <1>2, <2>1
<1>4. ASSUME NEW k \in 1..m PROVE c[n + k] = t[k]
  <2> DEFINE i == n + k
  <2>1. i \in 1..(n + m) /\ ~(i <= n) /\ i - n = k
    BY <1>1, <1>4
  <2> HIDE DEF i
  <2>2. c[i] = IF i <= n THEN s[i] ELSE t[i - n]
    BY <1>2, <2>1
  <2>3. c[i] = t[k]
    BY <2>1, <2>2
  <2>4. QED
    BY <2>3 DEF i
<1>5. QED
  BY <1>2, <1>3, <1>4 DEF n, m, c, Names

(* From d to e and from e to k is from d to k (filepath.Rel and Join).     *)
LEMMA JoinRest ==
  ASSUME NEW d \in Names, NEW e \in Names, NEW k \in Names, IsPrefix(d, e), IsPrefix(e, k)
  PROVE  Rest(e, d) \o Rest(k, e) = Rest(k, d)
<1> DEFINE a == Len(d)
           b == Len(e)
           c == Len(k)
           l == Rest(e, d) \o Rest(k, e)
           r == Rest(k, d)
<1>1. /\ a \in Nat /\ b \in Nat /\ c \in Nat /\ a <= b /\ b <= c
      /\ \A j \in 1..b : e[j] = k[j]
  BY NamesIs, PrefixIs
<1>2. /\ Rest(e, d) \in Names /\ Len(Rest(e, d)) = b - a
      /\ \A j \in 1..(b - a) : Rest(e, d)[j] = e[a + j]
  BY <1>1, RestIs
<1>3. /\ Rest(k, e) \in Names /\ Len(Rest(k, e)) = c - b
      /\ \A j \in 1..(c - b) : Rest(k, e)[j] = k[b + j]
  BY <1>1, RestIs
<1>4. a <= c
  BY <1>1
<1>5. /\ r \in Names /\ Len(r) = c - a
      /\ \A j \in 1..(c - a) : r[j] = k[a + j]
  BY <1>4, RestIs
<1>6. /\ l \in Names /\ Len(l) = (b - a) + (c - b)
      /\ \A j \in 1..(b - a) : l[j] = Rest(e, d)[j]
      /\ \A j \in 1..(c - b) : l[(b - a) + j] = Rest(k, e)[j]
  <2>1. /\ l \in Names /\ Len(l) = Len(Rest(e, d)) + Len(Rest(k, e))
        /\ \A j \in 1..Len(Rest(e, d)) : l[j] = Rest(e, d)[j]
        /\ \A j \in 1..Len(Rest(k, e)) : l[Len(Rest(e, d)) + j] = Rest(k, e)[j]
    BY <1>2, <1>3, JoinIs
  <2>2. QED
    BY <1>2, <1>3, <2>1
<1> HIDE DEF a, b, c, l, r
<1>7. Len(l) = Len(r)
  <2>1. (b - a) + (c - b) = c - a
    BY <1>1
  <2>2. QED
    BY <1>5, <1>6, <2>1
<1>8. ASSUME NEW j \in 1..(c - a) PROVE l[j] = r[j]
  <2>1. j \in Nat /\ j >= 1 /\ j <= c - a
    BY <1>1, <1>8
  <2>2. CASE j <= b - a
    <3>1. j \in 1..(b - a) /\ a + j \in 1..b
      BY <1>1, <2>1, <2>2
    <3>2. l[j] = e[a + j] /\ e[a + j] = k[a + j]
      BY <1>1, <1>2, <1>6, <3>1
    <3>3. QED
      BY <1>5, <1>8, <3>2
  <2>3. CASE ~(j <= b - a)
    <3>1. j - (b - a) \in 1..(c - b) /\ (b - a) + (j - (b - a)) = j /\ b + (j - (b - a)) = a + j
      BY <1>1, <2>1, <2>3
    <3>2. l[j] = k[a + j]
      <4>1. l[(b - a) + (j - (b - a))] = k[b + (j - (b - a))]
        BY <1>3, <1>6, <3>1
      <4>2. QED
        BY <3>1, <4>1
    <3>3. QED
      BY <1>5, <1>8, <3>2
  <2>4. QED
    BY <2>2, <2>3
<1>9. l = r
  <2>1. \A j \in 1..Len(l) : l[j] = r[j]
    BY <1>5, <1>7, <1>8
  <2>2. QED
    BY <1>5, <1>6, <1>7, <2>1, NamesEqual
<1>10. QED
  BY <1>9 DEF l, r

(* A path is below d when it begins with d and is longer.                  *)
LEMMA BelowIs ==
  ASSUME NEW k \in Names, NEW d \in Names
  PROVE  Below(k, d) <=> IsPrefix(d, k) /\ Len(d) < Len(k)
<1>1. Len(d) \in Nat /\ Len(k) \in Nat
  BY NamesIs
<1>2. IsPrefix(d, k) <=> Len(d) <= Len(k) /\ \A j \in 1..Len(d) : d[j] = k[j]
  BY PrefixIs
<1>3. IsPrefix(d, k) /\ Len(d) = Len(k) => d = k
  BY <1>2, NamesEqual
<1>4. d = k => Len(d) = Len(k)
  OBVIOUS
<1>5. \A n, m \in Nat : n <= m => (n # m <=> n < m)
  OBVIOUS
<1>6. QED
  BY <1>1, <1>2, <1>3, <1>4, <1>5 DEF Below

(* The path without names.                                                 *)
LEMMA EmptyIs ==
  ASSUME NEW s \in Names
  PROVE  /\ <<>> \in Names /\ Len(<<>>) = 0 /\ IsPrefix(<<>>, s)
         /\ Rest(s, <<>>) = s /\ <<>> \o s = s /\ (Len(s) = 0 => s = <<>>)
<1>1. <<>> \in Names /\ Len(<<>>) = 0
  BY EmptySeq DEF Names
<1>2. IsPrefix(<<>>, s)
  <2>1. \A z \in Names : Len(z) = 0 => IsPrefix(z, s)
    <3>1. ASSUME NEW z \in Names, Len(z) = 0 PROVE IsPrefix(z, s)
      <4>1. Len(s) \in Nat
        BY NamesIs
      <4>2. Len(z) <= Len(s)
        BY <3>1, <4>1
      <4>3. 1..Len(z) = {}
        BY <3>1
      <4>4. QED
        BY <4>2, <4>3, PrefixIs
    <3>2. QED
      BY <3>1
  <2>2. QED
    BY <1>1, <2>1
<1>3. Rest(s, <<>>) = s
  <2>1. SubSeq(s, 1, Len(s)) = s
    BY SubSeqFull DEF Names
  <2>2. Rest(s, <<>>) = SubSeq(s, Len(<<>>) + 1, Len(s))
    BY DEF Rest
  <2>3. 0 + 1 = 1
    OBVIOUS
  <2>4. QED
    BY <1>1, <2>1, <2>2, <2>3
<1>4. <<>> \o s = s
  BY ConcatEmptySeq DEF Names
<1>5. Len(s) = 0 => s = <<>>
  <2>1. s # <<>> => Len(s) \in Nat \ {0}
    BY EmptySeq DEF Names
  <2>2. QED
    BY <2>1
<1>6. QED
  BY <1>1, <1>2, <1>3, <1>4, <1>5

(* A path is its directory joined with the rest.                           *)
LEMMA JoinBack ==
  ASSUME NEW e \in Names, NEW k \in Names, IsPrefix(e, k)
  PROVE  e \o Rest(k, e) = k
<1>1. /\ <<>> \in Names /\ IsPrefix(<<>>, e) /\ Rest(e, <<>>) = e /\ Rest(k, <<>>) = k
  BY EmptyIs
<1>2. Rest(e, <<>>) \o Rest(k, e) = Rest(k, <<>>)
  BY <1>1, JoinRest
<1>3. QED
  BY <1>1, <1>2

(* The name that follows p on the way to k, as a path.                     *)
First(k, p) == <<k[Len(p) + 1]>>

(* The directory or file at which a path below p leaves p, and the rest of *)
(* the path from there.                                                    *)
LEMMA FirstName ==
  ASSUME NEW p \in Names, NEW k \in Names, Below(k, p)
  PROVE  /\ p \o First(k, p) \in Names /\ IsPrefix(p \o First(k, p), k) /\ First(k, p) \in Names
         /\ First(k, p) \o Rest(k, p \o First(k, p)) = Rest(k, p)
         /\ (p \o First(k, p)) \o Rest(k, p \o First(k, p)) = k
<1> DEFINE n == k[Len(p) + 1]
           o == First(k, p)
           x == p \o o
<1>0. o = <<n>> /\ n = k[Len(p) + 1]
  BY DEF First
<1> HIDE DEF n, o
<1>1. IsPrefix(p, k) /\ Len(p) \in Nat /\ Len(k) \in Nat /\ Len(p) < Len(k) /\ \A j \in 1..Len(p) : p[j] = k[j]
  BY BelowIs, NamesIs, PrefixIs
<1>2. n \in Name
  <2>1. Len(p) + 1 \in 1..Len(k)
    BY <1>1
  <2>2. QED
    BY <1>0, <2>1, NamesIs
<1>3. o \in Names /\ Len(o) = 1 /\ o[1] = n
  BY <1>0, <1>2 DEF Names
<1>4. /\ x \in Names /\ Len(x) = Len(p) + 1
      /\ (\A j \in 1..Len(p) : x[j] = p[j]) /\ x[Len(p) + 1] = n
  <2>1. /\ p \o o \in Names /\ Len(p \o o) = Len(p) + Len(o)
        /\ \A j \in 1..Len(p) : (p \o o)[j] = p[j]
        /\ \A j \in 1..Len(o) : (p \o o)[Len(p) + j] = o[j]
    BY <1>3, JoinIs
  <2>2. x = p \o o
    OBVIOUS
  <2>3. 1 \in 1..Len(o)
    BY <1>3
  <2> HIDE DEF x
  <2>4. QED
    BY <1>3, <2>1, <2>2, <2>3
<1> HIDE DEF x
<1>5. IsPrefix(x, k) /\ IsPrefix(p, x)
  <2>1. Len(x) <= Len(k) /\ Len(p) <= Len(x)
    BY <1>1, <1>4
  <2>2. \A j \in 1..(Len(p) + 1) : j \in 1..Len(p) \/ j = Len(p) + 1
    BY <1>1
  <2>3. \A j \in 1..Len(x) : x[j] = k[j]
    BY <1>0, <1>1, <1>4, <2>2
  <2>4. \A j \in 1..Len(p) : p[j] = x[j]
    BY <1>4
  <2>5. QED
    BY <1>4, <2>1, <2>3, <2>4, PrefixIs
<1>6. Rest(x, p) = o
  <2>1. /\ Rest(x, p) \in Names /\ Len(Rest(x, p)) = Len(x) - Len(p)
        /\ \A j \in 1..(Len(x) - Len(p)) : Rest(x, p)[j] = x[Len(p) + j]
    <3>1. Len(p) <= Len(x)
      BY <1>1, <1>4
    <3>2. QED
      BY <1>4, <3>1, RestIs
  <2> DEFINE r == Rest(x, p)
             m == Len(p)
  <2>2. r \in Names /\ m \in Nat /\ Len(x) = m + 1 /\ Len(r) = Len(x) - m /\ x[m + 1] = n
        /\ \A j \in 1..(Len(x) - m) : r[j] = x[m + j]
    BY <1>1, <1>4, <2>1
  <2> HIDE DEF r, m
  <2>3. Len(x) - m = 1
    BY <2>2
  <2>4. 1 \in 1..1 /\ \A j \in 1..1 : j = 1
    OBVIOUS
  <2>5. Len(r) = 1 /\ r[1] = n
    BY <2>2, <2>3, <2>4
  <2>6. r = o
    <3>1. Len(r) = Len(o) /\ \A j \in 1..Len(r) : r[j] = o[j]
      BY <1>3, <2>4, <2>5
    <3>2. QED
      BY <1>3, <2>2, <3>1, NamesEqual
  <2>7. QED
    BY <2>6 DEF r
<1>7. o \o Rest(k, x) = Rest(k, p)
  <2>1. Rest(x, p) \o Rest(k, x) = Rest(k, p)
    BY <1>4, <1>5, JoinRest
  <2>2. QED
    BY <1>6, <2>1
<1>8. x \o Rest(k, x) = k
  BY <1>4, <1>5, JoinBack
<1>9. QED
  BY <1>3, <1>4, <1>5, <1>7, <1>8 DEF x, o

(* A key that only begins like e is next to e, so that the rest behind the *)
(* parent of e, which is what filepath.Rel and Join make of it, is its     *)
(* place below d.                                                          *)
LEMMA DirRest ==
  ASSUME NEW d \in Names, NEW e \in Names, NEW k \in Names, Below(e, d), IsSubpath(k, e)
  PROVE  /\ IsPrefix(d, k) /\ Len(d) < Len(k)
         /\ Len(Rest(e, d)) >= 1
         /\ Dir(Rest(e, d)) \o Rest(k, Dir(e)) = Rest(k, d)
<1>1. IsPrefix(d, e) /\ Len(d) \in Nat /\ Len(e) \in Nat /\ Len(k) \in Nat /\ Len(d) < Len(e)
      /\ \A j \in 1..Len(d) : d[j] = e[j]
  BY BelowIs, NamesIs, PrefixIs
<1> DEFINE f == Dir(e)
           n == Len(e)
           m == Len(d)
           r == Rest(e, d)
<1>2. n \in Nat /\ m \in Nat /\ n >= 1 /\ n >= m + 1 /\ Len(k) >= n
  BY <1>1 DEF IsSubpath
<1>3. f \in Names /\ Len(f) = n - 1 /\ \A j \in 1..(n - 1) : f[j] = e[j]
  BY <1>2, DirIs
<1>4. /\ r \in Names /\ Len(r) = n - m
      /\ \A j \in 1..(n - m) : r[j] = e[m + j]
  <2>1. Len(d) <= Len(e)
    BY <1>1
  <2>2. QED
    BY <2>1, RestIs
<1>5. \A j \in 1..(n - 1) : k[j] = e[j]
  BY DEF IsSubpath
<1> HIDE DEF f, n, m, r
<1>6. IsPrefix(f, k)
  <2>1. Len(f) <= Len(k)
    BY <1>1, <1>2, <1>3
  <2>2. \A j \in 1..Len(f) : f[j] = k[j]
    BY <1>3, <1>5
  <2>3. QED
    BY <1>3, <2>1, <2>2, PrefixIs
<1>7. IsPrefix(d, f)
  <2>1. Len(d) <= Len(f)
    BY <1>2, <1>3 DEF m
  <2>2. \A j \in 1..Len(d) : j \in 1..(n - 1)
    BY <1>2 DEF m
  <2>3. \A j \in 1..Len(d) : d[j] = f[j]
    <3>1. \A j \in 1..Len(d) : d[j] = e[j]
      BY <1>1
    <3>2. QED
      BY <1>3, <2>2, <3>1
  <2>4. QED
    BY <1>3, <2>1, <2>3, PrefixIs
<1>8. Dir(r) = Rest(f, d)
  <2>1. Len(r) >= 1 /\ Len(r) - 1 = n - m - 1
    BY <1>2, <1>4
  <2>2. /\ Dir(r) \in Names /\ Len(Dir(r)) = n - m - 1
        /\ \A j \in 1..(n - m - 1) : Dir(r)[j] = r[j]
    <3>1. /\ Dir(r) \in Names /\ Len(Dir(r)) = Len(r) - 1
          /\ \A j \in 1..(Len(r) - 1) : Dir(r)[j] = r[j]
      BY <1>4, <2>1, DirIs
    <3>2. QED
      BY <2>1, <3>1
  <2>3. /\ Rest(f, d) \in Names /\ Len(Rest(f, d)) = (n - 1) - m
        /\ \A j \in 1..((n - 1) - m) : Rest(f, d)[j] = f[m + j]
    <3>1. Len(d) <= Len(f)
      BY <1>2, <1>3 DEF m
    <3>2. /\ Rest(f, d) \in Names /\ Len(Rest(f, d)) = Len(f) - Len(d)
          /\ \A j \in 1..(Len(f) - Len(d)) : Rest(f, d)[j] = f[Len(d) + j]
      BY <1>3, <3>1, RestIs
    <3>3. QED
      BY <1>3, <3>2 DEF m
  <2>4. (n - 1) - m = n - m - 1
    BY <1>2
  <2>5. ASSUME NEW j \in 1..(n - m - 1) PROVE Dir(r)[j] = Rest(f, d)[j]
    <3>1. j \in 1..(n - m) /\ m + j \in 1..(n - 1) /\ j \in 1..((n - 1) - m)
      BY <1>2, <2>5
    <3>2. Dir(r)[j] = e[m + j]
      BY <1>4, <2>2, <2>5, <3>1
    <3>3. Rest(f, d)[j] = e[m + j]
      BY <1>3, <2>3, <3>1
    <3>4. QED
      BY <3>2, <3>3
  <2>6. Len(Dir(r)) = Len(Rest(f, d)) /\ \A j \in 1..Len(Dir(r)) : Dir(r)[j] = Rest(f, d)[j]
    BY <2>2, <2>3, <2>4, <2>5
  <2> DEFINE a == Dir(r)
             b == Rest(f, d)
  <2>7. a \in Names /\ b \in Names /\ Len(a) = Len(b) /\ \A j \in 1..Len(a) : a[j] = b[j]
    BY <2>2, <2>3, <2>6
  <2> HIDE DEF a, b
  <2>8. a = b
    BY <2>7, NamesEqual
  <2>9. QED
    BY <2>8 DEF a, b
<1>9. Rest(f, d) \o Rest(k, f) = Rest(k, d)
  BY <1>3, <1>6, <1>7, JoinRest
<1>10. IsPrefix(d, k)
  BY <1>3, <1>6, <1>7, PrefixOrder
<1>11. Len(d) < Len(k) /\ Len(r) >= 1
  BY <1>1, <1>2, <1>4 DEF m
<1>12. QED
  BY <1>8, <1>9, <1>10, <1>11 DEF f, r

-----------------------------------------------------------------------------
(* The files that are staged.                                              *)

(* What the task declares and the store may hold; it never changes while   *)
(* files are staged.                                                       *)
FilesType ==
  /\ way \in {"in", "out"} /\ medium \in Media /\ keys \subseteq Path
  /\ (way = "out" \/ medium \notin Prefixed) => Tree
  /\ decl.type \in {"file", "directory", "content", "wildcard"} /\ decl.path \in Path
  /\ decl.type = "content" => way = "in"
  /\ decl.type = "wildcard" => way = "out"
  /\ decl.slash => decl.type = "directory"

(* The exceptions that FilesExact makes for the stores without directories *)
(* do not apply.                                                           *)
Plain == ~Misled /\ ~(medium = "swift" /\ marker)

(* The files of the declared directory, each in its place.                 *)
Placed == {<<k, Rest(k, decl.path)>> : k \in AllBelow(decl.path)}

(* What FlattenInputs leaves to be downloaded.                             *)
Listed ==
  IF decl.type = "file" THEN {<<decl.path, <<>>>>}
  ELSE {<<k, PlaceOf(k, decl.path)>> : k \in List(decl.path, decl.slash)}

(* What resolveWildcards leaves to be uploaded.                            *)
Resolved ==
  IF decl.type # "wildcard" THEN {<<decl.path, <<>>>>} ELSE IF scratch THEN {} ELSE Matched(decl.path)

(* The inductive invariant: what each function of Run finds in flat and    *)
(* got when its turn comes.                                                *)
FilesInv ==
  /\ FilesType
  /\ step \in {"FlattenInputs", "Download", "CopyInputs"} => way = "in"
  /\ step \in {"resolveWildcards", "CopyOutputs", "FlattenOutputs", "Upload"} => way = "out"
  /\ step = "Download" => /\ decl.type \in {"file", "directory"} /\ flat = Listed
                          /\ decl.type = "directory" => ~CannotList(decl.path)
  /\ step = "CopyInputs" => IF decl.type = "content" THEN got = {<<"content", <<>>>>} ELSE Plain => got = Wanted
  /\ step \in {"CopyOutputs", "FlattenOutputs"} => flat = Resolved
  /\ step = "Upload" /\ uncopied = {} => flat = IF decl.type = "directory" THEN Placed ELSE Resolved
  /\ FilesExact

(* Keys and the declared path have a last name, and it is not a slash.     *)
LEMMA KeyIs ==
  ASSUME FilesType, NEW k \in keys \cup {decl.path}
  PROVE  k \in Names /\ Len(k) \in Nat /\ Len(k) >= 1 /\ k[Len(k)] # "/"
<1>1. k \in Path
  BY DEF FilesType
<1>2. k \in Names /\ Len(k) \in Nat /\ Len(k) >= 1
  BY <1>1, PathIs
<1>3. Len(k) \in 1..Len(k)
  BY <1>2
<1>4. k[Len(k)] \in Name
  BY <1>2, <1>3, NamesIs
<1>5. QED
  BY <1>2, <1>4, FilesAssumption

(* The object "dir/" that Swift lists ends with a slash.                   *)
LEMMA SlashLast ==
  ASSUME NEW p \in Names
  PROVE  (p \o <<"/">>)[Len(p \o <<"/">>)] = "/"
<1> DEFINE S == Name \cup {"/"}
           o == <<"/">>
           c == p \o o
<1>1. p \in Seq(S) /\ Len(p) \in Nat
  BY NamesIs, SeqMonotonic DEF Names
<1>2. o \in Seq(S) /\ Len(o) = 1 /\ o[1] = "/"
  OBVIOUS
<1> HIDE DEF S, o
<1>3. /\ Len(c) = Len(p) + Len(o)
      /\ \A j \in 1..(Len(p) + Len(o)) : c[j] = IF j <= Len(p) THEN p[j] ELSE o[j - Len(p)]
  BY <1>1, <1>2, ConcatProperties
<1> HIDE DEF c
<1> DEFINE n == Len(p)
           m == Len(c)
<1>4. m = n + 1 /\ n \in Nat
  BY <1>1, <1>2, <1>3
<1>5. m \in 1..(n + 1) /\ ~(m <= n) /\ m - n = 1
  BY <1>4
<1>6. c[m] = IF m <= n THEN p[m] ELSE o[m - n]
  <2> HIDE DEF m, n
  <2>1. \A j \in 1..(n + 1) : c[j] = IF j <= n THEN p[j] ELSE o[j - n]
    BY <1>2, <1>3 DEF n
  <2>2. QED
    BY <1>5, <2>1
<1>7. c[m] = "/"
  <2> HIDE DEF m, n
  <2>1. QED
    BY <1>2, <1>5, <1>6
<1>8. QED
  BY <1>7 DEF c, o

(* What is below a path begins like it.                                    *)
LEMMA PrefixSubpath ==
  ASSUME NEW k \in Names, NEW l \in Names, IsPrefix(l, k)
  PROVE  IsSubpath(k, l)
<1>1. Len(l) \in Nat /\ Len(k) \in Nat /\ Len(l) <= Len(k) /\ \A j \in 1..Len(l) : l[j] = k[j]
  BY NamesIs, PrefixIs
<1>2. (\A j \in 1..(Len(l) - 1) : j \in 1..Len(l)) /\ (Len(l) > 0 => Len(l) \in 1..Len(l))
  BY <1>1
<1>3. QED
  BY <1>1, <1>2 DEF IsSubpath

(* What is known of a key below a path.                                    *)
LEMMA BelowKey ==
  ASSUME FilesType, NEW p \in Names, NEW k \in AllBelow(p)
  PROVE  /\ k \in keys /\ Below(k, p) /\ k \in Names /\ IsPrefix(p, k) /\ Len(p) < Len(k)
         /\ Rest(k, p) \in Names /\ Len(Rest(k, p)) >= 1 /\ p # k
<1>1. k \in keys /\ Below(k, p)
  BY DEF AllBelow
<1>2. k \in Names
  BY <1>1, KeyIs
<1>3. IsPrefix(p, k) /\ Len(p) < Len(k) /\ Len(p) \in Nat /\ Len(k) \in Nat
  BY <1>1, <1>2, BelowIs, NamesIs
<1>4. Rest(k, p) \in Names /\ Len(Rest(k, p)) = Len(k) - Len(p)
  <2>1. Len(p) <= Len(k)
    BY <1>3
  <2>2. QED
    BY <1>2, <2>1, RestIs
<1> DEFINE r == Len(Rest(k, p))
           a == Len(k)
           b == Len(p)
<1>5. r >= 1 /\ a # b
  <2>1. r = a - b /\ a \in Nat /\ b \in Nat /\ b < a
    BY <1>3, <1>4
  <2> HIDE DEF r, a, b
  <2>2. QED
    BY <2>1
<1>6. QED
  BY <1>1, <1>2, <1>3, <1>4, <1>5

(* Get of a single file.                                                   *)
LEMMA WholeIs ==
  ASSUME NEW p, NEW place, p[Len(p)] # "/"
  PROVE  Whole(p, place) = IF p \in keys THEN {<<p, place>>} ELSE {}
BY DEF Whole

(* Get for each of the backends.                                           *)
LEMMA GetIs ==
  ASSUME NEW p, NEW place
  PROVE  /\ medium = "local" => Get(<<p, place>>) = LocalGet1(p, place)
         /\ medium = "genericS3" => Get(<<p, place>>) = GenericS3Get(p, place)
         /\ medium \notin {"local", "genericS3"} => Get(<<p, place>>) = Whole(p, place)
<1>1. <<p, place>>[1] = p /\ <<p, place>>[2] = place
  OBVIOUS
<1>2. QED
  BY <1>1 DEF Get, FTPGet1

(* When no object misleads, to begin like a path is to be it or below it.  *)
LEMMA LikeIs ==
  ASSUME FilesType, ~Misled, medium \in Prefixed, ~decl.slash,
         NEW k \in keys \cup {decl.path}, NEW l \in keys \cup {decl.path}
  PROVE  IsSubpath(k, l) <=> IsPrefix(l, k)
<1>1. IsSubpath(k, l) => IsPrefix(l, k)
  BY DEF Misled
<1>2. IsPrefix(l, k) => IsSubpath(k, l)
  BY KeyIs, PrefixSubpath
<1>3. QED
  BY <1>1, <1>2

(* Then listing by prefix finds the files of the directory.                *)
LEMMA ByPrefixIs ==
  ASSUME FilesType, ~Misled, medium \in Prefixed, decl.type = "directory"
  PROVE  ByPrefix(decl.path, decl.slash) = AllBelow(decl.path)
<1>1. CASE decl.slash
  BY <1>1 DEF ByPrefix
<1>2. CASE ~decl.slash
  <2>1. decl.path \notin keys
    BY <1>2 DEF Misled
  <2>2. ASSUME NEW k \in keys PROVE IsSubpath(k, decl.path) <=> Below(k, decl.path)
    <3>1. IsSubpath(k, decl.path) <=> IsPrefix(decl.path, k)
      BY <1>2, LikeIs
    <3>2. k # decl.path
      BY <2>1
    <3>3. QED
      BY <3>1, <3>2 DEF Below
  <2>3. ByPrefix(decl.path, decl.slash) = {k \in keys : IsSubpath(k, decl.path)}
    BY <1>2 DEF ByPrefix
  <2>4. QED
    BY <2>2, <2>3 DEF AllBelow
<1>3. QED
  BY <1>1, <1>2

(* The place of a listed file is the rest of its path.                     *)
LEMMA PlaceIs ==
  ASSUME FilesType, NEW k \in AllBelow(decl.path)
  PROVE  PlaceOf(k, decl.path) = Rest(k, decl.path)
<1>1. decl.path \in Names
  BY KeyIs
<1>2. k \in keys /\ Below(k, decl.path)
  BY DEF AllBelow
<1>3. k # decl.path \o <<"/">>
  BY <1>1, <1>2, KeyIs, SlashLast
<1>4. QED
  BY <1>2, <1>3 DEF PlaceOf

(* In a file system the parent of a file is no file.                       *)
LEMMA DirBelow ==
  ASSUME FilesType, NEW k \in AllBelow(decl.path), Tree
  PROVE  Dir(k) \notin keys /\ Dir(k)[Len(Dir(k))] # "/"
<1>1. decl.path \in Names /\ Len(decl.path) \in Nat /\ Len(decl.path) >= 1
  BY KeyIs
<1>2. k \in keys /\ k \in Names /\ Len(decl.path) < Len(k)
  BY <1>1, BelowKey
<1> DEFINE n == Len(k)
           f == Dir(k)
           m == Len(f)
<1>3. n \in Nat /\ n >= 2
  <2> DEFINE l == Len(decl.path)
  <2>1. l \in Nat /\ l >= 1 /\ l < n /\ n \in Nat
    BY <1>1, <1>2, NamesIs
  <2> HIDE DEF l, n
  <2>2. QED
    BY <2>1
<1>4. f \in Names /\ m = n - 1 /\ \A j \in 1..(n - 1) : f[j] = k[j]
  BY <1>2, <1>3, DirIs
<1>5. m \in 1..m /\ m < n /\ m <= n /\ m \in Nat /\ 1..m = 1..(n - 1)
  <2> HIDE DEF n, m
  <2>1. QED
    BY <1>3, <1>4
<1>6. f[m] \in Name
  <2>1. \A j \in 1..Len(f) : f[j] \in Name
    BY <1>4, NamesIs
  <2>2. QED
    BY <1>5, <2>1
<1>7. IsPrefix(f, k)
  BY <1>2, <1>4, <1>5, PrefixIs
<1>8. Below(k, f)
  BY <1>2, <1>4, <1>5, <1>7, BelowIs
<1>9. f \notin keys
  BY <1>2, <1>8 DEF Tree, IsDir, AllBelow
<1>10. QED
  BY <1>6, <1>9, FilesAssumption

(* When every Get succeeds, List has found the files of the directory: the *)
(* parents that an FTP server may list cannot be downloaded.               *)
LEMMA ListIs ==
  ASSUME FilesType, Plain, decl.type = "directory", way = "in", ~CannotList(decl.path),
         \A x \in Listed : Get(x) # {}
  PROVE  List(decl.path, decl.slash) = AllBelow(decl.path)
<1>1. CASE medium \in Prefixed
  <2>1. ByPrefix(decl.path, decl.slash) = AllBelow(decl.path)
    BY <1>1, ByPrefixIs DEF Plain
  <2>2. CASE medium = "amazonS3"
    BY <2>1, <2>2 DEF List, S3List
  <2>3. CASE medium = "genericS3"
    BY <2>1, <2>3 DEF List, GenericS3List
  <2>4. CASE medium = "googleStorage"
    BY <2>1, <2>4 DEF List, GoogleList
  <2>5. CASE medium = "swift"
    BY <2>1, <2>5 DEF List, SwiftList, Plain
  <2>6. QED
    BY <1>1, <2>2, <2>3, <2>4, <2>5 DEF Prefixed
<1>2. CASE medium \in {"local", "mounted"}
  BY <1>2 DEF List, LocalList
<1>3. CASE medium \in {"ftpStorage", "ftpDots"}
  <2>1. Tree
    BY <1>3 DEF FilesType, Prefixed
  <2> DEFINE c(k) == medium = "ftpStorage" /\ Cardinality({l[Len(Dir(k)) + 1] : l \in AllBelow(Dir(k))}) = 1
             g(k) == IF c(k) THEN Dir(k) ELSE k
  <2>2. List(decl.path, decl.slash) = {g(k) : k \in AllBelow(decl.path)}
    BY <1>3 DEF List, FTPList
  <2>3. ASSUME NEW k \in AllBelow(decl.path), c(k) PROVE FALSE
    <3>1. Dir(k) \in List(decl.path, decl.slash)
      BY <2>2, <2>3
    <3>2. <<Dir(k), PlaceOf(Dir(k), decl.path)>> \in Listed
      BY <3>1 DEF Listed
    <3>3. Get(<<Dir(k), PlaceOf(Dir(k), decl.path)>>) # {}
      BY <3>2
    <3>4. Get(<<Dir(k), PlaceOf(Dir(k), decl.path)>>) = Whole(Dir(k), PlaceOf(Dir(k), decl.path))
      BY <1>3, GetIs
    <3>5. Dir(k) \notin keys /\ Dir(k)[Len(Dir(k))] # "/"
      BY <2>1, DirBelow
    <3>6. QED
      BY <3>3, <3>4, <3>5, WholeIs
  <2>4. \A k \in AllBelow(decl.path) : g(k) = k
    BY <2>3
  <2> HIDE DEF g
  <2>5. QED
    BY <2>2, <2>4
<1>4. QED
  BY <1>1, <1>2, <1>3 DEF FilesType, Media, CannotList

(* A path is its own prefix.                                               *)
LEMMA SelfPrefix ==
  ASSUME NEW k \in Names
  PROVE  IsPrefix(k, k) /\ IsSubpath(k, k)
<1>1. Len(k) \in Nat
  BY NamesIs
<1>2. IsPrefix(k, k)
  BY <1>1, PrefixIs
<1>3. QED
  BY <1>2, PrefixSubpath

(* Get of a listed file makes that file, and only files of the directory   *)
(* in their places, even when GenericS3.isDir takes it for a directory.    *)
LEMMA DirectoryGet ==
  ASSUME FilesType, decl.type = "directory", way = "in", NEW k \in AllBelow(decl.path)
  PROVE  /\ <<k, Rest(k, decl.path)>> \in Get(<<k, Rest(k, decl.path)>>)
         /\ Get(<<k, Rest(k, decl.path)>>) \subseteq Placed
<1> DEFINE d == decl.path
           r == Rest(k, d)
<1>1. d \in Names
  BY KeyIs
<1>2. /\ k \in keys /\ Below(k, d) /\ k \in Names /\ IsPrefix(d, k)
      /\ r \in Names /\ Len(r) >= 1
  BY <1>1, BelowKey
<1>3. k[Len(k)] # "/"
  BY <1>2, KeyIs
<1>4. <<k, r>> \in Placed
  BY DEF Placed
<1>5. Whole(k, r) = {<<k, r>>}
  BY <1>2, <1>3, WholeIs
<1>6. CASE medium \notin {"local", "genericS3"}
  BY <1>4, <1>5, <1>6, GetIs
<1>7. CASE medium = "local"
  <2>1. Tree
    BY <1>7 DEF FilesType, Prefixed
  <2>2. ~IsDir(k)
    BY <1>2, <2>1 DEF Tree
  <2>3. Get(<<k, r>>) = Whole(k, r)
    BY <1>7, <2>2, GetIs DEF LocalGet1
  <2>4. QED
    BY <1>4, <1>5, <2>3
<1>8. CASE medium = "genericS3"
  <2>1. CASE ~GenericIsDir(k)
    BY <1>4, <1>5, <1>8, <2>1, GetIs DEF GenericS3Get
  <2>2. CASE GenericIsDir(k)
    <3>1. Get(<<k, r>>) = {<<l, RelTo(l, k, r)>> : l \in {l \in keys : IsSubpath(l, k)}}
      BY <1>8, <2>2, GetIs DEF GenericS3Get, GenericS3List, ByPrefix
    <3>2. ASSUME NEW l \in keys, IsSubpath(l, k)
          PROVE  l \in AllBelow(d) /\ RelTo(l, k, r) = Rest(l, d)
      <4>1. l \in Names
        BY KeyIs
      <4>2. /\ IsPrefix(d, l) /\ Len(d) < Len(l)
            /\ Dir(r) \o Rest(l, Dir(k)) = Rest(l, d)
        BY <1>1, <1>2, <3>2, <4>1, DirRest
      <4>3. l \in AllBelow(d)
        BY <1>1, <4>1, <4>2, BelowIs DEF AllBelow
      <4>4. CASE IsPrefix(k, l)
        <5>1. r \o Rest(l, k) = Rest(l, d)
          BY <1>1, <1>2, <4>1, <4>4, JoinRest
        <5>2. QED
          BY <4>3, <4>4, <5>1 DEF RelTo
      <4>5. CASE ~IsPrefix(k, l)
        <5>1. r # <<>>
          BY <1>1, <1>2, EmptyIs
        <5>2. QED
          BY <4>2, <4>3, <4>5, <5>1 DEF RelTo
      <4>6. QED
        BY <4>4, <4>5
    <3>3. IsSubpath(k, k)
      BY <1>2, SelfPrefix
    <3>4. RelTo(k, k, r) = r
      BY <1>2, <3>2, <3>3
    <3>5. <<k, r>> \in Get(<<k, r>>)
      BY <1>2, <3>1, <3>3, <3>4
    <3>6. ASSUME NEW f \in Get(<<k, r>>) PROVE f \in Placed
      <4>1. PICK l \in {l \in keys : IsSubpath(l, k)} : f = <<l, RelTo(l, k, r)>>
        BY <3>1
      <4>2. l \in AllBelow(d) /\ f = <<l, Rest(l, d)>>
        BY <3>2, <4>1
      <4>3. QED
        BY <4>2 DEF Placed
    <3>7. QED
      BY <3>5, <3>6
  <2>3. QED
    BY <2>1, <2>2
<1>9. QED
  BY <1>6, <1>7, <1>8

(* A directory that was downloaded without an error is complete, and       *)
(* nothing else is there.                                                  *)
LEMMA DirectoryDownloaded ==
  ASSUME FilesType, Plain, decl.type = "directory", way = "in", ~CannotList(decl.path), flat = Listed,
         \A x \in flat : Get(x) # {}
  PROVE  UNION {Get(x) : x \in flat} = Placed
<1>1. List(decl.path, decl.slash) = AllBelow(decl.path)
  BY ListIs
<1>2. flat = {<<k, PlaceOf(k, decl.path)>> : k \in AllBelow(decl.path)}
  BY <1>1 DEF Listed
<1>3. flat = Placed
  BY <1>2, PlaceIs DEF Placed
<1>4. ASSUME NEW x \in flat PROVE x \in Get(x) /\ Get(x) \subseteq Placed
  <2>1. PICK k \in AllBelow(decl.path) : x = <<k, Rest(k, decl.path)>>
    BY <1>3 DEF Placed
  <2>2. QED
    BY <2>1, DirectoryGet
<1>5. QED
  BY <1>3, <1>4

(* Nothing is left of a path behind itself.                                *)
LEMMA EmptyRest ==
  ASSUME NEW p \in Names
  PROVE  Rest(p, p) = <<>>
<1>1. Len(p) \in Nat /\ Len(p) <= Len(p)
  BY NamesIs
<1>2. Rest(p, p) \in Names /\ Len(Rest(p, p)) = Len(p) - Len(p)
  BY <1>1, RestIs
<1>3. Len(p) - Len(p) = 0
  BY <1>1
<1>4. QED
  BY <1>2, <1>3, EmptyIs

(* The same for an input of type FILE, which may turn out to be a          *)
(* directory.                                                              *)
LEMMA FileDownloaded ==
  ASSUME FilesType, Plain, decl.type = "file", way = "in", flat = {<<decl.path, <<>>>>},
         \A x \in flat : Get(x) # {},
         \A f, g \in UNION {Get(x) : x \in flat} : ~Below(f[2], g[2])
  PROVE  UNION {Get(x) : x \in flat} = Wanted
<1> DEFINE p == decl.path
           made == Get(<<p, <<>>>>)
<1>1. UNION {Get(x) : x \in flat} = made
  OBVIOUS
<1>2. made # {} /\ \A f, g \in made : ~Below(f[2], g[2])
  <2>1. made # {}
    OBVIOUS
  <2>2. QED
    BY <1>1, <2>1
<1>3. p \in Names /\ p[Len(p)] # "/"
  BY KeyIs
<1>4. Whole(p, <<>>) = IF p \in keys THEN {<<p, <<>>>>} ELSE {}
  BY <1>3, WholeIs
<1>5. ASSUME made = Whole(p, <<>>) PROVE made = Wanted
  BY <1>2, <1>4, <1>5 DEF Wanted
<1>6. ASSUME NEW k \in AllBelow(p) PROVE <<>> \o Rest(k, p) = Rest(k, p) /\ Rest(k, p) \in Names /\ Below(Rest(k, p), <<>>)
  <2>1. Rest(k, p) \in Names /\ Len(Rest(k, p)) >= 1
    BY <1>3, BelowKey
  <2>2. <<>> \o Rest(k, p) = Rest(k, p) /\ <<>> \in Names /\ Len(<<>>) = 0 /\ IsPrefix(<<>>, Rest(k, p))
    BY <2>1, EmptyIs
  <2>3. Len(<<>>) < Len(Rest(k, p))
    <3> DEFINE r == Len(Rest(k, p))
               z == Len(<<>>)
    <3>1. r \in Nat /\ r >= 1 /\ z = 0
      BY <2>1, <2>2, NamesIs
    <3> HIDE DEF r, z
    <3>2. z < r
      BY <3>1
    <3>3. QED
      BY <3>2 DEF r, z
  <2>4. QED
    BY <2>1, <2>2, <2>3, BelowIs
<1>7. CASE medium \notin {"local", "genericS3"}
  BY <1>1, <1>5, <1>7, GetIs
<1>8. CASE medium = "local"
  <2>1. CASE ~IsDir(p)
    BY <1>1, <1>5, <1>8, <2>1, GetIs DEF LocalGet1
  <2>2. CASE IsDir(p)
    <3>1. p \notin keys
      BY <1>8, <2>2 DEF FilesType, Prefixed, Tree
    <3>2. made = {<<k, <<>> \o Rest(k, p)>> : k \in AllBelow(p)}
      BY <1>8, <2>2, GetIs DEF LocalGet1
    <3>3. made = {<<k, Rest(k, p)>> : k \in AllBelow(p)}
      BY <1>6, <3>2
    <3>4. QED
      BY <1>1, <3>1, <3>3 DEF Wanted
  <2>3. QED
    BY <2>1, <2>2
<1>9. CASE medium = "genericS3"
  <2>1. medium \in Prefixed /\ ~decl.slash
    BY <1>9 DEF Prefixed, FilesType
  <2>2. ASSUME NEW k \in keys PROVE IsSubpath(k, p) <=> IsPrefix(p, k)
    BY <2>1, LikeIs DEF Plain
  <2>3. CASE ~GenericIsDir(p)
    BY <1>1, <1>5, <1>9, <2>3, GetIs DEF GenericS3Get
  <2>4. CASE GenericIsDir(p)
    <3>1. made = {<<k, RelTo(k, p, <<>>)>> : k \in {l \in keys : IsSubpath(l, p)}}
      BY <1>9, <2>4, GetIs DEF GenericS3Get, GenericS3List, ByPrefix
    <3>2. PICK k \in keys : IsSubpath(k, p) /\ k # p
      BY <2>4 DEF GenericIsDir
    <3>3. k \in AllBelow(p)
      BY <2>2, <3>2 DEF AllBelow, Below
    <3>4. ASSUME NEW l \in AllBelow(p) PROVE <<l, Rest(l, p)>> \in made /\ RelTo(l, p, <<>>) = Rest(l, p)
      <4>1. l \in keys /\ IsPrefix(p, l)
        BY <1>3, BelowKey
      <4>2. IsSubpath(l, p)
        BY <2>2, <4>1
      <4>3. RelTo(l, p, <<>>) = Rest(l, p)
        BY <1>6, <4>1 DEF RelTo
      <4>4. QED
        BY <3>1, <4>1, <4>2, <4>3
    <3>5. p \notin keys
      <4>1. SUFFICES ASSUME p \in keys PROVE FALSE
        OBVIOUS
      <4>2. IsSubpath(p, p) /\ IsPrefix(p, p)
        BY <1>3, SelfPrefix
      <4>3. RelTo(p, p, <<>>) = <<>> \o Rest(p, p)
        BY <4>2 DEF RelTo
      <4>4. <<>> \o Rest(p, p) = <<>>
        BY <1>3, EmptyRest, EmptyIs
      <4>5. <<p, <<>>>> \in made
        BY <3>1, <4>1, <4>2, <4>3, <4>4
      <4>6. <<k, Rest(k, p)>> \in made
        BY <3>3, <3>4
      <4>7. ~Below(<<k, Rest(k, p)>>[2], <<p, <<>>>>[2])
        BY <1>2, <4>5, <4>6
      <4>8. <<k, Rest(k, p)>>[2] = Rest(k, p) /\ <<p, <<>>>>[2] = <<>>
        OBVIOUS
      <4>9. QED
        BY <1>6, <3>3, <4>7, <4>8
    <3>6. {l \in keys : IsSubpath(l, p)} = AllBelow(p)
      BY <2>2, <3>5 DEF AllBelow, Below
    <3>7. made = {<<l, Rest(l, p)>> : l \in AllBelow(p)}
      BY <3>1, <3>4, <3>6
    <3>8. QED
      BY <1>1, <3>5, <3>7 DEF Wanted
  <2>5. QED
    BY <2>3, <2>4
<1>10. QED
  BY <1>7, <1>8, <1>9

(* The same for both.                                                      *)
LEMMA Downloaded ==
  ASSUME FilesType, Plain, decl.type \in {"file", "directory"}, way = "in", flat = Listed,
         decl.type = "directory" => ~CannotList(decl.path),
         \A x \in flat : Get(x) # {},
         \A f, g \in UNION {Get(x) : x \in flat} : ~Below(f[2], g[2])
  PROVE  UNION {Get(x) : x \in flat} = Wanted
<1>1. CASE decl.type = "file"
  BY <1>1, FileDownloaded DEF Listed
<1>2. CASE decl.type = "directory"
  BY <1>2, DirectoryDownloaded DEF Wanted, Placed
<1>3. QED
  BY <1>1, <1>2

(* A file of a wildcard output, with its place.                            *)
Stored(k) == <<k, IF decl.prefix THEN Rest(k, decl.path) ELSE k>>

(* Put of one file or directory, all of whose files could be copied.       *)
LEMMA Put1Is ==
  ASSUME NEW p, NEW place, uncopied = {}
  PROVE  Put1(<<p, place>>) = IF p \in keys THEN {<<p, place>>}
                              ELSE {<<k, place \o Rest(k, p)>> : k \in AllBelow(p)}
<1>1. <<p, place>>[1] = p /\ <<p, place>>[2] = place
  OBVIOUS
<1>2. AllBelow(p) \ uncopied = AllBelow(p)
  OBVIOUS
<1>3. QED
  BY <1>1, <1>2 DEF Put1

(* The match of the wildcard that leads to the key k.                      *)
Match(k) == decl.path \o First(k, decl.path)

(* The URL of that match.                                                  *)
MatchPlace(k) == IF decl.prefix THEN First(k, decl.path) ELSE Match(k)

(* Put of a match stores the key in its place: as the match itself, or as  *)
(* a file of the directory it is.                                          *)
LEMMA MatchPut ==
  ASSUME FilesType, Tree, NEW k \in AllBelow(decl.path)
  PROVE  /\ Match(k) \in keys => Match(k) = k /\ <<Match(k), MatchPlace(k)>> = Stored(k)
         /\ Match(k) \notin keys => k \in AllBelow(Match(k))
                                  /\ <<k, MatchPlace(k) \o Rest(k, Match(k))>> = Stored(k)
<1> DEFINE p == decl.path
           o == First(k, p)
           x == Match(k)
           place == MatchPlace(k)
<1>0. x = p \o o /\ place = IF decl.prefix THEN o ELSE x
  BY DEF Match, MatchPlace
<1>1. p \in Names
  BY KeyIs
<1>2. k \in keys /\ Below(k, p) /\ k \in Names
  BY <1>1, BelowKey
<1>3. /\ x \in Names /\ IsPrefix(x, k) /\ o \in Names
      /\ o \o Rest(k, x) = Rest(k, p) /\ x \o Rest(k, x) = k
  <2>1. /\ p \o o \in Names /\ IsPrefix(p \o o, k) /\ o \in Names
        /\ o \o Rest(k, p \o o) = Rest(k, p)
        /\ (p \o o) \o Rest(k, p \o o) = k
    BY <1>1, <1>2, FirstName
  <2> HIDE DEF o, x
  <2>2. QED
    BY <1>0, <2>1
<1> HIDE DEF o, x, place
<1>4. x # k => k \in AllBelow(x)
  BY <1>2, <1>3 DEF AllBelow, Below
<1>5. place \o Rest(k, x) = IF decl.prefix THEN Rest(k, p) ELSE k
  BY <1>0, <1>3
<1>6. ASSUME x \in keys PROVE x = k /\ <<x, place>> = Stored(k)
  <2>1. x = k
    BY <1>4, <1>6 DEF Tree, IsDir
  <2>2. Rest(x, x) = <<>> /\ Rest(o, o) = <<>>
    BY <1>3, EmptyRest
  <2>3. o \o <<>> = o
    <3>1. o \o Rest(o, o) = o
      BY <1>3, SelfPrefix, JoinBack
    <3>2. QED
      BY <2>2, <3>1
  <2>4. Rest(k, p) = o
    BY <1>3, <2>1, <2>2, <2>3
  <2>5. QED
    BY <1>0, <2>1, <2>4 DEF Stored
<1>7. ASSUME x \notin keys PROVE k \in AllBelow(x) /\ <<k, place \o Rest(k, x)>> = Stored(k)
  BY <1>2, <1>4, <1>5, <1>7 DEF Stored
<1>8. QED
  BY <1>6, <1>7 DEF x, place

(* A key below a match is below the declared path, and the match is the    *)
(* one that leads to it.                                                   *)
LEMMA BelowMatch ==
  ASSUME NEW p \in Names, NEW k \in Names, Below(k, p), NEW l \in Names, Below(l, p \o First(k, p))
  PROVE  Below(l, p) /\ First(l, p) = First(k, p)
<1> DEFINE a == Len(p)
           o == First(k, p)
           n == k[a + 1]
           x == p \o o
           b == Len(x)
           c == Len(l)
<1>1. Len(o) = 1 /\ o[1] = n
  BY DEF First
<1>0. Below(l, x)
  OBVIOUS
<1> HIDE DEF o
<1>2. /\ x \in Names /\ b = a + Len(o) /\ (\A j \in 1..a : x[j] = p[j])
      /\ \A j \in 1..Len(o) : x[a + j] = o[j]
  <2>1. o \in Names
    BY FirstName DEF o
  <2>2. QED
    BY <2>1, JoinIs
<1> HIDE DEF x
<1>3. a \in Nat /\ c \in Nat
  BY NamesIs
<1>4. IsPrefix(x, l) /\ b < c
  BY <1>0, <1>2, BelowIs
<1>5. \A j \in 1..b : x[j] = l[j]
  BY <1>2, <1>4, PrefixIs
<1>6. x[a + 1] = n
  <2>1. 1 \in 1..1
    OBVIOUS
  <2>2. QED
    BY <1>1, <1>2, <2>1
<1>7. b = a + 1 /\ a + 1 \in 1..b /\ a < c /\ a <= c /\ 1..a \subseteq 1..b
  <2>1. b = a + 1
    BY <1>1, <1>2
  <2> HIDE DEF a, b, c
  <2>2. QED
    BY <1>3, <1>4, <2>1
<1>8. l[a + 1] = n
  BY <1>5, <1>6, <1>7
<1>9. IsPrefix(p, l)
  <2>1. \A j \in 1..a : p[j] = l[j]
    BY <1>2, <1>5, <1>7
  <2>2. QED
    BY <1>7, <2>1, PrefixIs
<1>10. First(l, p) = First(k, p)
  BY <1>8 DEF First
<1>11. QED
  BY <1>7, <1>9, <1>10, BelowIs

(* So it has the same match and the same URL.                              *)
LEMMA SameMatch ==
  ASSUME FilesType, NEW k \in AllBelow(decl.path), NEW l \in AllBelow(Match(k))
  PROVE  l \in AllBelow(decl.path) /\ Match(l) = Match(k) /\ MatchPlace(l) = MatchPlace(k)
<1> DEFINE p == decl.path
<1>1. p \in Names
  BY KeyIs
<1>2. k \in Names /\ Below(k, p)
  BY <1>1, BelowKey
<1>3. l \in keys /\ Below(l, p \o First(k, p)) /\ l \in Names
  BY KeyIs DEF AllBelow, Match
<1>4. Below(l, p) /\ First(l, p) = First(k, p)
  BY <1>1, <1>2, <1>3, BelowMatch
<1>5. QED
  BY <1>3, <1>4 DEF AllBelow, Match, MatchPlace

(* The matches of a wildcard, uploaded, are the files of the directory.    *)
LEMMA MatchesUploaded ==
  ASSUME FilesType, Tree, uncopied = {}, flat = Matched(decl.path)
  PROVE  UNION {Put1(x) : x \in flat} = {Stored(k) : k \in AllBelow(decl.path)}
<1> DEFINE p == decl.path
           m(k) == Match(k)
           q(k) == MatchPlace(k)
<1>1. p \in Names
  BY KeyIs
<1>2. flat = {<<m(k), q(k)>> : k \in AllBelow(p)}
  BY DEF Matched, Match, MatchPlace, First
<1>3. ASSUME NEW k \in AllBelow(p)
      PROVE  /\ m(k) \in keys => m(k) = k /\ <<m(k), q(k)>> = Stored(k)
             /\ m(k) \notin keys => k \in AllBelow(m(k)) /\ <<k, q(k) \o Rest(k, m(k))>> = Stored(k)
  BY MatchPut
<1>4. ASSUME NEW k \in AllBelow(p), NEW l \in AllBelow(m(k))
      PROVE  l \in AllBelow(p) /\ m(l) = m(k) /\ q(l) = q(k)
  BY SameMatch
<1> HIDE DEF m, q
<1>5. ASSUME NEW k \in AllBelow(p) PROVE Stored(k) \in Put1(<<m(k), q(k)>>)
  <2>1. Put1(<<m(k), q(k)>>) = IF m(k) \in keys THEN {<<m(k), q(k)>>}
                              ELSE {<<l, q(k) \o Rest(l, m(k))>> : l \in AllBelow(m(k))}
    BY Put1Is
  <2>2. QED
    BY <1>3, <2>1
<1>6. ASSUME NEW k \in AllBelow(p), NEW f \in Put1(<<m(k), q(k)>>) PROVE \E l \in AllBelow(p) : f = Stored(l)
  <2>1. Put1(<<m(k), q(k)>>) = IF m(k) \in keys THEN {<<m(k), q(k)>>}
                              ELSE {<<l, q(k) \o Rest(l, m(k))>> : l \in AllBelow(m(k))}
    BY Put1Is
  <2>2. CASE m(k) \in keys
    BY <1>3, <2>1, <2>2
  <2>3. CASE m(k) \notin keys
    <3>1. PICK l \in AllBelow(m(k)) : f = <<l, q(k) \o Rest(l, m(k))>>
      BY <1>6, <2>1, <2>3
    <3>2. l \in AllBelow(p) /\ m(l) = m(k) /\ q(l) = q(k)
      BY <1>4
    <3>3. f = Stored(l)
      BY <1>3, <2>3, <3>1, <3>2
    <3>4. QED
      BY <3>2, <3>3
  <2>4. QED
    BY <2>2, <2>3
<1> HIDE DEF p
<1>7. ASSUME NEW f \in UNION {Put1(x) : x \in flat} PROVE f \in {Stored(k) : k \in AllBelow(p)}
  <2>1. PICK k \in AllBelow(p) : f \in Put1(<<m(k), q(k)>>)
    BY <1>2, <1>7
  <2>2. QED
    BY <1>6, <2>1
<1>8. ASSUME NEW k \in AllBelow(p) PROVE Stored(k) \in UNION {Put1(x) : x \in flat}
  BY <1>2, <1>5
<1>9. UNION {Put1(x) : x \in flat} = {Stored(k) : k \in AllBelow(p)}
  BY <1>7, <1>8
<1>10. QED
  BY <1>9 DEF p

(* Outputs that were uploaded without an error, each of whose files could  *)
(* be copied, are stored.                                                  *)
LEMMA Uploaded ==
  ASSUME FilesType, way = "out", uncopied = {}, ~(scratch /\ decl.type = "wildcard"),
         flat = IF decl.type = "directory" THEN Placed ELSE Resolved
  PROVE  UNION {Put1(x) : x \in flat}
           = IF decl.type = "wildcard" THEN {Stored(k) : k \in AllBelow(decl.path)} ELSE Wanted
<1> DEFINE p == decl.path
<1>0. Tree /\ p \in Names
  BY KeyIs DEF FilesType
<1>1. CASE decl.type = "wildcard"
  BY <1>0, <1>1, MatchesUploaded DEF Resolved
<1>2. CASE decl.type = "directory"
  <2>1. ASSUME NEW x \in flat PROVE Put1(x) = {x}
    <3>1. PICK k \in AllBelow(p) : x = <<k, Rest(k, p)>>
      BY <1>2 DEF Placed
    <3>2. k \in keys
      BY DEF AllBelow
    <3>3. QED
      BY <3>1, <3>2, Put1Is
  <2>2. UNION {Put1(x) : x \in flat} = flat
    <3>1. ASSUME NEW f \in UNION {Put1(x) : x \in flat} PROVE f \in flat
      <4>1. PICK x \in flat : f \in Put1(x)
        BY <3>1
      <4>2. QED
        BY <2>1, <4>1, ZenonT(30)
    <3>2. ASSUME NEW f \in flat PROVE f \in UNION {Put1(x) : x \in flat}
      <4>1. f \in Put1(f)
        BY <2>1
      <4>2. QED
        BY <4>1
    <3>3. QED
      BY <3>1, <3>2
  <2>3. QED
    BY <1>2, <2>2 DEF Wanted, Placed
<1>3. CASE decl.type = "file"
  <2>1. flat = {<<p, <<>>>>}
    BY <1>3 DEF Resolved
  <2>2. UNION {Put1(x) : x \in flat} = Put1(<<p, <<>>>>)
    BY <2>1
  <2>3. Put1(<<p, <<>>>>) = IF p \in keys THEN {<<p, <<>>>>}
                            ELSE {<<k, <<>> \o Rest(k, p)>> : k \in AllBelow(p)}
    BY Put1Is
  <2>4. ASSUME NEW k \in AllBelow(p) PROVE <<>> \o Rest(k, p) = Rest(k, p)
    BY <1>0, BelowKey, EmptyIs
  <2>5. QED
    BY <1>3, <2>2, <2>3, <2>4 DEF Wanted
<1>4. QED
  BY <1>1, <1>2, <1>3 DEF FilesType

(* The files an output names.                                              *)
Sent == IF decl.type = "wildcard" THEN {Stored(k) : k \in AllBelow(decl.path)} ELSE Wanted

(* The task and the store do not change.                                   *)
Fixed == UNCHANGED <<way, medium, scratch, keys, marker, decl>>

(* What depends on the task and the store only does not change.            *)
LEMMA FixedIs ==
  ASSUME Fixed
  PROVE  /\ FilesType' <=> FilesType
         /\ Plain' <=> Plain
         /\ Placed' = Placed /\ Listed' = Listed /\ Resolved' = Resolved
         /\ Wanted' = Wanted /\ Sent' = Sent
         /\ CannotList(decl.path)' <=> CannotList(decl.path)
<1>1. /\ way' = way /\ medium' = medium /\ scratch' = scratch /\ keys' = keys
      /\ marker' = marker /\ decl' = decl
  BY DEF Fixed
<1>2. \A p : AllBelow(p)' = AllBelow(p)
  BY <1>1 DEF AllBelow
<1>3. \A p : IsDir(p)' <=> IsDir(p)
  BY <1>2 DEF IsDir
<1>4. Tree' <=> Tree
  BY <1>1, <1>3 DEF Tree
<1>5. FilesType' <=> FilesType
  BY <1>1, <1>4 DEF FilesType
<1>6. Misled' <=> Misled
  BY <1>1 DEF Misled
<1>7. Plain' <=> Plain
  BY <1>1, <1>6 DEF Plain
<1>8. Placed' = Placed
  BY <1>1, <1>2 DEF Placed
<1>9. Wanted' = Wanted
  BY <1>1, <1>2 DEF Wanted
<1>10. \A k : Stored(k)' = Stored(k)
  BY <1>1 DEF Stored
<1>11. Sent' = Sent
  BY <1>1, <1>2, <1>9, <1>10 DEF Sent
<1>12. Resolved' = Resolved
  <2>1. Matched(decl.path)' = Matched(decl.path)
    BY <1>1, <1>2 DEF Matched
  <2>2. QED
    BY <1>1, <2>1 DEF Resolved
<1>13. CannotList(decl.path)' <=> CannotList(decl.path)
  BY <1>1, <1>3 DEF CannotList
<1>14. Listed' = Listed
  <2>1. ByPrefix(decl.path, decl.slash)' = ByPrefix(decl.path, decl.slash)
    BY <1>1, <1>2 DEF ByPrefix
  <2>2. FTPList(decl.path)' = FTPList(decl.path)
    BY <1>1, <1>2, ZenonT(30) DEF FTPList
  <2>3. SwiftList(decl.path, decl.slash)' = SwiftList(decl.path, decl.slash)
    BY <1>1, <2>1 DEF SwiftList
  <2>4. List(decl.path, decl.slash)' = List(decl.path, decl.slash)
    BY <1>1, <1>2, <2>1, <2>2, <2>3 DEF List, S3List, GenericS3List, GoogleList, LocalList
  <2>5. QED
    BY <1>1, <2>4 DEF Listed, PlaceOf
<1>15. QED
  BY <1>5, <1>7, <1>8, <1>9, <1>11, <1>12, <1>13, <1>14

(* FilesExact in these terms.                                              *)
LEMMA ExactIs ==
  FilesExact <=> (step = "ok" /\ uncopied = {} =>
    /\ (way = "in" /\ Plain /\ ~(scratch /\ decl.type = "content"))
       => got = IF decl.type = "content" THEN {<<"content", <<>>>>} ELSE Wanted
    /\ way = "out" /\ ~(scratch /\ decl.type = "wildcard") => got = Sent)
BY DEF FilesExact, Plain, Sent, Stored

(* What a step has to show to keep the invariant.                          *)
LEMMA InvStep ==
  ASSUME FilesInv, Fixed,
         step' \in {"FlattenInputs", "Download", "CopyInputs"} => way = "in",
         step' \in {"resolveWildcards", "CopyOutputs", "FlattenOutputs", "Upload"} => way = "out",
         step' = "Download" => /\ decl.type \in {"file", "directory"} /\ flat' = Listed
                               /\ decl.type = "directory" => ~CannotList(decl.path),
         step' = "CopyInputs" => IF decl.type = "content" THEN got' = {<<"content", <<>>>>}
                                 ELSE Plain => got' = Wanted,
         step' \in {"CopyOutputs", "FlattenOutputs"} => flat' = Resolved,
         step' = "Upload" /\ uncopied' = {}
           => flat' = IF decl.type = "directory" THEN Placed ELSE Resolved,
         step' = "ok" /\ uncopied' = {} =>
           /\ (way = "in" /\ Plain /\ ~(scratch /\ decl.type = "content"))
              => got' = IF decl.type = "content" THEN {<<"content", <<>>>>} ELSE Wanted
           /\ way = "out" /\ ~(scratch /\ decl.type = "wildcard") => got' = Sent
  PROVE  FilesInv'
<1>1. /\ FilesType' <=> FilesType
      /\ Plain' <=> Plain
      /\ Placed' = Placed /\ Listed' = Listed /\ Resolved' = Resolved
      /\ Wanted' = Wanted /\ Sent' = Sent
      /\ CannotList(decl.path)' <=> CannotList(decl.path)
  BY FixedIs
<1>2. way' = way /\ scratch' = scratch /\ decl' = decl
  BY DEF Fixed
<1>3. FilesExact' <=> (step' = "ok" /\ uncopied' = {} =>
        /\ (way' = "in" /\ Plain' /\ ~(scratch' /\ decl'.type = "content"))
           => got' = IF decl'.type = "content" THEN {<<"content", <<>>>>} ELSE Wanted'
        /\ way' = "out" /\ ~(scratch' /\ decl'.type = "wildcard") => got' = Sent')
  BY DEF FilesExact, Plain, Sent, Stored
<1>4. FilesExact'
  BY <1>1, <1>2, <1>3
<1>5. FilesType'
  BY <1>1 DEF FilesInv
<1>6. QED
  BY <1>1, <1>2, <1>4, <1>5 DEF FilesInv

(* FlattenInputs, DownloadInputs and CopyInputsToScratch keep the          *)
(* invariant.                                                              *)
LEMMA InputStep ==
  ASSUME FilesInv, Fixed, FlattenInputs \/ Download1 \/ CopyInputs
  PROVE  FilesInv'
<1>1. CASE FlattenInputs
  <2>1. way = "in" /\ decl.type # "wildcard"
    BY <1>1 DEF FilesInv, FilesType, FlattenInputs
  <2>2. CASE decl.type = "content" /\ step' = "CopyInputs" /\ got' = {<<"content", <<>>>>}
    BY <2>1, <2>2, InvStep
  <2>3. CASE decl.type = "file" /\ flat' = {<<decl.path, <<>>>>} /\ step' = "Download"
    <3>1. flat' = Listed
      BY <2>3 DEF Listed
    <3>2. QED
      BY <2>1, <2>3, <3>1, InvStep
  <2>4. CASE step' = "error"
    BY <2>4, InvStep
  <2>5. CASE /\ decl.type = "directory" /\ ~CannotList(decl.path)
             /\ flat' = {<<k, PlaceOf(k, decl.path)>> : k \in List(decl.path, decl.slash)}
             /\ step' = "Download"
    <3>1. flat' = Listed
      BY <2>5 DEF Listed
    <3>2. QED
      BY <2>1, <2>5, <3>1, InvStep
  <2>6. QED
    BY <1>1, <2>2, <2>3, <2>4, <2>5 DEF FlattenInputs, Return
<1>2. CASE Download1
  <2>1. /\ way = "in" /\ decl.type \in {"file", "directory"} /\ flat = Listed
        /\ decl.type = "directory" => ~CannotList(decl.path)
    BY <1>2 DEF FilesInv, Download1
  <2>2. CASE step' = "error"
    BY <2>2, InvStep
  <2>3. CASE /\ \A x \in flat : Get(x) # {}
             /\ \A f, g \in UNION {Get(x) : x \in flat} : ~Below(f[2], g[2])
             /\ got' = UNION {Get(x) : x \in flat} /\ step' = "CopyInputs"
    <3>1. Plain => got' = Wanted
      <4>1. FilesType
        BY DEF FilesInv
      <4>2. QED
        BY <2>1, <2>3, <4>1, Downloaded
    <3>2. decl.type # "content"
      BY <2>1
    <3>3. QED
      BY <2>1, <2>3, <3>1, <3>2, InvStep
  <2>4. QED
    BY <1>2, <2>2, <2>3 DEF Download1, Return
<1>3. CASE CopyInputs
  <2>1. way = "in" /\ IF decl.type = "content" THEN got = {<<"content", <<>>>>} ELSE Plain => got = Wanted
    BY <1>3 DEF FilesInv, CopyInputs
  <2>2. CASE step' = "ok" /\ got' = got
    BY <2>1, <2>2, InvStep
  <2>3. CASE step' = "ok" /\ scratch /\ decl.type = "content"
    BY <2>1, <2>3, InvStep
  <2>4. CASE step' = "error"
    BY <2>4, InvStep
  <2>5. CASE /\ step' = "ok"
             /\ \E some \in SUBSET {f \in got : f[2] # <<>>} :
                  some # {} /\ got' = got \ some /\ uncopied' = {f[1] : f \in some}
    <3>1. uncopied' # {}
      BY <2>5
    <3>2. QED
      BY <2>5, <3>1, InvStep
  <2>6. QED
    BY <1>3, <2>2, <2>3, <2>4, <2>5 DEF CopyInputs, Return
<1>4. QED
  BY <1>1, <1>2, <1>3

(* resolveWildcards, CopyOutputsToWorkDir, FlattenOutputs and              *)
(* UploadOutputs keep the invariant.                                       *)
LEMMA OutputStep ==
  ASSUME FilesInv, Fixed, resolveWildcards \/ CopyOutputs \/ FlattenOutputs \/ Upload1
  PROVE  FilesInv'
<1>0. way = "out" /\ FilesType
  BY DEF FilesInv, resolveWildcards, CopyOutputs, FlattenOutputs, Upload1
<1>1. CASE resolveWildcards
  <2>1. flat' = Resolved /\ step' = "CopyOutputs"
    BY <1>1 DEF resolveWildcards, Resolved
  <2>2. QED
    BY <1>0, <2>1, InvStep
<1>2. CASE CopyOutputs
  <2>1. flat' = flat /\ flat = Resolved /\ step' \in {"FlattenOutputs", "error"}
    BY <1>2 DEF FilesInv, CopyOutputs, Return
  <2>2. QED
    BY <1>0, <2>1, InvStep
<1>3. CASE FlattenOutputs
  <2>1. flat = Resolved
    BY <1>3 DEF FilesInv, FlattenOutputs
  <2>2. CASE decl.type # "directory" /\ step' = "Upload" /\ flat' = flat
    BY <1>0, <2>1, <2>2, InvStep
  <2>3. CASE step' = "error"
    BY <2>3, InvStep
  <2>4. CASE /\ decl.type = "directory" /\ step' = "Upload" /\ uncopied' = uncopied
             /\ flat' = {<<k, Rest(k, decl.path)>> : k \in AllBelow(decl.path) \ uncopied}
    <3>1. uncopied = {} => flat' = Placed
      BY <2>4 DEF Placed
    <3>2. QED
      BY <1>0, <2>4, <3>1, InvStep
  <2>5. QED
    BY <1>3, <2>2, <2>3, <2>4 DEF FlattenOutputs, Return
<1>4. CASE Upload1
  <2>1. uncopied = {} => flat = IF decl.type = "directory" THEN Placed ELSE Resolved
    BY <1>4 DEF FilesInv, Upload1
  <2>2. CASE step' = "error"
    BY <2>2, InvStep
  <2>3. CASE got' = UNION {Put1(x) : x \in flat} /\ step' = "ok" /\ uncopied' = uncopied
    <3>1. uncopied = {} /\ ~(scratch /\ decl.type = "wildcard") => got' = Sent
      BY <1>0, <2>1, <2>3, Uploaded DEF Sent
    <3>2. QED
      BY <1>0, <2>3, <3>1, InvStep
  <2>4. QED
    BY <1>4, <2>2, <2>3 DEF Upload1, Return
<1>5. QED
  BY <1>1, <1>2, <1>3, <1>4

(* Nothing is staged at first.                                             *)
LEMMA InitFiles == FilesInit => FilesInv
<1> SUFFICES ASSUME FilesInit PROVE FilesInv
  OBVIOUS
<1>1. FilesType
  BY DEF FilesInit, FilesType
<1>2. step \in {"FlattenInputs", "resolveWildcards"} /\ (step = "FlattenInputs" <=> way = "in")
  BY DEF FilesInit
<1>3. way = "in" \/ way = "out"
  BY DEF FilesInit
<1>4. FilesExact
  BY <1>2 DEF FilesExact
<1>5. QED
  BY <1>1, <1>2, <1>3, <1>4 DEF FilesInv

(* Every step of staging keeps the invariant.                              *)
LEMMA FilesStep == FilesInv /\ [FilesNext]_filesVars => FilesInv'
<1>1. ASSUME FilesInv, FilesNext PROVE FilesInv'
  <2>1. Fixed
    BY <1>1 DEF FilesNext, Fixed
  <2>2. QED
    BY <1>1, <2>1, InputStep, OutputStep DEF FilesNext
<1>2. ASSUME FilesInv, UNCHANGED filesVars PROVE FilesInv'
  <2>1. Fixed /\ step' = step /\ flat' = flat /\ got' = got /\ uncopied' = uncopied
    BY <1>2 DEF filesVars, Fixed
  <2>2. step = "ok" /\ uncopied = {} =>
          /\ (way = "in" /\ Plain /\ ~(scratch /\ decl.type = "content"))
             => got = IF decl.type = "content" THEN {<<"content", <<>>>>} ELSE Wanted
          /\ way = "out" /\ ~(scratch /\ decl.type = "wildcard") => got = Sent
    <3>1. FilesExact
      BY <1>2 DEF FilesInv
    <3>2. QED
      BY <3>1, ExactIs
  <2>3. QED
    BY <1>2, <2>1, <2>2, InvStep DEF FilesInv
<1>3. QED
  BY <1>1, <1>2

(* Inputs that were staged without an error are exactly the files the      *)
(* input names, each in its place, and outputs that were staged without an *)
(* error are stored, each at its URL, with the exceptions FilesExact       *)
(* names: for any names, any depth, any objects in the store and each of   *)
(* the storage backends.                                                   *)
THEOREM FilesCorrect == FilesSpec => []FilesExact
<1>1. FilesInv => FilesExact
  BY DEF FilesInv
<1>2. QED
  BY InitFiles, FilesStep, <1>1, PTL DEF FilesSpec
=============================================================================
