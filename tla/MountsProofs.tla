---------------------------- MODULE MountsProofs ----------------------------
(***************************************************************************)
(* Proofs about the paths of a task, for any names, any depth and any      *)
(* number of paths: the directories that FileMapper mounts into the        *)
(* containers.                                                             *)
(***************************************************************************)
EXTENDS FileMapper, SequenceTheorems, FiniteSetTheorems, WellFoundedInduction, TLAPS

(* The provers to try on a step in turn, with the seconds each may take.   *)
USE ZenonT(5), SMTT(20), ZenonT(20), SMTT(40), SMTT(60)

-----------------------------------------------------------------------------
(* Paths.                                                                  *)

(* Paths of any length, the root included.                                 *)
Names == Seq(Name)

(* A path the task may declare has between one and MaxDepth names.         *)
LEMMA PathIs == \A p \in Path : p \in Names /\ Len(p) \in Nat /\ Len(p) >= 1 /\ Len(p) <= MaxDepth
<1>1. ASSUME NEW p \in Path PROVE p \in Names /\ Len(p) \in Nat /\ Len(p) >= 1 /\ Len(p) <= MaxDepth
  <2>1. PICK d \in 1..MaxDepth : p \in [1..d -> Name]
    BY DEF Path
  <2>2. d \in Nat /\ d >= 1 /\ d <= MaxDepth
    BY <2>1, MapperAssumption
  <2>3. p \in Names
    BY <2>1, <2>2, SeqDef DEF Names
  <2>4. Len(p) = d
    BY <2>1, <2>2, <2>3 DEF Names
  <2>5. QED
    BY <2>2, <2>3, <2>4
<1>2. QED
  BY <1>1

(* What IsPrefix says of two paths, name by name.                          *)
LEMMA PrefixIs ==
  ASSUME NEW s \in Names, NEW t \in Names
  PROVE  IsPrefix(s, t) <=> Len(s) <= Len(t) /\ \A k \in 1..Len(s) : s[k] = t[k]
<1>1. Len(s) \in Nat /\ Len(t) \in Nat /\ (\A k \in 1..Len(s) : s[k] \in Name) /\ (\A k \in 1..Len(t) : t[k] \in Name)
  BY LenProperties, ElementOfSeq DEF Names
<1>2. SubSeq(s, 1, Len(s)) = s
  BY SubSeqFull DEF Names
<1>3. CASE Len(s) <= Len(t)
  <2>1. \A k \in 1..Len(s) : t[k] \in Name
    BY <1>1, <1>3
  <2>2. /\ SubSeq(t, 1, Len(s)) \in Seq(Name)
        /\ Len(SubSeq(t, 1, Len(s))) = Len(s)
        /\ \A k \in 1..Len(s) : SubSeq(t, 1, Len(s))[k] = t[k]
    <3>1. /\ SubSeq(t, 1, Len(s)) \in Seq(Name)
          /\ Len(SubSeq(t, 1, Len(s))) = (IF 1 <= Len(s) THEN Len(s) - 1 + 1 ELSE 0)
          /\ \A k \in 1..(Len(s) - 1 + 1) : SubSeq(t, 1, Len(s))[k] = t[1 + k - 1]
      <4>1. 1 \in Int /\ Len(s) \in Int
        BY <1>1
      <4>2. QED
        BY <2>1, <4>1, SubSeqProperties
    <3>2. QED
      BY <1>1, <3>1
  <2>3. SubSeq(t, 1, Len(s)) = s <=> \A k \in 1..Len(s) : s[k] = t[k]
    <3>1. ASSUME \A k \in 1..Len(s) : s[k] = t[k] PROVE SubSeq(t, 1, Len(s)) = s
      <4>1. \A k \in 1..Len(s) : s[k] = SubSeq(t, 1, Len(s))[k]
        BY <2>2, <3>1
      <4>2. QED
        BY <2>2, <4>1, SeqEqual DEF Names
    <3>2. QED
      BY <2>2, <3>1
  <2>4. QED
    BY <1>2, <1>3, <2>3 DEF IsPrefix
<1>4. CASE ~(Len(s) <= Len(t))
  BY <1>4 DEF IsPrefix
<1>5. QED
  BY <1>3, <1>4

(* IsPrefix is reflexive and transitive.                                   *)
LEMMA PrefixOrder ==
  ASSUME NEW s \in Names, NEW t \in Names, NEW u \in Names
  PROVE  /\ IsPrefix(s, s)
         /\ IsPrefix(s, t) /\ IsPrefix(t, u) => IsPrefix(s, u)
<1>1. Len(s) \in Nat /\ Len(t) \in Nat /\ Len(u) \in Nat
  BY DEF Names
<1>2. IsPrefix(s, s)
  BY <1>1, PrefixIs
<1>3. IsPrefix(s, t) /\ IsPrefix(t, u) => IsPrefix(s, u)
  BY <1>1, PrefixIs
<1>4. QED
  BY <1>2, <1>3

(* The directory of a path: one name less, otherwise the same.             *)
LEMMA DirIs ==
  ASSUME NEW s \in Names, Len(s) >= 1
  PROVE  /\ Dir(s) \in Names /\ Len(Dir(s)) = Len(s) - 1
         /\ \A k \in 1..(Len(s) - 1) : Dir(s)[k] = s[k]
         /\ IsPrefix(Dir(s), s)
<1>0. Len(s) \in Nat /\ Len(s) >= 1
  BY LenProperties DEF Names
<1>1. \A k \in 1..Len(s) : s[k] \in Name
  BY ElementOfSeq DEF Names
<1>2. \A k \in 1..(Len(s) - 1) : s[k] \in Name
  BY <1>0, <1>1
<1>3. /\ SubSeq(s, 1, Len(s) - 1) \in Seq(Name)
      /\ Len(SubSeq(s, 1, Len(s) - 1)) = (IF 1 <= Len(s) - 1 THEN Len(s) - 1 - 1 + 1 ELSE 0)
      /\ \A k \in 1..(Len(s) - 1 - 1 + 1) : SubSeq(s, 1, Len(s) - 1)[k] = s[1 + k - 1]
  <2>1. 1 \in Int /\ Len(s) - 1 \in Int
    BY <1>0, <1>1
  <2>2. QED
    BY <1>2, <2>1, SubSeqProperties
<1>4. Dir(s) \in Names /\ Len(Dir(s)) = Len(s) - 1 /\ \A k \in 1..(Len(s) - 1) : Dir(s)[k] = s[k]
  <2>1. Dir(s) = SubSeq(s, 1, Len(s) - 1)
    BY DEF Dir
  <2>2. Dir(s) \in Names
    BY <1>3, <2>1 DEF Names
  <2>3. Len(Dir(s)) = Len(s) - 1
    <3>1. CASE Len(s) > 1
      <4>1. 1 <= Len(s) - 1 /\ Len(s) - 1 - 1 + 1 = Len(s) - 1
        BY <1>0, <3>1
      <4>2. QED
        BY <1>3, <2>1, <4>1
    <3>2. CASE Len(s) = 1
      <4>1. ~(1 <= Len(s) - 1)
        BY <1>0, <3>2
      <4>2. Len(s) - 1 = 0
        BY <1>0, <3>2
      <4>3. QED
        BY <1>3, <2>1, <4>1, <4>2
    <3>3. \A n \in Nat : n >= 1 => n > 1 \/ n = 1
      OBVIOUS
    <3>4. QED
      BY <1>0, <3>1, <3>2, <3>3
  <2>4. ASSUME NEW k \in 1..(Len(s) - 1) PROVE Dir(s)[k] = s[k]
    <3>1. k \in 1..(Len(s) - 1 - 1 + 1) /\ 1 + k - 1 = k
      BY <1>0, <1>1
    <3>2. SubSeq(s, 1, Len(s) - 1)[k] = s[1 + k - 1]
      BY <1>3, <3>1
    <3>3. QED
      BY <2>1, <3>1, <3>2
  <2>5. QED
    BY <2>2, <2>3, <2>4
<1>5. IsPrefix(Dir(s), s)
  BY <1>0, <1>1, <1>4, PrefixIs
<1>6. QED
  BY <1>4, <1>5

-----------------------------------------------------------------------------
(* AddVolume.                                                              *)

(* A set of numbers that is not empty has a smallest one.                  *)
LEMMA Smallest ==
  ASSUME NEW T \in SUBSET Nat, T # {}
  PROVE  \E x \in T : \A y \in T : x <= y
<1>1. PICK x \in T : \A y \in T : ~(<<y, x>> \in OpToRel(<, Nat))
  BY NatLessThanWellFounded, WFMin
<1>2. ASSUME NEW y \in T PROVE x <= y
  <2>1. ~(y < x)
    BY <1>1, <1>2 DEF OpToRel
  <2>2. QED
    BY <2>1
<1>3. QED
  BY <1>1, <1>2

(* A bounded set of numbers that is not empty has a largest one.           *)
LEMMA Largest ==
  ASSUME NEW n \in Nat, NEW T \in SUBSET (0..n), T # {}
  PROVE  \E x \in T : \A y \in T : x >= y
<1> DEFINE U == {n - y : y \in T}
<1>1. U \in SUBSET Nat /\ U # {}
  <2>1. ASSUME NEW y \in T PROVE n - y \in Nat
    <3>1. y \in Nat /\ y <= n
      BY <2>1
    <3>2. QED
      BY <3>1
  <2>2. QED
    BY <2>1
<1>2. PICK u \in U : \A w \in U : u <= w
  <2> HIDE DEF U
  <2>1. QED
    BY <1>1, Smallest
<1>3. PICK x \in T : u = n - x
  BY <1>2
<1>4. ASSUME NEW y \in T PROVE x >= y
  <2>1. n - x <= n - y
    BY <1>2, <1>3, <1>4
  <2>2. QED
    BY <2>1
<1>5. QED
  BY <1>3, <1>4

(* Max chooses a member of such a set.                                     *)
LEMMA MaxIn ==
  ASSUME NEW n \in Nat, NEW T \in SUBSET (0..n), T # {}
  PROVE  Max(T) \in T
<1>1. \E x \in T : \A y \in T : x >= y
  BY Largest
<1>2. QED
  BY <1>1 DEF Max

-----------------------------------------------------------------------------

(* Some volume of the list is the path or above it.                        *)
Covers(vols, p) == \E k \in 1..Len(vols) : IsPrefix(vols[k], p)

(* Among these paths, strings.HasPrefix says what the names say: nothing   *)
(* begins alike without being below.                                       *)
Alike(W) == \A v, w \in W : IsSubpath(v, w) <=> IsPrefix(w, v)

(* AddVolume puts nothing but the new volume into the list.  When no two   *)
(* of the paths begin alike, what was covered stays covered and the new    *)
(* volume is covered too, also when it replaces another one.               *)
LEMMA AddVolumeIs ==
  ASSUME NEW W \in SUBSET Names, NEW vols \in Seq(W), NEW v \in W
  PROVE  /\ AddVolume(vols, v) \in Seq(W)
         /\ Alike(W) => \A p \in Names : Covers(vols, p) \/ IsPrefix(v, p) => Covers(AddVolume(vols, v), p)
<1> DEFINE related == {k \in 1..Len(vols) : IsSubpath(v, vols[k]) \/ IsSubpath(vols[k], v)}
           first == CHOOSE k \in related : \A j \in related : k <= j
           new == AddVolume(vols, v)
<1>1. Len(vols) \in Nat /\ \A k \in 1..Len(vols) : vols[k] \in W
  BY LenProperties, ElementOfSeq
<1>2. CASE related = {}
  <2>1. new = Append(vols, v)
    BY <1>2 DEF AddVolume
  <2>2. /\ Append(vols, v) \in Seq(W)
        /\ Len(Append(vols, v)) = Len(vols) + 1
        /\ \A k \in 1..Len(vols) : Append(vols, v)[k] = vols[k]
        /\ Append(vols, v)[Len(vols) + 1] = v
    BY AppendProperties
  <2>3. 1..Len(vols) \subseteq 1..(Len(vols) + 1) /\ Len(vols) + 1 \in 1..(Len(vols) + 1)
    BY <1>1
  <2>4. \A p \in Names : Covers(vols, p) \/ IsPrefix(v, p) => Covers(Append(vols, v), p)
    BY <2>2, <2>3 DEF Covers
  <2>5. QED
    BY <2>1, <2>2, <2>4
<1>3. CASE related # {}
  <2>1. first \in related
    <3>1. related \in SUBSET Nat
      BY <1>1
    <3> HIDE DEF related
    <3>2. \E k \in related : \A j \in related : k <= j
      BY <1>3, <3>1, Smallest
    <3>3. QED
      BY <3>2
  <2>2. first \in 1..Len(vols) /\ (IsSubpath(v, vols[first]) \/ IsSubpath(vols[first], v)) /\ vols[first] \in W
    BY <1>1, <2>1
  <2>3. new = IF IsSubpath(v, vols[first]) THEN vols ELSE [vols EXCEPT ![first] = v]
    BY <1>3 DEF AddVolume
  <2> HIDE DEF first, related, new
  <2>4. CASE IsSubpath(v, vols[first])
    <3>1. new = vols
      BY <2>3, <2>4
    <3>2. ASSUME Alike(W), NEW p \in Names, IsPrefix(v, p) PROVE Covers(vols, p)
      <4>1. IsPrefix(vols[first], v)
        BY <2>2, <2>4, <3>2 DEF Alike
      <4>2. IsPrefix(vols[first], p)
        BY <2>2, <3>2, <4>1, PrefixOrder
      <4>3. QED
        BY <2>2, <4>2 DEF Covers
    <3>3. QED
      BY <3>1, <3>2 DEF new
  <2>5. CASE ~IsSubpath(v, vols[first])
    <3>1. new = [vols EXCEPT ![first] = v]
      BY <2>3, <2>5
    <3>2. /\ new \in Seq(W) /\ Len(new) = Len(vols)
          /\ \A j \in 1..Len(vols) : new[j] = IF j = first THEN v ELSE vols[j]
      BY <2>2, <3>1, ExceptSeq
    <3>3. ASSUME Alike(W), NEW p \in Names, Covers(vols, p) \/ IsPrefix(v, p) PROVE Covers(new, p)
      <4>1. CASE IsPrefix(v, p)
        BY <2>2, <3>2, <4>1 DEF Covers
      <4>2. CASE Covers(vols, p)
        <5>1. PICK k \in 1..Len(vols) : IsPrefix(vols[k], p)
          BY <4>2 DEF Covers
        <5>2. CASE k = first
          <6>1. IsPrefix(v, vols[first])
            BY <2>2, <2>5, <3>3 DEF Alike
          <6>2. IsPrefix(v, p)
            BY <2>2, <5>1, <5>2, <6>1, PrefixOrder
          <6>3. QED
            BY <4>1, <6>2
        <5>3. CASE k # first
          BY <3>2, <5>1, <5>3 DEF Covers
        <5>4. QED
          BY <5>2, <5>3
      <4>3. QED
        BY <3>3, <4>1, <4>2
    <3>4. QED
      BY <3>2, <3>3 DEF new
  <2>6. QED
    BY <2>4, <2>5
<1>4. QED
  BY <1>2, <1>3

-----------------------------------------------------------------------------
(* The folds of consolidateVolumes, unfolded one path at a time.           *)
(* Induction over the list is replaced by a smallest counterexample.       *)

(* The two functions that Consolidated folds over a list: keep a volume    *)
(* that no input has, and add the directory of an input.                   *)
Op(how, vols, p) ==
  IF how = "keep" THEN (IF p \in Range(inputVolumes) THEN vols ELSE Append(vols, p))
  ELSE AddVolume(vols, Dir(p))

(* f folds Op over every subset of the positions S of seq, the largest     *)
(* position last.                                                          *)
Folding(how, base, seq, S, f) ==
  f = [s \in SUBSET S |-> IF s = {} THEN base ELSE Op(how, f[s \ {Max(s)}], seq[Max(s)])]

(* What such a fold makes of all the positions.                            *)
FoldOf(how, base, seq, S) == (CHOOSE f : Folding(how, base, seq, S, f))[S]

(* The two folds of Consolidated are FoldOf.                               *)
LEMMA FoldIs ==
  ASSUME NEW base, NEW seq
  PROVE  /\ MapThenFoldSet(LAMBDA v, vols : IF v \in Range(inputVolumes) THEN vols ELSE Append(vols, v),
                           base, LAMBDA k : seq[k], Max, DOMAIN seq)
              = FoldOf("keep", base, seq, DOMAIN seq)
         /\ MapThenFoldSet(LAMBDA p, vols : AddVolume(vols, Dir(p)),
                           base, LAMBDA k : seq[k], Max, DOMAIN seq)
              = FoldOf("dir", base, seq, DOMAIN seq)
<1>1. MapThenFoldSet(LAMBDA v, vols : IF v \in Range(inputVolumes) THEN vols ELSE Append(vols, v),
                     base, LAMBDA k : seq[k], Max, DOMAIN seq)
        = FoldOf("keep", base, seq, DOMAIN seq)
  BY DEF MapThenFoldSet, FoldOf, Folding, Op
<1>2. "dir" # "keep"
  OBVIOUS
<1>3. MapThenFoldSet(LAMBDA p, vols : AddVolume(vols, Dir(p)), base, LAMBDA k : seq[k], Max, DOMAIN seq)
        = FoldOf("dir", base, seq, DOMAIN seq)
  BY <1>2 DEF MapThenFoldSet, FoldOf, Folding, Op
<1>4. QED
  BY <1>1, <1>3

(* A family of subsets of a finite set that is not empty has a smallest    *)
(* member.                                                                 *)
LEMMA SmallestPart ==
  ASSUME NEW D, IsFiniteSet(D), NEW X, \A s \in X : s \subseteq D, X # {}
  PROVE  \E s \in X : \A u \in X : u \subseteq s => u = s
<1>0. X \subseteq SUBSET D
  OBVIOUS
<1>1. IsWellFoundedOn(StrictSubsetOrdering(D), SUBSET D)
  BY FS_StrictSubsetOrderingWellFounded, FS_FiniteSubsetsOfFinite
<1>2. PICK s \in X : \A u \in X : ~(<<u, s>> \in StrictSubsetOrdering(D))
  BY <1>0, <1>1, WFMin
<1>3. QED
  BY <1>0, <1>2 DEF StrictSubsetOrdering

(* There is at most one fold over a set of positions: a smallest subset on *)
(* which two of them differ cannot exist.                                  *)
LEMMA FoldUnique ==
  ASSUME NEW how, NEW base, NEW seq, NEW n \in Nat, NEW T \in SUBSET (0..n),
         NEW f, NEW g, Folding(how, base, seq, T, f), Folding(how, base, seq, T, g)
  PROVE  f = g
<1> DEFINE X == {s \in SUBSET T : f[s] # g[s]}
<1>1. X = {}
  <2> SUFFICES ASSUME X # {} PROVE FALSE
    OBVIOUS
  <2>1. PICK s \in X : \A u \in X : u \subseteq s => u = s
    <3>1. \A s \in X : s \subseteq T
      OBVIOUS
    <3>2. IsFiniteSet(T)
      <4>1. IsFiniteSet(0..n)
        BY FS_Interval
      <4>2. QED
        BY <4>1, FS_Subset
    <3> HIDE DEF X
    <3>3. QED
      BY <3>1, <3>2, SmallestPart
  <2>2. s # {}
    BY <2>1 DEF Folding
  <2>3. Max(s) \in s
    BY <2>1, <2>2, MaxIn
  <2>4. f[s \ {Max(s)}] = g[s \ {Max(s)}]
    BY <2>1, <2>3
  <2>5. f[s] = Op(how, f[s \ {Max(s)}], seq[Max(s)]) /\ g[s] = Op(how, g[s \ {Max(s)}], seq[Max(s)])
    BY <2>1, <2>2 DEF Folding
  <2>6. QED
    BY <2>1, <2>4, <2>5
<1>2. \A s \in SUBSET T : f[s] = g[s]
  BY <1>1
<1>3. f = [s \in SUBSET T |-> f[s]] /\ g = [s \in SUBSET T |-> g[s]]
  BY DEF Folding
<1>4. QED
  BY <1>2, <1>3

(* The fold over s is the fold over s without its last position, and then  *)
(* Op.                                                                     *)
Folded(how, base, seq, s) ==
  FoldOf(how, base, seq, s)
    = IF s = {} THEN base ELSE Op(how, FoldOf(how, base, seq, s \ {Max(s)}), seq[Max(s)])

(* If that holds for the proper subsets of T, a fold over T exists, and it *)
(* holds for T.                                                            *)
LEMMA FoldStep ==
  ASSUME NEW how, NEW base, NEW seq, NEW n \in Nat, NEW T \in SUBSET (0..n),
         \A s \in SUBSET T : s # T => Folded(how, base, seq, s)
  PROVE  Folded(how, base, seq, T)
<1> DEFINE F(s) == FoldOf(how, base, seq, s)
           h == [s \in SUBSET T |->
                   IF s = {} THEN base
                   ELSE IF s = T THEN Op(how, F(T \ {Max(T)}), seq[Max(T)]) ELSE F(s)]
<1>1. Folding(how, base, seq, T, h)
  <2>1. ASSUME NEW s \in SUBSET T
        PROVE  h[s] = IF s = {} THEN base ELSE Op(how, h[s \ {Max(s)}], seq[Max(s)])
    <3>1. CASE s = {}
      BY <3>1
    <3>2. CASE s # {}
      <4>1. Max(s) \in s
        BY <3>2, MaxIn
      <4>2. s \ {Max(s)} \in SUBSET T /\ s \ {Max(s)} # T
        BY <4>1
      <4>3. h[s \ {Max(s)}] = F(s \ {Max(s)})
        BY <4>2 DEF Folded
      <4>4. CASE s = T
        BY <3>2, <4>3, <4>4
      <4>5. CASE s # T
        BY <3>2, <4>3, <4>5 DEF Folded
      <4>6. QED
        BY <4>4, <4>5
    <3>3. QED
      BY <3>1, <3>2
  <2>2. h = [s \in SUBSET T |-> h[s]]
    OBVIOUS
  <2> HIDE DEF h
  <2>3. QED
    BY <2>1, <2>2 DEF Folding
<1>2. F(T) = h[T]
  <2> HIDE DEF h
  <2>1. Folding(how, base, seq, T, CHOOSE f : Folding(how, base, seq, T, f))
    BY <1>1
  <2>2. (CHOOSE f : Folding(how, base, seq, T, f)) = h
    BY <1>1, <2>1, FoldUnique
  <2>3. QED
    BY <2>2 DEF FoldOf
<1>3. QED
  BY <1>2 DEF Folded

(* It holds for all sets of positions, for a smallest one for which it     *)
(* does not cannot exist.                                                  *)
LEMMA FoldWorks ==
  ASSUME NEW how, NEW base, NEW seq, NEW n \in Nat
  PROVE  \A s \in SUBSET (0..n) : Folded(how, base, seq, s)
<1> DEFINE X == {s \in SUBSET (0..n) : ~Folded(how, base, seq, s)}
<1> SUFFICES ASSUME X # {} PROVE FALSE
  OBVIOUS
<1>1. PICK s \in X : \A u \in X : u \subseteq s => u = s
  <2>1. (\A s \in X : s \subseteq 0..n) /\ IsFiniteSet(0..n)
    BY FS_Interval
  <2> HIDE DEF X
  <2>2. QED
    BY <2>1, SmallestPart
<1>2. \A u \in SUBSET s : u # s => Folded(how, base, seq, u)
  BY <1>1
<1>3. QED
  BY <1>1, <1>2, FoldStep

-----------------------------------------------------------------------------
(* What the folds cover.                                                   *)

(* The first fold of Consolidated leaves out only volumes of inputs.       *)
Keeps(W, seq, s) ==
  LET r == FoldOf("keep", <<>>, seq, s) IN
  /\ r \in Seq(W)
  /\ \A k \in s : seq[k] \in Range(inputVolumes) \/ \E j \in 1..Len(r) : r[j] = seq[k]

(* One more volume keeps it so.                                            *)
LEMMA KeepsStep ==
  ASSUME NEW W, NEW seq \in Seq(W), NEW s \in SUBSET (1..Len(seq)), s # {}, Keeps(W, seq, s \ {Max(s)})
  PROVE  Keeps(W, seq, s)
<1> DEFINE m == Max(s)
           r == FoldOf("keep", <<>>, seq, s \ {m})
           new == FoldOf("keep", <<>>, seq, s)
<1>1. Len(seq) \in Nat
  BY LenProperties
<1>2. s \in SUBSET (0..Len(seq))
  BY <1>1
<1>3. m \in s
  BY <1>1, <1>2, MaxIn
<1>4. seq[m] \in W
  BY <1>3, ElementOfSeq
<1>5. new = IF seq[m] \in Range(inputVolumes) THEN r ELSE Append(r, seq[m])
  <2>1. Folded("keep", <<>>, seq, s)
    BY <1>1, <1>2, FoldWorks
  <2>2. QED
    BY <2>1 DEF Folded, Op
<1>6. r \in Seq(W) /\ \A k \in s \ {m} : seq[k] \in Range(inputVolumes) \/ \E j \in 1..Len(r) : r[j] = seq[k]
  BY DEF Keeps
<1> HIDE DEF m, r, new
<1>7. CASE seq[m] \in Range(inputVolumes)
  <2>1. new \in Seq(W) /\ \A k \in s : seq[k] \in Range(inputVolumes) \/ \E j \in 1..Len(new) : new[j] = seq[k]
    BY <1>5, <1>6, <1>7
  <2>2. QED
    BY <2>1 DEF Keeps, new
<1>8. CASE seq[m] \notin Range(inputVolumes)
  <2>1. new = Append(r, seq[m])
    BY <1>5, <1>8
  <2>2. /\ new \in Seq(W) /\ Len(new) = Len(r) + 1
        /\ \A j \in 1..Len(r) : new[j] = r[j]
        /\ new[Len(r) + 1] = seq[m]
    BY <1>4, <1>6, <2>1, AppendProperties
  <2>3. 1..Len(r) \subseteq 1..Len(new) /\ Len(r) + 1 \in 1..Len(new)
    <3>1. Len(r) \in Nat
      BY <1>6, LenProperties
    <3>2. QED
      BY <2>2, <3>1
  <2>4. ASSUME NEW k \in s PROVE seq[k] \in Range(inputVolumes) \/ \E j \in 1..Len(new) : new[j] = seq[k]
    <3>1. CASE k = m
      BY <2>2, <2>3, <3>1
    <3>2. CASE k # m
      BY <1>6, <2>2, <2>3, <3>2
    <3>3. QED
      BY <3>1, <3>2
  <2>5. QED
    BY <2>2, <2>4 DEF Keeps, new
<1>9. QED
  BY <1>7, <1>8

(* It holds for the whole list.                                            *)
LEMMA KeepsAll ==
  ASSUME NEW W, NEW seq \in Seq(W)
  PROVE  Keeps(W, seq, DOMAIN seq)
<1> DEFINE X == {s \in SUBSET (1..Len(seq)) : ~Keeps(W, seq, s)}
<1>1. Len(seq) \in Nat /\ DOMAIN seq = 1..Len(seq)
  BY LenProperties
<1>2. X = {}
  <2>1. SUFFICES ASSUME X # {} PROVE FALSE
    OBVIOUS
  <2>2. PICK s \in X : \A u \in X : u \subseteq s => u = s
    <3>1. (\A s \in X : s \subseteq 1..Len(seq)) /\ IsFiniteSet(1..Len(seq))
      BY <1>1, FS_Interval
    <3> HIDE DEF X
    <3>2. QED
      BY <2>1, <3>1, SmallestPart
  <2>3. s \in SUBSET (0..Len(seq)) /\ s \in SUBSET (1..Len(seq)) /\ ~Keeps(W, seq, s)
    BY <1>1, <2>2
  <2>4. CASE s = {}
    <3>1. Folded("keep", <<>>, seq, s)
      BY <1>1, <2>3, FoldWorks
    <3>2. FoldOf("keep", <<>>, seq, s) = <<>>
      BY <2>4, <3>1 DEF Folded
    <3>3. <<>> \in Seq(W)
      BY EmptySeq
    <3>4. Keeps(W, seq, s)
      BY <2>4, <3>2, <3>3 DEF Keeps
    <3>5. QED
      BY <2>3, <3>4
  <2>5. CASE s # {}
    <3>1. Max(s) \in s
      BY <1>1, <2>3, <2>5, MaxIn
    <3>2. Keeps(W, seq, s \ {Max(s)})
      <4>1. s \ {Max(s)} \in SUBSET (1..Len(seq)) /\ s \ {Max(s)} \subseteq s /\ s \ {Max(s)} # s
        BY <2>3, <3>1
      <4>2. s \ {Max(s)} \notin X
        BY <2>2, <4>1
      <4>3. QED
        BY <4>1, <4>2
    <3>3. QED
      BY <2>3, <2>5, <3>2, KeepsStep
  <2>6. QED
    BY <2>4, <2>5
<1>3. QED
  BY <1>1, <1>2

(* The second fold covers what was covered, and the directory of each      *)
(* path.                                                                   *)
Widens(W, base, seq, s) ==
  LET r == FoldOf("dir", base, seq, s) IN
  /\ r \in Seq(W)
  /\ Alike(W) => \A p \in Names :
       Covers(base, p) \/ (\E k \in s : IsPrefix(Dir(seq[k]), p)) => Covers(r, p)

(* One more path keeps it so.                                              *)
LEMMA WidensStep ==
  ASSUME NEW W \in SUBSET Names, NEW base \in Seq(W), NEW seq \in Seq(W), \A k \in 1..Len(seq) : Dir(seq[k]) \in W,
         NEW s \in SUBSET (1..Len(seq)), s # {}, Widens(W, base, seq, s \ {Max(s)})
  PROVE  Widens(W, base, seq, s)
<1> DEFINE m == Max(s)
           r == FoldOf("dir", base, seq, s \ {m})
           new == FoldOf("dir", base, seq, s)
<1>1. Len(seq) \in Nat
  BY LenProperties
<1>2. s \in SUBSET (0..Len(seq))
  BY <1>1
<1>3. m \in s
  BY <1>1, <1>2, MaxIn
<1>4. Dir(seq[m]) \in W
  BY <1>3
<1>5. new = AddVolume(r, Dir(seq[m]))
  <2>1. Folded("dir", base, seq, s)
    BY <1>1, <1>2, FoldWorks
  <2>2. "dir" # "keep"
    OBVIOUS
  <2>3. QED
    BY <2>1, <2>2 DEF Folded, Op
<1>6. /\ r \in Seq(W)
      /\ Alike(W) => \A p \in Names :
           Covers(base, p) \/ (\E k \in s \ {m} : IsPrefix(Dir(seq[k]), p)) => Covers(r, p)
  BY DEF Widens
<1> HIDE DEF m, r, new
<1>7. /\ new \in Seq(W)
      /\ Alike(W) => \A p \in Names : Covers(r, p) \/ IsPrefix(Dir(seq[m]), p) => Covers(new, p)
  BY <1>4, <1>5, <1>6, AddVolumeIs
<1>8. Alike(W) => \A p \in Names :
        Covers(base, p) \/ (\E k \in s : IsPrefix(Dir(seq[k]), p)) => Covers(new, p)
  BY <1>6, <1>7
<1>9. QED
  BY <1>7, <1>8 DEF Widens, new

(* It holds for the whole list.                                            *)
LEMMA WidensAll ==
  ASSUME NEW W \in SUBSET Names, NEW base \in Seq(W), NEW seq \in Seq(W), \A k \in 1..Len(seq) : Dir(seq[k]) \in W
  PROVE  Widens(W, base, seq, DOMAIN seq)
<1> DEFINE X == {s \in SUBSET (1..Len(seq)) : ~Widens(W, base, seq, s)}
<1>1. Len(seq) \in Nat /\ DOMAIN seq = 1..Len(seq)
  BY LenProperties
<1>2. X = {}
  <2>1. SUFFICES ASSUME X # {} PROVE FALSE
    OBVIOUS
  <2>2. PICK s \in X : \A u \in X : u \subseteq s => u = s
    <3>1. (\A s \in X : s \subseteq 1..Len(seq)) /\ IsFiniteSet(1..Len(seq))
      BY <1>1, FS_Interval
    <3> HIDE DEF X
    <3>2. QED
      BY <2>1, <3>1, SmallestPart
  <2>3. s \in SUBSET (0..Len(seq)) /\ s \in SUBSET (1..Len(seq)) /\ ~Widens(W, base, seq, s)
    BY <1>1, <2>2
  <2>4. CASE s = {}
    <3>1. Folded("dir", base, seq, s)
      BY <1>1, <2>3, FoldWorks
    <3>2. FoldOf("dir", base, seq, s) = base
      BY <2>4, <3>1 DEF Folded
    <3>3. Widens(W, base, seq, s)
      BY <2>4, <3>2 DEF Widens
    <3>4. QED
      BY <2>3, <3>3
  <2>5. CASE s # {}
    <3>1. Max(s) \in s
      BY <1>1, <2>3, <2>5, MaxIn
    <3>2. Widens(W, base, seq, s \ {Max(s)})
      <4>1. s \ {Max(s)} \in SUBSET (1..Len(seq)) /\ s \ {Max(s)} \subseteq s /\ s \ {Max(s)} # s
        BY <2>3, <3>1
      <4>2. s \ {Max(s)} \notin X
        BY <2>2, <4>1
      <4>3. QED
        BY <4>1, <4>2
    <3>3. QED
      BY <2>3, <2>5, <3>2, WidensStep
  <2>6. QED
    BY <2>4, <2>5
<1>3. QED
  BY <1>1, <1>2

-----------------------------------------------------------------------------
(* Names that begin alike, and the common ancestor.                        *)

(* What a task may declare.                                                *)
Declared == [kind : Kind, path : Path]

(* The declared paths and all that is above them; every volume is one of   *)
(* these.                                                                  *)
UsedBy(D) == {w \in Names : \E d \in D : IsPrefix(w, d.path)}

(* LookAlike of a set of declarations.                                     *)
LooksAlike(D) ==
  \E d, e \in D : \E k \in 1..MaxDepth :
    /\ k <= Len(d.path) /\ k <= Len(e.path)
    /\ SubSeq(d.path, 1, k - 1) = SubSeq(e.path, 1, k - 1)
    /\ <<d.path[k], e.path[k]>> \in Extends

(* The first n names of a path.                                            *)
LEMMA PartIs ==
  ASSUME NEW s \in Names, NEW n \in Nat, n <= Len(s)
  PROVE  /\ SubSeq(s, 1, n) \in Names /\ Len(SubSeq(s, 1, n)) = n
         /\ \A j \in 1..n : SubSeq(s, 1, n)[j] = s[j]
<1>1. \A j \in 1..Len(s) : s[j] \in Name
  BY ElementOfSeq DEF Names
<1>2. Len(s) \in Nat
  BY LenProperties DEF Names
<1>3. 1 \in Int /\ n \in Int /\ \A j \in 1..n : s[j] \in Name
  BY <1>1, <1>2
<1>4. /\ SubSeq(s, 1, n) \in Seq(Name)
      /\ Len(SubSeq(s, 1, n)) = (IF 1 <= n THEN n - 1 + 1 ELSE 0)
      /\ \A j \in 1..(n - 1 + 1) : SubSeq(s, 1, n)[j] = s[1 + j - 1]
  BY <1>3, SubSeqProperties
<1>5. (IF 1 <= n THEN n - 1 + 1 ELSE 0) = n /\ n - 1 + 1 = n
  OBVIOUS
<1>6. ASSUME NEW j \in 1..n PROVE SubSeq(s, 1, n)[j] = s[j]
  <2>1. 1 + j - 1 = j /\ j \in 1..(n - 1 + 1)
    BY <1>5, <1>6
  <2>2. SubSeq(s, 1, n)[j] = s[1 + j - 1]
    BY <1>4, <2>1
  <2>3. QED
    BY <2>1, <2>2
<1>7. QED
  BY <1>4, <1>5, <1>6 DEF Names

(* Two paths that agree on their first n names have the same part.         *)
LEMMA PartsEqual ==
  ASSUME NEW s \in Names, NEW t \in Names, NEW n \in Nat, n <= Len(s), n <= Len(t),
         \A j \in 1..n : s[j] = t[j]
  PROVE  SubSeq(s, 1, n) = SubSeq(t, 1, n)
<1>1. /\ SubSeq(s, 1, n) \in Names /\ Len(SubSeq(s, 1, n)) = n
      /\ \A j \in 1..n : SubSeq(s, 1, n)[j] = s[j]
  BY PartIs
<1>2. /\ SubSeq(t, 1, n) \in Names /\ Len(SubSeq(t, 1, n)) = n
      /\ \A j \in 1..n : SubSeq(t, 1, n)[j] = t[j]
  BY PartIs
<1>3. \A j \in 1..Len(SubSeq(s, 1, n)) : SubSeq(s, 1, n)[j] = SubSeq(t, 1, n)[j]
  BY <1>1, <1>2
<1> DEFINE a == SubSeq(s, 1, n)
           b == SubSeq(t, 1, n)
<1>4. a \in Seq(Name) /\ b \in Seq(Name) /\ Len(a) = Len(b) /\ \A j \in 1..Len(a) : a[j] = b[j]
  BY <1>1, <1>2, <1>3 DEF Names
<1> HIDE DEF a, b
<1>5. a = b
  BY <1>4, SeqEqual
<1>6. QED
  BY <1>5 DEF a, b

(* When no two declared paths part at names that begin alike, HasPrefix is *)
(* right about them and about all that is above them.                      *)
LEMMA AlikeUsed ==
  ASSUME NEW D \in SUBSET Declared, ~LooksAlike(D)
  PROVE  Alike(UsedBy(D))
<1>1. SUFFICES ASSUME NEW v \in UsedBy(D), NEW w \in UsedBy(D)
               PROVE  IsSubpath(v, w) <=> IsPrefix(w, v)
  BY DEF Alike
<1>2. v \in Names /\ w \in Names
  BY DEF UsedBy
<1>3. PICK e \in D : IsPrefix(v, e.path)
  BY DEF UsedBy
<1>4. PICK d \in D : IsPrefix(w, d.path)
  BY DEF UsedBy
<1>5. e.path \in Path /\ d.path \in Path
  BY DEF Declared
<1>6. /\ e.path \in Names /\ Len(e.path) \in Nat /\ Len(e.path) <= MaxDepth
      /\ d.path \in Names /\ Len(d.path) \in Nat /\ Len(d.path) <= MaxDepth
  BY <1>5, PathIs
<1>7. Len(v) \in Nat /\ Len(w) \in Nat
  BY <1>2, LenProperties DEF Names
<1>8. Len(v) <= Len(e.path) /\ \A k \in 1..Len(v) : v[k] = e.path[k]
  BY <1>2, <1>3, <1>6, PrefixIs
<1>9. Len(w) <= Len(d.path) /\ \A k \in 1..Len(w) : w[k] = d.path[k]
  BY <1>2, <1>4, <1>6, PrefixIs
<1>10. IsPrefix(w, v) <=> Len(w) <= Len(v) /\ \A k \in 1..Len(w) : w[k] = v[k]
  BY <1>2, PrefixIs
<1>11. IsSubpath(v, w) <=> /\ Len(w) <= Len(v)
                           /\ \A k \in 1..(Len(w) - 1) : v[k] = w[k]
                           /\ Len(w) > 0 => v[Len(w)] = w[Len(w)] \/ <<v[Len(w)], w[Len(w)]>> \in Extends
  BY DEF IsSubpath
<1>12. ASSUME IsPrefix(w, v) PROVE IsSubpath(v, w)
  <2>1. Len(w) <= Len(v) /\ \A k \in 1..Len(w) : w[k] = v[k]
    BY <1>10, <1>12
  <2>2. \A k \in 1..(Len(w) - 1) : k \in 1..Len(w)
    BY <1>7
  <2>3. Len(w) > 0 => Len(w) \in 1..Len(w)
    BY <1>7
  <2>4. QED
    BY <1>11, <2>1, <2>2, <2>3
<1>13. ASSUME IsSubpath(v, w) PROVE IsPrefix(w, v)
  <2>1. Len(w) <= Len(v) /\ \A k \in 1..(Len(w) - 1) : v[k] = w[k]
    BY <1>11, <1>13
  <2>2. Len(w) > 0 => v[Len(w)] = w[Len(w)]
    <3>1. SUFFICES ASSUME Len(w) > 0, <<v[Len(w)], w[Len(w)]>> \in Extends PROVE FALSE
      BY <1>11, <1>13
    <3> DEFINE n == Len(w)
    <3>2. n \in Nat /\ n - 1 \in Nat /\ n \in 1..MaxDepth /\ n <= Len(e.path) /\ n <= Len(d.path)
          /\ n - 1 <= Len(e.path) /\ n - 1 <= Len(d.path) /\ n \in 1..Len(w) /\ n \in 1..Len(v)
      BY <1>6, <1>7, <1>8, <1>9, <2>1, <3>1, MapperAssumption
    <3>3. v[n] = e.path[n] /\ w[n] = d.path[n]
      BY <1>8, <1>9, <3>2
    <3>4. \A j \in 1..(n - 1) : e.path[j] = d.path[j]
      <4>1. \A j \in 1..(n - 1) : j \in 1..Len(w) /\ j \in 1..Len(v)
        BY <1>7, <2>1
      <4>2. QED
        BY <1>8, <1>9, <2>1, <4>1
    <3> HIDE DEF n
    <3>5. SubSeq(e.path, 1, n - 1) = SubSeq(d.path, 1, n - 1)
      BY <1>6, <3>2, <3>4, PartsEqual
    <3>6. <<e.path[n], d.path[n]>> \in Extends
      BY <3>1, <3>3 DEF n
    <3>7. LooksAlike(D)
      BY <3>2, <3>5, <3>6 DEF LooksAlike
    <3>8. QED
      BY <3>7
  <2>3. \A k \in 1..Len(w) : k \in 1..(Len(w) - 1) \/ (k = Len(w) /\ Len(w) > 0)
    BY <1>7
  <2>4. QED
    BY <1>10, <2>1, <2>2, <2>3
<1>14. QED
  BY <1>12, <1>13

(* The common ancestor of the inputs is the directory of each of them, or  *)
(* above it.                                                               *)
LEMMA AncestorIs ==
  ASSUME NEW W \in SUBSET Names, NEW seq \in Seq(W), Len(seq) >= 1, \A k \in 1..Len(seq) : Len(seq[k]) >= 1
  PROVE  /\ CommonAncestor(seq) \in Names
         /\ \A k \in 1..Len(seq) : IsPrefix(CommonAncestor(seq), Dir(seq[k]))
<1> DEFINE S == {Dir(p) : p \in Range(seq)}
           C == {n \in 0..MaxDepth : \A d, e \in S : n <= Len(d) /\ SubSeq(d, 1, n) = SubSeq(e, 1, n)}
           q == Dir(seq[1])
<1>1. Len(seq) \in Nat /\ 1 \in 1..Len(seq) /\ DOMAIN seq = 1..Len(seq) /\ \A k \in 1..Len(seq) : seq[k] \in Names
  <2>1. Len(seq) \in Nat /\ DOMAIN seq = 1..Len(seq) /\ \A k \in 1..Len(seq) : seq[k] \in W
    BY LenProperties, ElementOfSeq
  <2>2. QED
    BY <2>1
<1>2. q \in S /\ \A k \in 1..Len(seq) : Dir(seq[k]) \in S
  BY <1>1 DEF Range
<1>3. ASSUME NEW t \in S PROVE t \in Names /\ Len(t) \in Nat
  <2>1. PICK k \in 1..Len(seq) : t = Dir(seq[k])
    BY <1>1 DEF Range
  <2>2. t \in Names
    BY <1>1, <2>1, DirIs
  <2>3. QED
    BY <2>2, LenProperties DEF Names
<1>4. CommonAncestor(seq) = SubSeq(q, 1, Max(C))
  BY DEF CommonAncestor
<1> HIDE DEF S, q
<1>5. 0 \in C
  <2>1. ASSUME NEW t \in S PROVE 0 <= Len(t) /\ SubSeq(t, 1, 0) = <<>>
    <3>1. SubSeq(t, 1, 0) \in Names /\ Len(SubSeq(t, 1, 0)) = 0
      BY <1>3, PartIs
    <3>2. QED
      BY <1>3, <3>1, EmptySeq DEF Names
  <2>2. 0 \in 0..MaxDepth
    BY MapperAssumption
  <2>3. QED
    BY <2>1, <2>2
<1>6. Max(C) \in C
  <2>1. C \in SUBSET (0..MaxDepth) /\ C # {}
    BY <1>5
  <2> HIDE DEF C
  <2>2. QED
    BY <2>1, MapperAssumption, MaxIn
<1> HIDE DEF C
<1>7. PICK n \in C : n = Max(C)
  BY <1>6
<1>8. n \in Nat /\ \A d, e \in S : n <= Len(d) /\ SubSeq(d, 1, n) = SubSeq(e, 1, n)
  <2>1. n \in 0..MaxDepth /\ \A d, e \in S : n <= Len(d) /\ SubSeq(d, 1, n) = SubSeq(e, 1, n)
    BY <1>7 DEF C
  <2>2. QED
    BY <2>1, MapperAssumption
<1>9. SubSeq(q, 1, n) \in Names /\ Len(SubSeq(q, 1, n)) = n
  BY <1>2, <1>3, <1>8, PartIs
<1>10. ASSUME NEW t \in S PROVE IsPrefix(SubSeq(q, 1, n), t)
  BY <1>2, <1>8, <1>9 DEF IsPrefix
<1>11. QED
  BY <1>2, <1>4, <1>7, <1>9, <1>10

-----------------------------------------------------------------------------
(* The directories that are mounted.                                       *)

(* The inductive invariant: every volume is a declared path or above one,  *)
(* no input is the root, and unless names begin alike each declared path   *)
(* is covered, at every step of MapTask and not only at its end.           *)
MountsInv ==
  /\ declared \subseteq Declared
  /\ volumes \in Seq(UsedBy(declared))
  /\ inputVolumes \in Seq(UsedBy(declared)) /\ \A k \in 1..Len(inputVolumes) : Len(inputVolumes[k]) >= 1
  /\ ~LooksAlike(declared) => \A d \in declared : Covers(volumes, d.path)

(* More declarations use more paths, and may begin alike more.             *)
LEMMA UsedGrows ==
  ASSUME NEW D, NEW E, D \subseteq E
  PROVE  /\ UsedBy(D) \subseteq UsedBy(E) /\ UsedBy(E) \subseteq Names
         /\ LooksAlike(D) => LooksAlike(E)
BY DEF UsedBy, LooksAlike

(* AddTmpVolume, AddInput and AddOutput keep the invariant.                *)
LEMMA DeclareStep ==
  ASSUME MountsInv, NEW kind \in Kind, NEW p \in Path, NEW v \in Names, IsPrefix(v, p),
         declared' = declared \cup {[kind |-> kind, path |-> p]}, volumes' = AddVolume(volumes, v),
         inputVolumes' = inputVolumes \/ inputVolumes' = Append(inputVolumes, p)
  PROVE  MountsInv'
<1> DEFINE new == [kind |-> kind, path |-> p]
           W == UsedBy(declared')
<1>1. new \in Declared /\ new.path = p /\ new \in declared' /\ p \in Names /\ Len(p) >= 1
  <2>1. new \in Declared /\ new.path = p /\ new \in declared'
    BY DEF Declared
  <2>2. QED
    BY <2>1, PathIs
<1>2. declared' \subseteq Declared
  BY <1>1 DEF MountsInv
<1> HIDE DEF new
<1>3. UsedBy(declared) \subseteq W /\ W \subseteq Names /\ (LooksAlike(declared) => LooksAlike(declared'))
  BY UsedGrows
<1>4. v \in W /\ p \in W
  <2>1. IsPrefix(p, p)
    BY <1>1, PrefixOrder
  <2>2. QED
    BY <1>1, <2>1 DEF UsedBy
<1>5. volumes \in Seq(W) /\ inputVolumes \in Seq(W)
  BY <1>3, SeqMonotonic DEF MountsInv
<1> HIDE DEF W
<1>6. /\ volumes' \in Seq(W)
      /\ Alike(W) => \A q \in Names : Covers(volumes, q) \/ IsPrefix(v, q) => Covers(volumes', q)
  BY <1>3, <1>4, <1>5, AddVolumeIs
<1>7. inputVolumes' \in Seq(W) /\ \A k \in 1..Len(inputVolumes') : Len(inputVolumes'[k]) >= 1
  <2>1. CASE inputVolumes' = inputVolumes
    BY <1>5, <2>1 DEF MountsInv
  <2>2. CASE inputVolumes' = Append(inputVolumes, p)
    <3>1. /\ inputVolumes' \in Seq(W) /\ Len(inputVolumes') = Len(inputVolumes) + 1
          /\ \A k \in 1..Len(inputVolumes) : inputVolumes'[k] = inputVolumes[k]
          /\ inputVolumes'[Len(inputVolumes) + 1] = p
      BY <1>4, <1>5, <2>2, AppendProperties
    <3>2. Len(inputVolumes) \in Nat
      BY <1>5, LenProperties
    <3>3. \A k \in 1..(Len(inputVolumes) + 1) : k \in 1..Len(inputVolumes) \/ k = Len(inputVolumes) + 1
      BY <3>2
    <3>4. \A k \in 1..Len(inputVolumes) : Len(inputVolumes[k]) >= 1
      BY DEF MountsInv
    <3>5. QED
      BY <1>1, <3>1, <3>3, <3>4
  <2>3. QED
    BY <2>1, <2>2
<1>8. ASSUME ~LooksAlike(declared'), NEW d \in declared' PROVE Covers(volumes', d.path)
  <2>1. Alike(W)
    BY <1>2, <1>8, AlikeUsed DEF W
  <2>2. d.path \in Names
    <3>1. d.path \in Path
      BY <1>2 DEF Declared
    <3>2. QED
      BY <3>1, PathIs
  <2>3. CASE d \in declared
    <3>1. Covers(volumes, d.path)
      BY <1>3, <1>8, <2>3 DEF MountsInv
    <3>2. QED
      BY <1>6, <2>1, <2>2, <3>1
  <2>4. CASE d = new
    BY <1>1, <1>6, <2>1, <2>2, <2>4
  <2>5. QED
    BY <2>3, <2>4 DEF new
<1>9. QED
  BY <1>2, <1>6, <1>7, <1>8 DEF MountsInv, W

(* consolidateVolumes keeps the invariant: a path that a volume of an      *)
(* input covered is below the common ancestor or below the directory of    *)
(* that input.                                                             *)
LEMMA ConsolidateStep ==
  ASSUME MountsInv, volumes' = Consolidated, UNCHANGED <<inputVolumes, declared>>
  PROVE  MountsInv'
<1> DEFINE W == UsedBy(declared)
           others == MapThenFoldSet(LAMBDA v, vols : IF v \in Range(inputVolumes) THEN vols ELSE Append(vols, v),
                                    <<>>, LAMBDA k : volumes[k], Max, DOMAIN volumes)
           ancestor == CommonAncestor(inputVolumes)
           each == MapThenFoldSet(LAMBDA p, vols : AddVolume(vols, Dir(p)),
                                  others, LAMBDA k : inputVolumes[k], Max, DOMAIN inputVolumes)
<1>1. W \in SUBSET Names /\ volumes \in Seq(W) /\ inputVolumes \in Seq(W)
      /\ \A k \in 1..Len(inputVolumes) : Len(inputVolumes[k]) >= 1
  BY DEF MountsInv, UsedBy
<1>2. Keeps(W, volumes, DOMAIN volumes)
  BY <1>1, KeepsAll
<1>3. Len(volumes) \in Nat /\ DOMAIN volumes = 1..Len(volumes)
      /\ Len(inputVolumes) \in Nat /\ DOMAIN inputVolumes = 1..Len(inputVolumes)
  BY <1>1, LenProperties
<1>4. /\ others \in Seq(W)
      /\ \A k \in 1..Len(volumes) : volumes[k] \in Range(inputVolumes) \/ \E j \in 1..Len(others) : others[j] = volumes[k]
  <2>1. others = FoldOf("keep", <<>>, volumes, DOMAIN volumes)
    BY FoldIs
  <2> HIDE DEF others
  <2>2. QED
    BY <1>2, <1>3, <2>1 DEF Keeps
<1>5. each = FoldOf("dir", others, inputVolumes, DOMAIN inputVolumes)
  BY FoldIs
<1>6. volumes' = CASE inputVolumes = <<>> -> volumes
                   [] inputVolumes # <<>> /\ ancestor # <<>> -> AddVolume(others, ancestor)
                   [] OTHER -> each
  BY DEF Consolidated
<1> HIDE DEF others, ancestor, each
<1>7. \A k \in 1..Len(inputVolumes) : inputVolumes[k] \in Names /\ inputVolumes[k] \in W
                                       /\ Dir(inputVolumes[k]) \in W /\ IsPrefix(Dir(inputVolumes[k]), inputVolumes[k])
  <2>1. ASSUME NEW k \in 1..Len(inputVolumes)
        PROVE  inputVolumes[k] \in Names /\ inputVolumes[k] \in W
                 /\ Dir(inputVolumes[k]) \in W /\ IsPrefix(Dir(inputVolumes[k]), inputVolumes[k])
    <3> DEFINE s == inputVolumes[k]
    <3>1. s \in W /\ Len(s) >= 1
      BY <1>1, ElementOfSeq
    <3>2. s \in Names
      BY <1>1, <3>1
    <3> HIDE DEF s
    <3>3. Dir(s) \in Names /\ IsPrefix(Dir(s), s)
      BY <3>1, <3>2, DirIs
    <3>4. PICK d \in declared : IsPrefix(s, d.path)
      BY <3>1 DEF UsedBy
    <3>5. d.path \in Names
      <4>1. d.path \in Path
        BY DEF MountsInv, Declared
      <4>2. QED
        BY <4>1, PathIs
    <3>6. IsPrefix(Dir(s), d.path)
      BY <3>2, <3>3, <3>4, <3>5, PrefixOrder
    <3>7. Dir(s) \in W
      BY <3>3, <3>6 DEF UsedBy
    <3>8. QED
      BY <3>1, <3>2, <3>3, <3>7 DEF s
  <2>2. QED
    BY <2>1
<1> HIDE DEF W
<1>8. ASSUME NEW p \in Names, Covers(volumes, p), ~Covers(others, p)
      PROVE  \E k \in 1..Len(inputVolumes) : IsPrefix(Dir(inputVolumes[k]), p)
  <2>1. PICK j \in 1..Len(volumes) : IsPrefix(volumes[j], p)
    BY <1>8 DEF Covers
  <2>2. volumes[j] \in Range(inputVolumes)
    BY <1>4, <1>8, <2>1 DEF Covers
  <2>3. PICK k \in 1..Len(inputVolumes) : inputVolumes[k] = volumes[j]
    BY <1>3, <2>2 DEF Range
  <2>4. inputVolumes[k] \in Names /\ Dir(inputVolumes[k]) \in Names /\ IsPrefix(Dir(inputVolumes[k]), inputVolumes[k])
    BY <1>1, <1>7
  <2>5. IsPrefix(inputVolumes[k], p)
    BY <2>1, <2>3
  <2>6. IsPrefix(Dir(inputVolumes[k]), p)
    BY <2>4, <2>5, PrefixOrder
  <2>7. QED
    BY <2>6
<1>9. volumes' \in Seq(W) /\ (Alike(W) => \A p \in Names : Covers(volumes, p) => Covers(volumes', p))
  <2>1. CASE inputVolumes = <<>>
    <3>1. volumes' = volumes
      BY <1>6, <2>1
    <3>2. QED
      BY <1>1, <3>1
  <2>2. CASE inputVolumes # <<>> /\ ancestor # <<>>
    <3>1. volumes' = AddVolume(others, ancestor)
      BY <1>6, <2>2
    <3>2. Len(inputVolumes) >= 1 /\ 1 \in 1..Len(inputVolumes)
      <4>1. Len(inputVolumes) \in Nat \ {0}
        BY <1>1, <2>2, EmptySeq
      <4>2. \A n \in Nat \ {0} : n >= 1 /\ 1 \in 1..n
        OBVIOUS
      <4>3. QED
        BY <4>1, <4>2
    <3>3. ancestor \in Names /\ \A k \in 1..Len(inputVolumes) : IsPrefix(ancestor, Dir(inputVolumes[k]))
      BY <1>1, <3>2, AncestorIs DEF ancestor
    <3>4. ancestor \in W
      <4> DEFINE s == Dir(inputVolumes[1])
      <4>1. s \in W /\ s \in Names /\ IsPrefix(ancestor, s)
        BY <1>1, <1>7, <3>2, <3>3
      <4> HIDE DEF s
      <4>2. PICK d \in declared : IsPrefix(s, d.path)
        BY <4>1 DEF UsedBy, W
      <4>3. d.path \in Names
        <5>1. d.path \in Path
          BY DEF MountsInv, Declared
        <5>2. QED
          BY <5>1, PathIs
      <4>4. IsPrefix(ancestor, d.path)
        BY <3>3, <4>1, <4>2, <4>3, PrefixOrder
      <4>5. QED
        BY <3>3, <4>4 DEF UsedBy, W
    <3>5. /\ volumes' \in Seq(W)
          /\ Alike(W) => \A p \in Names : Covers(others, p) \/ IsPrefix(ancestor, p) => Covers(volumes', p)
      BY <1>1, <1>4, <3>1, <3>4, AddVolumeIs
    <3>6. ASSUME NEW p \in Names, Covers(volumes, p), ~Covers(others, p) PROVE IsPrefix(ancestor, p)
      <4>1. PICK k \in 1..Len(inputVolumes) : IsPrefix(Dir(inputVolumes[k]), p)
        BY <1>8, <3>6
      <4>2. Dir(inputVolumes[k]) \in Names
        BY <1>1, <1>7
      <4>3. QED
        BY <3>3, <4>1, <4>2, PrefixOrder
    <3>7. QED
      BY <3>5, <3>6
  <2>3. CASE inputVolumes # <<>> /\ ancestor = <<>>
    <3>1. volumes' = each
      BY <1>6, <2>3
    <3>2. Widens(W, others, inputVolumes, DOMAIN inputVolumes)
      BY <1>1, <1>4, <1>7, WidensAll
    <3>3. /\ each \in Seq(W)
          /\ Alike(W) => \A p \in Names :
               Covers(others, p) \/ (\E k \in 1..Len(inputVolumes) : IsPrefix(Dir(inputVolumes[k]), p)) => Covers(each, p)
      BY <1>3, <1>5, <3>2 DEF Widens
    <3>4. QED
      BY <1>8, <3>1, <3>3
  <2>4. QED
    BY <2>1, <2>2, <2>3
<1>10. ASSUME ~LooksAlike(declared), NEW d \in declared PROVE Covers(volumes', d.path)
  <2>1. Alike(W)
    BY <1>10, AlikeUsed DEF W, MountsInv
  <2>2. d.path \in Names
    <3>1. d.path \in Path
      BY DEF MountsInv, Declared
    <3>2. QED
      BY <3>1, PathIs
  <2>3. Covers(volumes, d.path)
    BY <1>10 DEF MountsInv
  <2>4. QED
    BY <1>9, <2>1, <2>2, <2>3
<1>11. declared' = declared /\ inputVolumes' = inputVolumes
  OBVIOUS
<1>12. QED
  BY <1>1, <1>9, <1>10, <1>11 DEF MountsInv, W

(* MapTask begins with no volume and no declared path.                     *)
LEMMA InitMounts == MapInit => MountsInv
<1>1. SUFFICES ASSUME MapInit PROVE MountsInv
  OBVIOUS
<1>2. declared = {} /\ volumes = <<>> /\ inputVolumes = <<>>
  BY <1>1 DEF MapInit
<1>3. <<>> \in Seq(UsedBy(declared)) /\ Len(<<>>) = 0
  BY EmptySeq
<1>4. 1..0 = {}
  OBVIOUS
<1>5. QED
  BY <1>2, <1>3, <1>4 DEF MountsInv

(* Every step of MapTask keeps the invariant.                              *)
LEMMA MountsStep == MountsInv /\ [MapNext]_mapVars => MountsInv'
<1>1. SUFFICES ASSUME MountsInv, [MapNext]_mapVars PROVE MountsInv'
  OBVIOUS
<1>2. ASSUME NEW p \in Path
      PROVE  /\ p \in Names /\ IsPrefix(p, p)
             /\ Dir(p) \in Names /\ IsPrefix(Dir(p), p)
  <2>1. p \in Names /\ Len(p) >= 1
    BY PathIs
  <2>2. QED
    BY <2>1, DirIs, PrefixOrder
<1>3. ASSUME NEW p \in Path, AddTmpVolume(p) PROVE MountsInv'
  <2>1. declared' = declared \cup {[kind |-> "volume", path |-> p]} /\ volumes' = AddVolume(volumes, p)
        /\ inputVolumes' = inputVolumes
    BY <1>3 DEF AddTmpVolume, Declare
  <2>2. "volume" \in Kind
    BY DEF Kind
  <2>3. QED
    BY <1>1, <1>2, <2>1, <2>2, DeclareStep
<1>4. ASSUME NEW p \in Path, AddInput(p) PROVE MountsInv'
  <2>1. declared' = declared \cup {[kind |-> "input", path |-> p]} /\ volumes' = AddVolume(volumes, p)
        /\ (inputVolumes' = inputVolumes \/ inputVolumes' = Append(inputVolumes, p))
    BY <1>4 DEF AddInput, Declare
  <2>2. "input" \in Kind
    BY DEF Kind
  <2>3. QED
    BY <1>1, <1>2, <2>1, <2>2, DeclareStep
<1>5. ASSUME NEW p \in Path, NEW kind \in {"file", "directory"}, AddOutput(kind, p) PROVE MountsInv'
  <2> DEFINE v == IF kind = "file" THEN Dir(p) ELSE p
  <2>1. declared' = declared \cup {[kind |-> kind, path |-> p]} /\ volumes' = AddVolume(volumes, v)
        /\ inputVolumes' = inputVolumes
    BY <1>5 DEF AddOutput, Declare
  <2>2. kind \in Kind
    BY DEF Kind
  <2>3. v \in Names /\ IsPrefix(v, p)
    BY <1>2
  <2> HIDE DEF v
  <2>4. QED
    BY <1>1, <2>1, <2>2, <2>3, DeclareStep
<1>6. CASE consolidateVolumes
  BY <1>1, <1>6, ConsolidateStep DEF consolidateVolumes
<1>7. CASE UNCHANGED mapVars
  BY <1>1, <1>7 DEF MountsInv, mapVars
<1>8. QED
  BY <1>1, <1>3, <1>4, <1>5, <1>6, <1>7 DEF MapNext

(* Every path the task declares is below a mounted directory when MapTask  *)
(* is done, whatever the order and the nesting of the paths and whatever   *)
(* consolidateVolumes makes of them, when no two names begin alike: for    *)
(* any names, any depth and any number of paths.                           *)
THEOREM MountsCorrect == MapSpec => []MountsCover
<1>1. MountsInv => MountsCover
  <2>1. SUFFICES ASSUME MountsInv, ~LookAlike, NEW d \in declared PROVE Mounted(d.path)
    BY DEF MountsCover
  <2>2. ~LooksAlike(declared)
    BY <2>1 DEF LooksAlike, LookAlike
  <2>3. Covers(volumes, d.path)
    BY <2>1, <2>2 DEF MountsInv
  <2>4. DOMAIN volumes = 1..Len(volumes)
    BY <2>1, LenProperties DEF MountsInv
  <2>5. QED
    BY <2>3, <2>4 DEF Covers, Mounted, Range
<1>2. QED
  BY <1>1, InitMounts, MountsStep, PTL DEF MapSpec
=============================================================================
