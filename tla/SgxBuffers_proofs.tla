------------------------- MODULE SgxBuffers_proofs -------------------------
(***************************************************************************)
(* What is proved of SgxBuffers: its types, that the cache hands out       *)
(* nothing a draw or a render still reads (CacheUnread), and that the      *)
(* driver implements SgxDraws (DrawsKept).                                 *)
(*                                                                         *)
(* The types (Typed) hold for any contexts and whatever fails.  Two        *)
(* invariants carry the rest.  BufInv is about the buffers: who holds each *)
(* (a resource's copy, a batch's list, the cache; refs counts the two), a  *)
(* batch's stamps, and how a buffer's busy mark stands to the renders that *)
(* list it: each is at or before it, or the mark is still to come.  A      *)
(* buffer is reached by one context only (Apart): by its draw, its list,   *)
(* its part of the queue or one of its resources, until it is cached; and  *)
(* the mark is the newest that context was told (LastTold).  KeptInv is    *)
(* about what the buffers hold: what a gathered or queued draw is to show  *)
(* lies in its buffer, where it is listed; a copy in use may be written in *)
(* place only if its resource did not change for those draws.              *)
(*                                                                         *)
(* Both are for contexts that use no resource in common (Private); memory, *)
(* cache and queue they share.  If two draw with one resource CacheUnread  *)
(* can fail: sgx_buffer_bo returns the copy without a reference of the     *)
(* draw's own, and the other context's next draw may let it go before it   *)
(* is listed.  The second asks that a texture's copy gets its memory       *)
(* (TexturesGet): when GEM_CREATE fails for one, copy_texture has made its *)
(* shadow and filled nothing into it.                                      *)
(***************************************************************************)
EXTENDS SgxBuffers, SequenceTheorems, TLAPS

(* No element twice. *)
Once(s) == \A i, j \in DOMAIN s : s[i] = s[j] => i = j

(* A sequence's elements. *)
LEMMA InRange ==
    ASSUME NEW S, NEW s \in Seq(S)
    PROVE  /\ DOMAIN s = 1..Len(s) /\ Len(s) \in Nat
           /\ \A i \in DOMAIN s : s[i] \in S
           /\ \A x : x \in Range(s) <=> \E i \in DOMAIN s : s[i] = x
           /\ Range(s) \subseteq S
  <1>1. DOMAIN s = 1..Len(s) /\ Len(s) \in Nat /\ \A i \in 1..Len(s) : s[i] \in S
    BY LenProperties, ElementOfSeq
  <1>2. \A x : x \in Range(s) <=> \E i \in DOMAIN s : s[i] = x BY DEF Range
  <1> QED BY <1>1, <1>2

(* One element more. *)
LEMMA Appended ==
    ASSUME NEW S, NEW s \in Seq(S), NEW e \in S
    PROVE  /\ Append(s, e) \in Seq(S) /\ Append(s, e) # <<>> /\ Len(Append(s, e)) = Len(s) + 1
           /\ Range(Append(s, e)) = Range(s) \cup {e}
           /\ \A i \in DOMAIN s : i \in DOMAIN Append(s, e) /\ Append(s, e)[i] = s[i]
           /\ \A i \in DOMAIN Append(s, e) :
                 (i \in DOMAIN s /\ Append(s, e)[i] = s[i]) \/ (i = Len(s) + 1 /\ Append(s, e)[i] = e)
           /\ Len(s) + 1 \in DOMAIN Append(s, e) /\ Append(s, e)[Len(s) + 1] = e
           /\ Once(s) /\ e \notin Range(s) => Once(Append(s, e))
  <1> DEFINE t == Append(s, e)
  <1>1. /\ t \in Seq(S) /\ t # <<>> /\ Len(t) = Len(s) + 1 /\ t[Len(s) + 1] = e
        /\ \A i \in 1..Len(s) : t[i] = s[i]
    BY AppendProperties
  <1>2. DOMAIN s = 1..Len(s) /\ Len(s) \in Nat /\ \A x : x \in Range(s) <=> \E i \in DOMAIN s : s[i] = x
    BY InRange
  <1>3. DOMAIN t = 1..Len(t) /\ \A x : x \in Range(t) <=> \E i \in DOMAIN t : t[i] = x
    BY <1>1, InRange
  <1> HIDE DEF t
  <1>4. Len(s) + 1 \in DOMAIN t /\ \A i \in DOMAIN s : i \in DOMAIN t /\ t[i] = s[i]
    BY <1>1, <1>2, <1>3
  <1>5. \A i \in DOMAIN t : (i \in DOMAIN s /\ t[i] = s[i]) \/ (i = Len(s) + 1 /\ t[i] = e)
    BY <1>1, <1>2, <1>3
  <1>6. \A x : x \in Range(t) <=> x \in Range(s) \/ x = e
    BY <1>1, <1>2, <1>3, <1>4, <1>5
  <1>7. ASSUME Once(s), e \notin Range(s) PROVE Once(t)
    BY <1>1, <1>2, <1>4, <1>5, <1>7 DEF Once
  <1>8. Range(t) = Range(s) \cup {e} BY <1>6
  <1> QED BY <1>1, <1>4, <1>5, <1>7, <1>8 DEF t

(* One element of a sequence without repeats taken out of it. *)
Without(s, i) == SubSeq(s, 1, i - 1) \o SubSeq(s, i + 1, Len(s))

(* A sequence without repeats, one of its elements taken out. *)
LEMMA Taken ==
    ASSUME NEW S, NEW s \in Seq(S), Once(s), NEW i \in DOMAIN s
    PROVE  /\ Without(s, i) \in Seq(S) /\ Once(Without(s, i))
           /\ Range(Without(s, i)) = Range(s) \ {s[i]}
  <1>1. /\ DOMAIN s = 1..Len(s) /\ Len(s) \in Nat /\ \A j \in 1..Len(s) : s[j] \in S
        /\ \A x : x \in Range(s) <=> \E j \in DOMAIN s : s[j] = x
    BY InRange
  <1>2. i \in 1..Len(s) BY <1>1
  <1> DEFINE a == SubSeq(s, 1, i - 1)
             z == SubSeq(s, i + 1, Len(s))
             t == a \o z
  <1>3. /\ a \in Seq(S) /\ Len(a) = i - 1
        /\ \A j \in 1..i - 1 : a[j] = s[j]
    <2>1. \A j \in 1..i - 1 : s[j] \in S BY <1>1, <1>2
    <2>2. i - 1 \in Int /\ 1 \in Int BY <1>2, <1>1
    <2>3. /\ a \in Seq(S) /\ Len(a) = IF 1 <= i - 1 THEN i - 1 - 1 + 1 ELSE 0
          /\ \A j \in 1..i - 1 - 1 + 1 : a[j] = s[1 + j - 1]
      BY <2>1, <2>2, SubSeqProperties
    <2> HIDE DEF a
    <2>4. i \in Nat /\ i >= 1 BY <1>1, <1>2
    <2>5. i - 1 - 1 + 1 = i - 1 BY <2>4
    <2>6. Len(a) = i - 1 BY <2>3, <2>4
    <2>7. \A j \in 1..i - 1 : 1 + j - 1 = j BY <2>4
    <2> QED BY <2>3, <2>5, <2>6, <2>7
  <1>4. /\ z \in Seq(S) /\ Len(z) = Len(s) - i
        /\ \A j \in 1..Len(s) - i : z[j] = s[i + j]
    <2>1. \A j \in i + 1..Len(s) : s[j] \in S BY <1>1, <1>2
    <2>2. i + 1 \in Int /\ Len(s) \in Int BY <1>2, <1>1
    <2>3. /\ z \in Seq(S) /\ Len(z) = IF i + 1 <= Len(s) THEN Len(s) - (i + 1) + 1 ELSE 0
          /\ \A j \in 1..Len(s) - (i + 1) + 1 : z[j] = s[i + 1 + j - 1]
      BY <2>1, <2>2, SubSeqProperties
    <2> HIDE DEF z
    <2>4. i \in Nat /\ i <= Len(s) BY <1>1, <1>2
    <2>5. Len(s) - (i + 1) + 1 = Len(s) - i BY <1>1, <2>4
    <2>6. i + 1 <= Len(s) => Len(z) = Len(s) - i BY <2>3, <2>5
    <2>7. ~(i + 1 <= Len(s)) => Len(z) = 0 /\ Len(s) = i BY <1>1, <2>3, <2>4
    <2>8. Len(z) = Len(s) - i BY <1>1, <2>4, <2>6, <2>7
    <2>9. \A j \in 1..Len(s) - i : i + 1 + j - 1 = i + j BY <2>4
    <2> QED BY <2>3, <2>5, <2>8, <2>9
  <1>5. /\ t \in Seq(S) /\ Len(t) = Len(a) + Len(z)
        /\ \A j \in 1..Len(a) + Len(z) : t[j] = IF j <= Len(a) THEN a[j] ELSE z[j - Len(a)]
    BY <1>3, <1>4, ConcatProperties
  <1>6. DOMAIN t = 1..Len(t) /\ \A x : x \in Range(t) <=> \E j \in DOMAIN t : t[j] = x
    BY <1>5, InRange
  <1> HIDE DEF a, z, t
  <1>7. DOMAIN t = 1..Len(s) - 1 BY <1>1, <1>2, <1>3, <1>4, <1>5, <1>6
  <1>8. \A j \in 1..Len(s) - 1 : t[j] = IF j < i THEN s[j] ELSE s[j + 1]
    <2> TAKE j \in 1..Len(s) - 1
    <2>1. j \in Int /\ Len(s) \in Int /\ i \in Int BY <1>1, <1>2
    <2>2. CASE j < i BY <1>1, <1>2, <1>3, <1>4, <1>5, <2>1, <2>2
    <2>3. CASE ~(j < i)
      <3>1. j - (i - 1) \in 1..Len(s) - i BY <1>1, <1>2, <2>1, <2>3
      <3>2. t[j] = z[j - (i - 1)] BY <1>1, <1>2, <1>3, <1>4, <1>5, <2>1, <2>3
      <3> QED BY <1>4, <3>1, <3>2, <2>1, <2>3
    <2> QED BY <2>2, <2>3
  <1>9. Once(t) BY <1>1, <1>2, <1>7, <1>8 DEF Once
  <1>10. ASSUME NEW x \in Range(s), x # s[i] PROVE x \in Range(t)
    <2>1. PICK j \in 1..Len(s) : s[j] = x BY <1>1
    <2>2. CASE j < i
      <3>1. j \in 1..Len(s) - 1 BY <1>1, <1>2, <2>2
      <3> QED BY <1>6, <1>7, <1>8, <2>1, <2>2, <3>1
    <2>3. CASE j > i
      <3>1. j - 1 \in 1..Len(s) - 1 /\ ~(j - 1 < i) /\ j - 1 + 1 = j BY <1>1, <1>2, <2>3
      <3>2. t[j - 1] = x BY <1>8, <2>1, <3>1
      <3> QED BY <1>6, <1>7, <3>1, <3>2
    <2> QED BY <1>1, <1>2, <1>10, <2>1, <2>2, <2>3
  <1>11. ASSUME NEW x \in Range(t) PROVE x \in Range(s) /\ x # s[i]
    <2>1. PICK j \in 1..Len(s) - 1 : t[j] = x BY <1>6, <1>7
    <2>2. CASE j < i
      <3>1. j \in 1..Len(s) /\ j # i BY <1>1, <1>2, <2>2
      <3> QED BY <1>1, <1>8, <2>1, <2>2, <3>1 DEF Once
    <2>3. CASE ~(j < i)
      <3>1. j + 1 \in 1..Len(s) /\ j + 1 # i BY <1>1, <1>2, <2>3
      <3> QED BY <1>1, <1>8, <2>1, <2>3, <3>1 DEF Once
    <2> QED BY <2>2, <2>3
  <1>12. Range(t) = Range(s) \ {s[i]} BY <1>10, <1>11
  <1> QED BY <1>5, <1>9, <1>12 DEF Without, t, a, z

(* The first n taken off. *)
LEMMA Shorter ==
    ASSUME NEW S, NEW s \in Seq(S), Once(s), NEW n \in 0..Len(s)
    PROVE  /\ SubSeq(s, n + 1, Len(s)) \in Seq(S) /\ Once(SubSeq(s, n + 1, Len(s)))
           /\ Range(SubSeq(s, n + 1, Len(s))) = {x \in Range(s) : \A j \in 1..n : s[j] # x}
  <1>1. /\ DOMAIN s = 1..Len(s) /\ Len(s) \in Nat /\ \A j \in 1..Len(s) : s[j] \in S
        /\ \A x : x \in Range(s) <=> \E j \in DOMAIN s : s[j] = x
    BY InRange
  <1> DEFINE t == SubSeq(s, n + 1, Len(s))
  <1>2. n \in Nat /\ n <= Len(s) /\ Len(s) \in Nat BY <1>1
  <1>3. \A j \in n + 1..Len(s) : s[j] \in S BY <1>1, <1>2
  <1>4. n + 1 \in Int /\ Len(s) \in Int BY <1>1, <1>2
  <1>5. /\ t \in Seq(S) /\ Len(t) = IF n + 1 <= Len(s) THEN Len(s) - (n + 1) + 1 ELSE 0
        /\ \A j \in 1..Len(s) - (n + 1) + 1 : t[j] = s[n + 1 + j - 1]
    BY <1>3, <1>4, SubSeqProperties
  <1>6. DOMAIN t = 1..Len(t) /\ \A x : x \in Range(t) <=> \E j \in DOMAIN t : t[j] = x
    BY <1>5, InRange
  <1> HIDE DEF t
  <1>7. DOMAIN t = 1..Len(s) - n /\ \A j \in 1..Len(s) - n : t[j] = s[n + j]
    <2>1. Len(s) - (n + 1) + 1 = Len(s) - n BY <1>1, <1>2
    <2>2. Len(t) = Len(s) - n
      <3>1. n + 1 <= Len(s) => Len(t) = Len(s) - n BY <1>1, <1>2, <1>5
      <3>2. ~(n + 1 <= Len(s)) => Len(s) = n BY <1>2
      <3>3. ~(n + 1 <= Len(s)) => Len(t) = 0 BY <1>5
      <3>4. Len(s) = n => Len(s) - n = 0 BY <1>2
      <3> QED BY <3>1, <3>2, <3>3, <3>4
    <2>3. \A j \in 1..Len(s) - n : n + 1 + j - 1 = n + j BY <1>1, <1>2
    <2> QED BY <1>5, <1>6, <2>1, <2>2, <2>3
  <1>8. Once(t)
    <2> SUFFICES ASSUME NEW j \in DOMAIN t, NEW k \in DOMAIN t, t[j] = t[k] PROVE j = k BY DEF Once
    <2>1. n + j \in DOMAIN s /\ n + k \in DOMAIN s /\ s[n + j] = s[n + k] /\ j \in Int /\ k \in Int
      BY <1>1, <1>2, <1>7
    <2>2. n + j = n + k BY <2>1 DEF Once
    <2> QED BY <1>2, <2>1, <2>2
  <1>9. ASSUME NEW x \in Range(t) PROVE x \in Range(s) /\ \A j \in 1..n : s[j] # x
    <2>1. PICK j \in 1..Len(s) - n : s[n + j] = x BY <1>6, <1>7
    <2>2. n + j \in 1..Len(s) BY <1>1, <1>2
    <2>3. \A k \in 1..n : k \in 1..Len(s) /\ k # n + j BY <1>1, <1>2
    <2> QED BY <1>1, <2>1, <2>2, <2>3 DEF Once
  <1>10. ASSUME NEW x \in Range(s), \A j \in 1..n : s[j] # x PROVE x \in Range(t)
    <2>1. PICK j \in 1..Len(s) : s[j] = x BY <1>1
    <2>2. j \notin 1..n BY <1>10, <2>1
    <2>3. j - n \in 1..Len(s) - n /\ n + (j - n) = j BY <1>1, <1>2, <2>2
    <2> QED BY <1>6, <1>7, <2>1, <2>3
  <1>11. Range(t) = {x \in Range(s) : \A j \in 1..n : s[j] # x} BY <1>9, <1>10
  <1> QED BY <1>5, <1>8, <1>11 DEF t

(* The first element, and those after it. *)
LEMMA HeadTail ==
    ASSUME NEW S, NEW s \in Seq(S), s # <<>>
    PROVE  /\ Head(s) \in S /\ Head(s) \in Range(s) /\ Head(s) = s[1] /\ 1 \in DOMAIN s
           /\ Tail(s) \in Seq(S) /\ Len(Tail(s)) = Len(s) - 1 /\ Len(s) \in Nat \ {0}
           /\ \A i \in DOMAIN Tail(s) : i + 1 \in DOMAIN s /\ Tail(s)[i] = s[i + 1]
           /\ Once(s) => Once(Tail(s)) /\ Range(Tail(s)) = Range(s) \ {Head(s)}
  <1> DEFINE t == Tail(s)
  <1>1. /\ Head(s) \in S /\ t \in Seq(S) /\ Len(t) = Len(s) - 1
        /\ \A i \in 1..Len(t) : t[i] = s[i + 1]
    BY HeadTailProperties
  <1>2. DOMAIN s = 1..Len(s) /\ \A x : x \in Range(s) <=> \E i \in DOMAIN s : s[i] = x BY InRange
  <1>3. Len(s) \in Nat \ {0} BY EmptySeq
  <1>4. DOMAIN t = 1..Len(t) /\ \A x : x \in Range(t) <=> \E i \in DOMAIN t : t[i] = x
    BY <1>1, InRange
  <1>5. Head(s) = s[1] OBVIOUS
  <1> HIDE DEF t
  <1>6. 1 \in DOMAIN s BY <1>2, <1>3
  <1>7. Head(s) \in Range(s) BY <1>2, <1>5, <1>6
  <1>8. \A i \in DOMAIN t : i \in Int /\ i + 1 \in DOMAIN s /\ i + 1 # 1 /\ t[i] = s[i + 1]
    BY <1>1, <1>2, <1>3, <1>4
  <1>9. ASSUME Once(s) PROVE Once(t) /\ Range(t) = Range(s) \ {Head(s)}
    <2>1. Once(t) BY <1>8, <1>9 DEF Once
    <2>2. ASSUME NEW x \in Range(t) PROVE x \in Range(s) /\ x # Head(s)
      <3>1. PICK i \in DOMAIN t : t[i] = x BY <1>4
      <3> QED BY <1>2, <1>5, <1>6, <1>8, <1>9, <3>1 DEF Once
    <2>3. ASSUME NEW x \in Range(s), x # Head(s) PROVE x \in Range(t)
      <3>1. PICK i \in DOMAIN s : s[i] = x BY <1>2
      <3>2. i # 1 BY <1>5, <2>3, <3>1
      <3>3. i - 1 \in DOMAIN t /\ (i - 1) + 1 = i BY <1>1, <1>2, <1>3, <1>4, <3>2
      <3> QED BY <1>4, <1>8, <3>1, <3>3
    <2> QED BY <2>1, <2>2, <2>3
  <1> QED BY <1>1, <1>3, <1>5, <1>6, <1>7, <1>8, <1>9 DEF t

(* A sequence's image, element by element. *)
Image(f, s) == [i \in DOMAIN s |-> f[s[i]]]
IsImage(t, f, s, T) ==
    /\ t \in Seq(T) /\ Len(t) = Len(s)
    /\ \A i \in DOMAIN s : t[i] = f[s[i]]
    /\ s = <<>> <=> t = <<>>

(* The image of a sequence is one, as long. *)
LEMMA Images ==
    ASSUME NEW S, NEW T, NEW f \in [S -> T], NEW s \in Seq(S)
    PROVE  IsImage(Image(f, s), f, s, T)
  <1>1. DOMAIN s = 1..Len(s) /\ Len(s) \in Nat /\ \A i \in DOMAIN s : s[i] \in S BY InRange
  <1>2. Image(f, s) \in [1..Len(s) -> T] BY <1>1 DEF Image
  <1>3. Image(f, s) \in Seq(T) BY <1>1, <1>2, SeqDef
  <1>4. DOMAIN Image(f, s) = 1..Len(s) BY <1>1 DEF Image
  <1>5. DOMAIN Image(f, s) = 1..Len(Image(f, s)) /\ Len(Image(f, s)) \in Nat BY <1>3, InRange
  <1>6. Len(Image(f, s)) = Len(s)
    <2> DEFINE n == Len(Image(f, s))
               m == Len(s)
    <2>1. 1..n = 1..m /\ n \in Nat /\ m \in Nat BY <1>1, <1>4, <1>5
    <2> HIDE DEF n, m
    <2>2. n = m
      <3>1. CASE n = 0 BY <2>1, <3>1
      <3>2. CASE n # 0
        <4>1. n \in 1..m BY <2>1, <3>2
        <4>2. m \in 1..n BY <2>1, <4>1
        <4> QED BY <2>1, <4>1, <4>2
      <3> QED BY <3>1, <3>2
    <2> QED BY <2>2 DEF n, m
  <1>7. \A i \in DOMAIN s : Image(f, s)[i] = f[s[i]] BY DEF Image
  <1>8. s = <<>> <=> Len(s) = 0 BY EmptySeq
  <1>9. Image(f, s) = <<>> <=> Len(Image(f, s)) = 0 BY <1>3, EmptySeq
  <1> QED BY <1>3, <1>6, <1>7, <1>8, <1>9 DEF IsImage

(* The image of one element more. *)
LEMMA ImageAppended ==
    ASSUME NEW S, NEW T, NEW f \in [S -> T], NEW s \in Seq(S), NEW e \in S
    PROVE  Image(f, Append(s, e)) = Append(Image(f, s), f[e])
  <1> DEFINE a == Append(s, e)
             ia == Image(f, a)
             b == Append(Image(f, s), f[e])
  <1>1. DOMAIN s = 1..Len(s) /\ Len(s) \in Nat BY InRange
  <1>2. /\ a \in Seq(S) /\ Len(a) = Len(s) + 1
        /\ \A i \in DOMAIN s : i \in DOMAIN a /\ a[i] = s[i]
        /\ Len(s) + 1 \in DOMAIN a /\ a[Len(s) + 1] = e
    BY Appended
  <1>3. /\ Image(f, s) \in Seq(T) /\ Len(Image(f, s)) = Len(s)
        /\ \A i \in DOMAIN s : Image(f, s)[i] = f[s[i]]
    <2>1. IsImage(Image(f, s), f, s, T) BY Images
    <2> QED BY <2>1 DEF IsImage
  <1>4. ia \in Seq(T) /\ Len(ia) = Len(a) /\ \A i \in DOMAIN a : ia[i] = f[a[i]]
    <2> HIDE DEF a
    <2>1. a \in Seq(S) BY <1>2
    <2>2. IsImage(Image(f, a), f, a, T) BY <2>1, Images
    <2> QED BY <2>2 DEF IsImage
  <1>5. f[e] \in T OBVIOUS
  <1>6. /\ b \in Seq(T) /\ Len(b) = Len(s) + 1 /\ b[Len(s) + 1] = f[e]
        /\ \A i \in 1..Len(s) : b[i] = Image(f, s)[i]
    BY <1>3, <1>5, AppendProperties
  <1> HIDE DEF a, ia, b
  <1>7. \A i \in 1..Len(ia) : ia[i] = b[i]
    <2> TAKE i \in 1..Len(ia)
    <2>1. CASE i = Len(s) + 1 BY <1>2, <1>4, <1>6, <2>1
    <2>2. CASE i # Len(s) + 1
      <3>1. i \in DOMAIN s BY <1>1, <1>2, <1>4, <2>2
      <3> QED BY <1>1, <1>2, <1>3, <1>4, <1>6, <3>1
    <2> QED BY <2>1, <2>2
  <1>8. ia = b BY <1>2, <1>4, <1>6, <1>7, SeqEqual
  <1> QED BY <1>8 DEF a, ia, b

TailImage(f, s) ==
    /\ Image(f, Tail(s)) = Tail(Image(f, s)) /\ Image(f, s) # <<>>
    /\ Head(Image(f, s)) = f[Head(s)]

(* The image of the first, of those after it. *)
LEMMA ImageTail ==
    ASSUME NEW S, NEW T, NEW f \in [S -> T], NEW s \in Seq(S), s # <<>>
    PROVE  TailImage(f, s)
  <1> DEFINE a == Tail(s)
             ia == Image(f, a)
             is == Image(f, s)
             b == Tail(is)
  <1>1. is \in Seq(T) /\ Len(is) = Len(s) /\ is # <<>> /\ \A i \in DOMAIN s : is[i] = f[s[i]]
    <2>1. IsImage(Image(f, s), f, s, T) BY Images
    <2> QED BY <2>1 DEF IsImage
  <1>2. /\ a \in Seq(S) /\ Len(a) = Len(s) - 1 /\ Head(s) = s[1] /\ 1 \in DOMAIN s
        /\ \A i \in DOMAIN a : i + 1 \in DOMAIN s /\ a[i] = s[i + 1]
    BY HeadTail
  <1>3. ia \in Seq(T) /\ Len(ia) = Len(a) /\ \A i \in DOMAIN a : ia[i] = f[a[i]]
    <2> HIDE DEF a
    <2>1. a \in Seq(S) BY <1>2
    <2>2. IsImage(Image(f, a), f, a, T) BY <2>1, Images
    <2> QED BY <2>2 DEF IsImage
  <1>4. /\ b \in Seq(T) /\ Len(b) = Len(is) - 1 /\ Head(is) = is[1]
        /\ \A i \in DOMAIN b : i + 1 \in DOMAIN is /\ b[i] = is[i + 1]
    BY <1>1, HeadTail
  <1>5. DOMAIN a = 1..Len(a) /\ DOMAIN b = 1..Len(b) BY <1>2, <1>4, InRange
  <1> HIDE DEF a, ia, is, b
  <1>6. \A i \in 1..Len(ia) : ia[i] = b[i]
    <2> TAKE i \in 1..Len(ia)
    <2>1. i \in DOMAIN a /\ i \in DOMAIN b BY <1>1, <1>2, <1>3, <1>4, <1>5
    <2>2. ia[i] = f[s[i + 1]] /\ i + 1 \in DOMAIN s BY <1>2, <1>3, <2>1
    <2>3. b[i] = is[i + 1] BY <1>4, <2>1
    <2> QED BY <1>1, <2>2, <2>3
  <1>7. Len(ia) = Len(b) BY <1>1, <1>2, <1>3, <1>4
  <1>8. ia = b BY <1>3, <1>4, <1>6, <1>7, SeqEqual
  <1>9. Head(is) = f[Head(s)] BY <1>1, <1>2, <1>4
  <1> QED BY <1>1, <1>8, <1>9 DEF a, ia, is, b, TailImage

-----------------------------------------------------------------------------
(* The pool: HELD are the buffers that resources hold, LISTED those that   *)
(* batches do; refs counts the holders beyond the first.                   *)
States == {"free", "used", "cache"}
Content == [Parts -> 0..Undefined]

PoolTypes(p) ==
    p \in [at : [Bos -> States], refs : [Bos -> Nat], stamp : [Bos -> Ctxs \cup {None}],
           busy : [Bos -> 0..MaxQueued], mem : [Bos -> Content], cache : Seq(Bos)]
Counted(p, held, listed) ==
    \A b \in Bos : /\ p.at[b] = "used" <=> b \in held \/ b \in listed
                   /\ p.refs[b] = IF b \in held /\ b \in listed THEN 1 ELSE 0
Cached(p) ==
    /\ Once(p.cache)
    /\ \A b \in Bos : p.at[b] = "cache" <=> b \in Range(p.cache)
PoolIs(p, held, listed) == PoolTypes(p) /\ Counted(p, held, listed) /\ Cached(p)

(* The two kinds of holders count the same. *)
LEMMA Swapped ==
    ASSUME NEW p, NEW held, NEW listed
    PROVE  PoolIs(p, held, listed) <=> PoolIs(p, listed, held)
  BY DEF PoolIs, Counted

(* One holder lets go: the buffer is the others', or the cache's. *)
LEMMA Destroyed ==
    ASSUME NEW p, NEW held, NEW listed, PoolIs(p, held, listed), NEW b \in Bos, b \in held
    PROVE  LET q == BoDestroy(p, b)
           IN  /\ PoolIs(q, held \ {b}, listed)
               /\ q.busy = p.busy /\ q.mem = p.mem
               /\ \A a \in Bos : q.stamp[a] = IF a = b /\ b \notin listed THEN None ELSE p.stamp[a]
  <1> DEFINE q == BoDestroy(p, b)
  <1>1. PoolTypes(p) /\ Counted(p, held, listed) /\ Cached(p) BY DEF PoolIs
  <1>2. CASE b \in listed
    <2>1. p.refs[b] = 1 BY <1>1, <1>2 DEF Counted
    <2>2. q = [p EXCEPT !.refs[b] = @ - 1] BY <2>1 DEF BoDestroy
    <2>3. /\ PoolTypes(q) /\ q.at = p.at /\ q.stamp = p.stamp /\ q.busy = p.busy /\ q.mem = p.mem
          /\ q.cache = p.cache /\ \A a \in Bos : q.refs[a] = IF a = b THEN 0 ELSE p.refs[a]
      <3> DEFINE refs == [p.refs EXCEPT ![b] = p.refs[b] - 1]
      <3>1. refs \in [Bos -> Nat] /\ \A a \in Bos : refs[a] = IF a = b THEN 0 ELSE p.refs[a]
        BY <1>1, <2>1 DEF PoolTypes
      <3>2. q = [p EXCEPT !.refs = refs] BY <1>1, <2>2 DEF PoolTypes
      <3> HIDE DEF refs, q
      <3> QED BY <1>1, <3>1, <3>2 DEF PoolTypes
    <2> HIDE DEF q
    <2>4. Counted(q, held \ {b}, listed) BY <1>1, <1>2, <2>3 DEF Counted
    <2>5. Cached(q) BY <1>1, <2>3 DEF Cached
    <2>6. PoolIs(q, held \ {b}, listed) BY <2>3, <2>4, <2>5 DEF PoolIs
    <2> QED BY <1>2, <2>3, <2>6 DEF q
  <1>3. CASE b \notin listed
    <2>1. p.refs[b] = 0 /\ p.at[b] = "used" BY <1>1, <1>3 DEF Counted
    <2>2. q = [p EXCEPT !.at[b] = "cache", !.stamp[b] = None, !.cache = Append(@, b)]
      BY <2>1 DEF BoDestroy
    <2>3. p.cache \in Seq(Bos) BY <1>1 DEF PoolTypes
    <2>4. b \notin Range(p.cache)
      BY <1>1, <2>1 DEF Cached
    <2>5. /\ Append(p.cache, b) \in Seq(Bos) /\ Once(Append(p.cache, b))
          /\ Range(Append(p.cache, b)) = Range(p.cache) \cup {b}
      BY <1>1, <2>3, <2>4, Appended DEF Cached
    <2>6. /\ PoolTypes(q) /\ q.refs = p.refs /\ q.busy = p.busy /\ q.mem = p.mem
          /\ q.cache = Append(p.cache, b)
          /\ \A a \in Bos : q.at[a] = IF a = b THEN "cache" ELSE p.at[a]
          /\ \A a \in Bos : q.stamp[a] = IF a = b THEN None ELSE p.stamp[a]
      <3> DEFINE at == [p.at EXCEPT ![b] = "cache"]
                 stamp == [p.stamp EXCEPT ![b] = None]
                 cache == Append(p.cache, b)
      <3>1. at \in [Bos -> States] /\ \A a \in Bos : at[a] = IF a = b THEN "cache" ELSE p.at[a]
        BY <1>1 DEF PoolTypes, States
      <3>2. /\ stamp \in [Bos -> Ctxs \cup {None}]
            /\ \A a \in Bos : stamp[a] = IF a = b THEN None ELSE p.stamp[a]
        BY <1>1 DEF PoolTypes
      <3>3. cache \in Seq(Bos) BY <2>5
      <3>4. q = [p EXCEPT !.at = at, !.stamp = stamp, !.cache = cache]
        BY <1>1, <2>2 DEF PoolTypes
      <3> HIDE DEF at, stamp, cache, q
      <3>5. /\ q.at = at /\ q.stamp = stamp /\ q.cache = cache /\ q.refs = p.refs
            /\ q.busy = p.busy /\ q.mem = p.mem /\ PoolTypes(q)
        BY <1>1, <3>1, <3>2, <3>3, <3>4 DEF PoolTypes
      <3> QED BY <3>1, <3>2, <3>5 DEF cache
    <2> HIDE DEF q
    <2>7. Counted(q, held \ {b}, listed) BY <1>1, <1>3, <2>6 DEF Counted
    <2>8. Cached(q) BY <1>1, <2>5, <2>6 DEF Cached
    <2>9. PoolIs(q, held \ {b}, listed) BY <2>6, <2>7, <2>8 DEF PoolIs
    <2> QED BY <1>3, <2>6, <2>9 DEF q
  <1> QED BY <1>2, <1>3

(* What the cache closes was nobody's. *)
LEMMA Trimmed ==
    ASSUME NEW p, NEW held, NEW listed, PoolIs(p, held, listed), NEW n \in 0..Len(p.cache)
    PROVE  LET q == Trim(p, n)
           IN  /\ PoolIs(q, held, listed)
               /\ q.busy = p.busy /\ q.mem = p.mem /\ q.stamp = p.stamp
  <1> DEFINE q == Trim(p, n)
             Gone(b) == \E i \in 1..n : p.cache[i] = b
  <1>1. PoolTypes(p) /\ Counted(p, held, listed) /\ Cached(p) BY DEF PoolIs
  <1>2. p.cache \in Seq(Bos) BY <1>1 DEF PoolTypes
  <1>3. /\ SubSeq(p.cache, n + 1, Len(p.cache)) \in Seq(Bos)
        /\ Once(SubSeq(p.cache, n + 1, Len(p.cache)))
        /\ Range(SubSeq(p.cache, n + 1, Len(p.cache))) = {b \in Range(p.cache) : ~Gone(b)}
    BY <1>1, <1>2, Shorter DEF Cached
  <1>4. \A b \in Bos : Gone(b) => b \in Range(p.cache)
    <2>1. DOMAIN p.cache = 1..Len(p.cache) /\ Len(p.cache) \in Nat BY <1>2, InRange
    <2>2. \A i \in 1..n : i \in DOMAIN p.cache BY <2>1
    <2> QED BY <1>2, <2>2, InRange
  <1>5. q = [p EXCEPT !.at = [b \in Bos |-> IF Gone(b) THEN "free" ELSE p.at[b]],
                      !.cache = SubSeq(p.cache, n + 1, Len(p.cache))]
    BY DEF Trim
  <1>6. /\ q.refs = p.refs /\ q.busy = p.busy /\ q.mem = p.mem /\ q.stamp = p.stamp
        /\ q.cache = SubSeq(p.cache, n + 1, Len(p.cache))
        /\ q.at = [b \in Bos |-> IF Gone(b) THEN "free" ELSE p.at[b]]
        /\ PoolTypes(q)
    <2> DEFINE at == [b \in Bos |-> IF Gone(b) THEN "free" ELSE p.at[b]]
               s == SubSeq(p.cache, n + 1, Len(p.cache))
    <2>1. at \in [Bos -> States] BY <1>1 DEF PoolTypes, States
    <2>2. s \in Seq(Bos) BY <1>3
    <2>3. q = [p EXCEPT !.at = at, !.cache = s] BY <1>5
    <2> HIDE DEF at, s, q
    <2>4. /\ q.refs = p.refs /\ q.busy = p.busy /\ q.mem = p.mem /\ q.stamp = p.stamp
          /\ q.cache = s /\ q.at = at /\ PoolTypes(q)
      BY <1>1, <2>1, <2>2, <2>3 DEF PoolTypes
    <2> QED BY <2>4 DEF s, at
  <1> HIDE DEF q
  <1>7. \A b \in Bos : q.at[b] = IF Gone(b) THEN "free" ELSE p.at[b] BY <1>6
  <1> HIDE DEF Gone
  <1>8. Counted(q, held, listed)
    <2> SUFFICES ASSUME NEW b \in Bos
                 PROVE  /\ q.at[b] = "used" <=> b \in held \/ b \in listed
                        /\ q.refs[b] = IF b \in held /\ b \in listed THEN 1 ELSE 0
      BY DEF Counted
    <2>1. Gone(b) => p.at[b] = "cache" BY <1>1, <1>4 DEF Cached
    <2> QED BY <1>1, <1>6, <1>7, <2>1 DEF Counted
  <1>9. Cached(q) BY <1>1, <1>3, <1>6, <1>7 DEF Cached
  <1> QED BY <1>6, <1>8, <1>9 DEF PoolIs, q

(* A buffer is handed out to one new holder: nobody's before, read by no   *)
(* render that is marked on it.                                            *)
LEMMA Gotten ==
    ASSUME NEW p, NEW held, NEW listed, PoolIs(p, held, listed), NEW g \in CacheGet(p)
    PROVE  /\ g.bo \in Bos /\ g.bo \notin held /\ g.bo \notin listed
           /\ PoolIs(g.pool, held \cup {g.bo}, listed)
           /\ g.pool.mem = p.mem /\ g.pool.stamp = p.stamp
           /\ \A b \in Bos \ {g.bo} : g.pool.busy[b] = p.busy[b]
           /\ p.busy[g.bo] = 0 \/ ~Kept(g.bo)
  <1>1. PICK n \in 0..Len(p.cache) :
            LET t == Trim(p, n)
            IN  g \in IF IdleOf(t) = {} THEN Created(t)
                ELSE LET i == CHOOSE i \in IdleOf(t) : \A j \in IdleOf(t) : i <= j
                         b == t.cache[i]
                     IN  {[pool |-> [t EXCEPT !.at[b] = "used",
                                             !.cache = SubSeq(@, 1, i - 1)
                                                       \o SubSeq(@, i + 1, Len(@))],
                           bo |-> b]}
    BY DEF CacheGet
  <1> DEFINE t == Trim(p, n)
  <1>2. /\ PoolIs(t, held, listed) /\ t.busy = p.busy /\ t.mem = p.mem /\ t.stamp = p.stamp
    BY Trimmed
  <1>3. PoolTypes(t) /\ Counted(t, held, listed) /\ Cached(t) BY <1>2 DEF PoolIs
  <1>4. CASE IdleOf(t) = {}
    <2>1. PICK b \in Bos : /\ t.at[b] = "free" /\ ~Kept(b)
                           /\ g = [pool |-> [t EXCEPT !.at[b] = "used", !.busy[b] = 0], bo |-> b]
      BY <1>1, <1>4 DEF Created
    <2> HIDE DEF t
    <2> DEFINE q == [t EXCEPT !.at[b] = "used", !.busy[b] = 0]
    <2>2. g.bo = b /\ g.pool = q BY <2>1
    <2>3. /\ PoolTypes(q) /\ q.refs = t.refs /\ q.mem = t.mem /\ q.stamp = t.stamp
          /\ q.cache = t.cache
          /\ \A a \in Bos : q.at[a] = IF a = b THEN "used" ELSE t.at[a]
          /\ \A a \in Bos \ {b} : q.busy[a] = t.busy[a]
      <3>1. 0 \in 0..MaxQueued BY BufferConstants
      <3> QED BY <1>3, <3>1 DEF PoolTypes, States
    <2> HIDE DEF q
    <2>4. b \notin held /\ b \notin listed /\ t.refs[b] = 0 BY <1>3, <2>1 DEF Counted
    <2>5. Counted(q, held \cup {b}, listed) BY <1>3, <2>3, <2>4 DEF Counted
    <2>6. Cached(q) BY <1>3, <2>1, <2>3 DEF Cached
    <2> QED BY <1>2, <2>1, <2>2, <2>3, <2>4, <2>5, <2>6 DEF PoolIs
  <1>5. CASE IdleOf(t) # {}
    <2> DEFINE i == CHOOSE i \in IdleOf(t) : \A j \in IdleOf(t) : i <= j
    <2>1. i \in IdleOf(t)
      <3>1. \A k \in IdleOf(t) : k \in {1, 2}
        <4>1. t.cache \in Seq(Bos) BY <1>3 DEF PoolTypes
        <4>2. DOMAIN t.cache = 1..Len(t.cache) /\ Len(t.cache) \in Nat BY <4>1, InRange
        <4> HIDE DEF t
        <4>3. \A k \in DOMAIN t.cache : k <= 2 => k \in {1, 2} BY <4>2
        <4> QED BY <4>3 DEF IdleOf
      <3>2. \E k \in IdleOf(t) : \A j \in IdleOf(t) : k <= j
        <4>1. CASE 1 \in IdleOf(t) BY <3>1, <4>1
        <4>2. CASE 1 \notin IdleOf(t)
          <5>1. 2 \in IdleOf(t) BY <1>5, <3>1, <4>2
          <5>2. \A j \in IdleOf(t) : 2 <= j BY <3>1, <4>2
          <5> QED BY <5>1, <5>2
        <4> QED BY <4>1, <4>2
      <3> QED BY <3>2
    <2> DEFINE b == t.cache[i]
               q == [t EXCEPT !.at[b] = "used", !.cache = Without(t.cache, i)]
    <2>2. g.bo = b /\ g.pool = q
      BY <1>1, <1>5 DEF Without
    <2> HIDE DEF i, t
    <2>3. i \in DOMAIN t.cache /\ Idle(t, b) BY <2>1 DEF IdleOf
    <2>4. t.cache \in Seq(Bos) BY <1>3 DEF PoolTypes
    <2>5. b \in Bos /\ b \in Range(t.cache) BY <2>3, <2>4, InRange
    <2>6. /\ Without(t.cache, i) \in Seq(Bos) /\ Once(Without(t.cache, i))
          /\ Range(Without(t.cache, i)) = Range(t.cache) \ {b}
      BY <1>3, <2>3, <2>4, Taken DEF Cached
    <2> HIDE DEF b
    <2>7. /\ PoolTypes(q) /\ q.refs = t.refs /\ q.mem = t.mem /\ q.stamp = t.stamp
          /\ q.cache = Without(t.cache, i) /\ q.busy = t.busy
          /\ \A a \in Bos : q.at[a] = IF a = b THEN "used" ELSE t.at[a]
      BY <1>3, <2>5, <2>6 DEF PoolTypes, States
    <2> HIDE DEF q
    <2>8. t.at[b] = "cache" BY <1>3, <2>5 DEF Cached
    <2>9. b \notin held /\ b \notin listed /\ t.refs[b] = 0 BY <1>3, <2>5, <2>8 DEF Counted
    <2>10. Counted(q, held \cup {b}, listed) BY <1>3, <2>7, <2>9 DEF Counted
    <2>11. Cached(q) BY <1>3, <2>6, <2>7 DEF Cached
    <2>12. t.busy[b] = 0 BY <2>3 DEF Idle
    <2> QED BY <1>2, <2>2, <2>5, <2>7, <2>9, <2>10, <2>11, <2>12 DEF PoolIs
  <1> QED BY <1>4, <1>5

(* The buffers of the resources' copies, and those that draws list.        *)
Held == {b \in Bos : \E r \in Res : copy[r].bo = b}
Listed == {b \in Bos : \E c \in Ctxs : b \in Range(batch[c].bos) \/ b \in Range(marks[c].bos)}

(* The types of the records. *)
Views == UNION {[parts -> 0..MaxWrites] : parts \in SUBSET Parts}
DrawsMade == [res : Res, bo : Bos, saw : Views]
CopyFields ==
    [bo : Bos \cup {None}, dirty : SUBSET Parts, sync : BOOLEAN, boxes : BOOLEAN,
     shadow : {None} \cup Content]
Renders == [ctx : Ctxs, draws : Seq(DrawsMade), bos : Seq(Bos)]
Wants == [res : Res, bo : Bos, parts : SUBSET Parts]

ResourceTypes == data \in [Res -> Contents] /\ copy \in [Res -> CopyFields] /\ maps \subseteq Bufs
WantTypes == DOMAIN want = Ctxs /\ \A c \in Ctxs : want[c] = None \/ want[c] \in Wants
BatchTypes ==
    /\ batch \in [Ctxs -> [draws : Seq(DrawsMade), bos : Seq(Bos)]]
    /\ marks \in [Ctxs -> [bos : Seq(Bos), sent : BOOLEAN]]
    /\ \A c \in Ctxs : Len(batch[c].draws) <= MaxDraws
QueueTypes ==
    /\ last \in [Ctxs -> 0..MaxQueued]
    /\ queue \in Seq(Renders) /\ Len(queue) <= MaxQueued

(* A copy has one resource; a draw's is still its resource's; a batch with *)
(* draws lists buffers, each once, and one that was flushed is to mark     *)
(* what it listed before the next is begun.                                *)
OneOwner == \A r, s \in Res : copy[r].bo = copy[s].bo /\ copy[r].bo # None => r = s
WantHeld ==
    \A c \in Ctxs : want[c] # None =>
        want[c].res \in Uses[c] /\ copy[want[c].res].bo = want[c].bo
Lists ==
    \A c \in Ctxs :
        /\ Once(batch[c].bos) /\ Once(marks[c].bos)
        /\ batch[c].draws # <<>> => batch[c].bos # <<>>
        /\ marks[c] # NoMarks => marks[c].bos # <<>> /\ batch[c] = NewBatch
(* No render of a context comes after its last.                            *)
LastTold == \A k \in DOMAIN queue : k <= last[queue[k].ctx]
(* A buffer is stamped if it is listed, and no render that lists it comes  *)
(* after what it is marked with, unless it is to be marked yet.            *)
Stamps ==
    \A c \in Ctxs : marks[c] = NoMarks =>
        \A b \in Bos : pool.stamp[b] = c <=> b \in Range(batch[c].bos)
ToMark(b) == \E c \in Ctxs : marks[c].sent /\ b \in Range(marks[c].bos)
BusyTold ==
    \A k \in DOMAIN queue : \A b \in Range(queue[k].bos) : k <= pool.busy[b] \/ ToMark(b)

(* What a context draws with, has listed or a render of its own reads is   *)
(* no other context's: the cache hands on what every render is done with.  *)
ListedBy(c, b) ==
    \/ b \in Range(batch[c].bos) \/ b \in Range(marks[c].bos)
    \/ \E k \in DOMAIN queue : queue[k].ctx = c /\ b \in Range(queue[k].bos)
Reaches(c, b) == ListedBy(c, b) \/ \E r \in Uses[c] : copy[r].bo = b
Apart == \A b \in Bos : \A c, d \in Ctxs : Reaches(c, b) /\ Reaches(d, b) => c = d

(* The invariant of the buffers' holders. *)
BufInv ==
    /\ ResourceTypes /\ WantTypes /\ BatchTypes /\ QueueTypes
    /\ PoolIs(pool, Held, Listed)
    /\ OneOwner /\ WantHeld /\ Lists /\ LastTold /\ Stamps /\ BusyTold /\ Apart

(* Contexts share the memory, the cache and the queue, and no resource.    *)
Private == \A c, d \in Ctxs : Uses[c] \cap Uses[d] # {} => c = d

-----------------------------------------------------------------------------
(* A new context's buffers. *)
LEMMA BufInit == BuffersInit => BufInv
  <1> SUFFICES ASSUME BuffersInit PROVE BufInv OBVIOUS
  <1> USE DEF BuffersInit
  <1>0. /\ MaxWrites \in Nat /\ MaxQueued \in Nat /\ MaxDraws \in Nat
        /\ \A S : <<>> \in Seq(S) /\ Len(<<>>) = 0 /\ Range(<<>>) = {}
        /\ None \notin Bos /\ None \notin Ctxs
    <2>1. \A S : <<>> \in Seq(S) /\ Len(<<>>) = 0 BY EmptySeq
    <2>2. Range(<<>>) = {} BY DEF Range
    <2> QED BY <2>1, <2>2, BufferConstants
  <1>1. ResourceTypes BY <1>0 DEF ResourceTypes, Contents, CopyFields, NewCopy
  <1>2. WantTypes BY DEF WantTypes
  <1>3. BatchTypes
    <2>1. NewBatch \in [draws : Seq(DrawsMade), bos : Seq(Bos)] /\ NewBatch.draws = <<>>
      BY <1>0 DEF NewBatch
    <2>2. NoMarks \in [bos : Seq(Bos), sent : BOOLEAN] BY <1>0 DEF NoMarks
    <2> QED BY <1>0, <2>1, <2>2 DEF BatchTypes
  <1>4. QueueTypes BY <1>0 DEF QueueTypes
  <1>5. PoolIs(pool, Held, Listed)
    <2>1. Held = {} BY <1>0 DEF Held, NewCopy
    <2>2. Listed = {} BY <1>0 DEF Listed, NewBatch, NoMarks
    <2>3. PoolTypes(pool) BY <1>0 DEF PoolTypes, NewPool, States, Content, Undefined
    <2>4. Counted(pool, {}, {}) BY DEF Counted, NewPool
    <2>5. Cached(pool) BY <1>0 DEF Cached, NewPool, Once
    <2> QED BY <2>1, <2>2, <2>3, <2>4, <2>5 DEF PoolIs
  <1>6. OneOwner BY DEF OneOwner, NewCopy
  <1>7. WantHeld BY DEF WantHeld
  <1>8. Lists /\ LastTold BY DEF Lists, LastTold, Once, NewBatch, NoMarks
  <1>9. Stamps BY <1>0 DEF Stamps, NewPool, NewBatch
  <1>10. BusyTold BY DEF BusyTold
  <1>11. Apart
    <2>1. \A r \in Res : copy[r].bo = None BY DEF NewCopy
    <2>2. \A c \in Ctxs : \A b \in Bos : ~Reaches(c, b)
      BY <1>0, <2>1, BufferConstants DEF Reaches, ListedBy, NewBatch, NoMarks
    <2> QED BY <2>2 DEF Apart
  <1> QED BY <1>1, <1>2, <1>3, <1>4, <1>5, <1>6, <1>7, <1>8, <1>9, <1>10, <1>11 DEF BufInv

(* What the application writes changes nobody's memory. *)
LEMMA ChangeTypes ==
    ASSUME ResourceTypes, NEW r \in Res, NEW parts \in SUBSET Parts, Change(r, parts)
    PROVE  /\ data' \in [Res -> Contents]
           /\ \A s \in Res : \A p \in Parts : data'[s][p] =
                 IF s = r /\ p \in parts THEN data[s][p] + 1 ELSE data[s][p]
  <1> DEFINE new == [p \in Parts |-> data[r][p] + IF p \in parts THEN 1 ELSE 0]
  <1>1. data' = [data EXCEPT ![r] = new] BY DEF Change
  <1>2. \A p \in Parts : data[r][p] \in 0..MaxWrites BY DEF ResourceTypes, Contents
  <1>3. MaxWrites \in Nat BY BufferConstants
  <1>4. \A p \in parts : data[r][p] < MaxWrites BY DEF Change
  <1>5. \A p \in Parts : new[p] \in 0..MaxWrites
    <2> TAKE p \in Parts
    <2>1. CASE p \in parts BY <1>2, <1>3, <1>4, <2>1
    <2>2. CASE p \notin parts BY <1>2, <1>3, <2>2
    <2> QED BY <2>1, <2>2
  <1>6. new \in Contents BY <1>5 DEF Contents
  <1>7. \A p \in Parts : new[p] = IF p \in parts THEN data[r][p] + 1 ELSE data[r][p]
    BY <1>2
  <1> HIDE DEF new
  <1> QED BY <1>1, <1>6, <1>7 DEF ResourceTypes

(* A step that changes only what the CPU holds. *)
LEMMA SameOwners ==
    ASSUME BufInv, ResourceTypes', \A r \in Res : copy'[r].bo = copy[r].bo,
           UNCHANGED <<pool, batch, want, marks, last, queue>>
    PROVE  BufInv'
  <1> USE DEF BufInv
  <1>1. WantTypes' /\ BatchTypes' /\ QueueTypes'
    BY DEF WantTypes, BatchTypes, QueueTypes
  <1>2. Held' = Held /\ Listed' = Listed BY DEF Held, Listed
  <1>3. PoolIs(pool, Held, Listed)' BY <1>2
  <1>4. OneOwner' BY DEF OneOwner
  <1>5. WantHeld'
    <2>1. \A c \in Ctxs : want[c] # None => want[c].res \in Res BY DEF WantTypes, Wants
    <2> QED BY <2>1 DEF WantHeld
  <1>6. Lists' /\ LastTold' /\ Stamps' BY DEF Lists, LastTold, Stamps
  <1>7. BusyTold' BY DEF BusyTold, ToMark
  <1>8. Apart'
    <2>1. \A c \in Ctxs : Uses[c] \subseteq Res BY BufferConstants
    <2>2. \A c \in Ctxs : \A b : Reaches(c, b)' <=> Reaches(c, b) BY <2>1 DEF Reaches, ListedBy
    <2> QED BY <2>2 DEF Apart
  <1> QED BY <1>1, <1>3, <1>4, <1>5, <1>6, <1>7, <1>8

(* The application's steps: they change what the CPU holds.               *)
LEMMA AppTypes ==
    ASSUME ResourceTypes, NEW c \in Ctxs, NEW r \in Res,
           \/ WriteAll(c, r) \/ Map(c, r) \/ Unmap(c, r)
           \/ \E p \in Parts : Write(c, r, p) \/ WriteUnsync(c, r, p) \/ Poke(c, r, p)
    PROVE  /\ ResourceTypes' /\ \A q \in Res : copy'[q].bo = copy[q].bo
           /\ UNCHANGED <<pool, batch, want, marks, last, queue>>
  <1> DEFINE Goal == /\ ResourceTypes' /\ \A q \in Res : copy'[q].bo = copy[q].bo
                     /\ UNCHANGED <<pool, batch, want, marks, last, queue>>
  <1>1. CASE WriteAll(c, r)
    <2>1. data' \in [Res -> Contents] BY <1>1, ChangeTypes DEF WriteAll
    <2>2. copy' = [copy EXCEPT ![r].dirty = Parts, ![r].boxes = FALSE] BY <1>1 DEF WriteAll
    <2>3. copy' \in [Res -> CopyFields] /\ \A s \in Res : copy'[s].bo = copy[s].bo
      BY <2>2 DEF ResourceTypes, CopyFields
    <2> QED BY <1>1, <2>1, <2>3 DEF WriteAll, ResourceTypes
  <1>2. CASE Map(c, r)
    BY <1>2 DEF Map, ResourceTypes
  <1>3. CASE Unmap(c, r)
    <2>1. PICK sync \in BOOLEAN : copy' = [copy EXCEPT ![r].dirty = Parts, ![r].sync = @ \/ sync]
      BY <1>3 DEF Unmap
    <2> DEFINE s == copy[r].sync \/ sync
    <2>2. s \in BOOLEAN OBVIOUS
    <2>3. copy' = [copy EXCEPT ![r].dirty = Parts, ![r].sync = s] BY <2>1
    <2> HIDE DEF s
    <2>4. copy' \in [Res -> CopyFields] /\ \A q \in Res : copy'[q].bo = copy[q].bo
      BY <2>2, <2>3 DEF ResourceTypes, CopyFields
    <2>5. maps' = maps \ {r} /\ UNCHANGED <<data, pool, batch, want, marks, last, queue>>
      BY <1>3 DEF Unmap
    <2> QED BY <2>4, <2>5 DEF ResourceTypes
  <1>4. ASSUME NEW p \in Parts, Write(c, r, p) PROVE Goal
    <2>1. data' \in [Res -> Contents] BY <1>4, ChangeTypes DEF Write
    <2> DEFINE ds == copy[r].dirty \cup {p}
    <2>2. copy' = [copy EXCEPT ![r].dirty = ds, ![r].sync = TRUE] BY <1>4 DEF Write
    <2>3. ds \in SUBSET Parts BY DEF ResourceTypes, CopyFields
    <2> HIDE DEF ds
    <2>4. copy' \in [Res -> CopyFields] /\ \A q \in Res : copy'[q].bo = copy[q].bo
      BY <2>2, <2>3 DEF ResourceTypes, CopyFields
    <2>5. UNCHANGED <<maps, pool, batch, want, marks, last, queue>> BY <1>4 DEF Write
    <2> QED BY <2>1, <2>4, <2>5 DEF ResourceTypes
  <1>5. ASSUME NEW p \in Parts, WriteUnsync(c, r, p) PROVE Goal
    <2>1. data' \in [Res -> Contents] BY <1>5, ChangeTypes DEF WriteUnsync
    <2> DEFINE ds == copy[r].dirty \cup {p}
    <2>2. copy' = [copy EXCEPT ![r].dirty = ds] BY <1>5 DEF WriteUnsync
    <2>3. ds \in SUBSET Parts BY DEF ResourceTypes, CopyFields
    <2> HIDE DEF ds
    <2>4. copy' \in [Res -> CopyFields] /\ \A q \in Res : copy'[q].bo = copy[q].bo
      BY <2>2, <2>3 DEF ResourceTypes, CopyFields
    <2> QED BY <1>5, <2>1, <2>4 DEF WriteUnsync, ResourceTypes
  <1>6. ASSUME NEW p \in Parts, Poke(c, r, p) PROVE Goal
    <2>1. data' \in [Res -> Contents] BY <1>6, ChangeTypes DEF Poke
    <2> QED BY <1>6, <2>1 DEF Poke, ResourceTypes
  <1> QED BY <1>1, <1>2, <1>3, <1>4, <1>5, <1>6

(* They keep the invariant. *)
LEMMA AppSteps ==
    ASSUME BufInv, NEW c \in Ctxs, NEW r \in Res,
           \/ WriteAll(c, r) \/ Map(c, r) \/ Unmap(c, r)
           \/ \E p \in Parts : Write(c, r, p) \/ WriteUnsync(c, r, p) \/ Poke(c, r, p)
    PROVE  BufInv'
  <1>1. ResourceTypes BY DEF BufInv
  <1>2. /\ ResourceTypes' /\ \A q \in Res : copy'[q].bo = copy[q].bo
        /\ UNCHANGED <<pool, batch, want, marks, last, queue>>
    BY <1>1, AppTypes
  <1> QED BY <1>2, SameOwners

Others(r) == {b \in Bos : \E s \in Res \ {r} : copy[s].bo = b}
OneOf(x) == IF x = None THEN {} ELSE {x}

(* The buffers that the copies hold, one resource's apart. *)
LEMMA HeldIs ==
    ASSUME BufInv, NEW r \in Res
    PROVE  Held = Others(r) \cup OneOf(copy[r].bo) /\ copy[r].bo \notin Others(r)
  <1>1. copy[r].bo \in Bos \cup {None} /\ None \notin Bos
    BY BufferConstants DEF BufInv, ResourceTypes, CopyFields
  <1>2. Held = Others(r) \cup OneOf(copy[r].bo)
    BY <1>1 DEF Held, Others, OneOf
  <1>3. copy[r].bo \notin Others(r)
    BY <1>1 DEF Others, BufInv, OneOwner
  <1> QED BY <1>2, <1>3

(* A draw's copy goes from one buffer to another, or to none: what it must *)
(* keep of the pool.                                                       *)
Moves(p, q, r, bo) ==
    /\ PoolIs(q, Others(r) \cup OneOf(bo), Listed)
    /\ bo \notin Others(r)
    /\ bo \in {None, copy[r].bo} \/ \A c \in Ctxs : ~Reaches(c, bo)
    /\ \A b \in Bos : /\ q.stamp[b] = pool.stamp[b] \/ (b \notin Listed /\ q.stamp[b] = None)
                      /\ q.busy[b] = pool.busy[b] \/ pool.busy[b] = 0 \/ ~Kept(b)

(* A copy that moves so keeps the invariant. *)
LEMMA CopyStep ==
    ASSUME Private, BufInv, NEW c \in Ctxs, Ready(c), NEW r \in Res, r \in Uses[c],
           NEW fields \in CopyFields, copy' = [copy EXCEPT ![r] = fields],
           Moves(pool, pool', r, fields.bo),
           \/ want' = want
           \/ \E w \in Wants : want' = [want EXCEPT ![c] = w] /\ w.res = r /\ w.bo = fields.bo,
           UNCHANGED <<data, maps, batch, marks, last, queue>>
    PROVE  BufInv'
  <1> USE DEF BufInv
  <1>0. /\ want[c] = None /\ marks[c] = NoMarks /\ None \notin Bos /\ None \notin Ctxs
        /\ \A d \in Ctxs : Uses[d] \subseteq Res /\ (r \in Uses[d] => d = c)
    BY BufferConstants DEF Private, Ready
  <1>1. ResourceTypes' BY DEF ResourceTypes
  <1>2. WantTypes'
    BY <1>0 DEF WantTypes
  <1>3. BatchTypes' /\ QueueTypes' BY DEF BatchTypes, QueueTypes
  <1>4. \A s \in Res : copy'[s] = IF s = r THEN fields ELSE copy[s] BY DEF ResourceTypes
  <1>5. Listed' = Listed BY DEF Listed
  <1>6. Held' = Others(r) \cup OneOf(fields.bo)
    <2>1. fields.bo \in Bos \cup {None} BY DEF CopyFields
    <2> QED BY <1>0, <1>4, <2>1 DEF Held, Others, OneOf
  <1>7. PoolIs(pool, Held, Listed)' BY <1>5, <1>6 DEF Moves
  <1>8. OneOwner'
    <2>1. \A s \in Res \ {r} : copy[s].bo # None => copy[s].bo \in Others(r)
      BY DEF Others, ResourceTypes, CopyFields
    <2> QED BY <1>4, <2>1 DEF OneOwner, Moves
  <1>9. WantHeld'
    <2> SUFFICES ASSUME NEW d \in Ctxs, want'[d] # None
                 PROVE  want'[d].res \in Uses[d] /\ copy'[want'[d].res].bo = want'[d].bo
      BY DEF WantHeld
    <2>1. CASE want'[d] = want[d]
      <3>1. want[d].res \in Uses[d] /\ copy[want[d].res].bo = want[d].bo BY <2>1 DEF WantHeld
      <3>2. want[d].res # r BY <1>0, <2>1, <3>1
      <3> QED BY <1>0, <1>4, <2>1, <3>1, <3>2
    <2>2. CASE want'[d] # want[d]
      <3>1. PICK w \in Wants : want' = [want EXCEPT ![c] = w] /\ w.res = r /\ w.bo = fields.bo
        BY <2>2
      <3>2. d = c /\ want'[c] = w BY <2>2, <3>1 DEF WantTypes
      <3> QED BY <1>4, <3>1, <3>2
    <2> QED BY <2>1, <2>2
  <1>10. Lists' /\ LastTold' BY DEF Lists, LastTold
  <1>11. Stamps'
    <2> SUFFICES ASSUME NEW d \in Ctxs, marks[d] = NoMarks, NEW b \in Bos
                 PROVE  pool'.stamp[b] = d <=> b \in Range(batch[d].bos)
      BY DEF Stamps
    <2>1. pool.stamp[b] = d <=> b \in Range(batch[d].bos) BY DEF Stamps
    <2>2. b \in Range(batch[d].bos) => b \in Listed BY DEF Listed
    <2> QED BY <1>0, <2>1, <2>2 DEF Moves
  <1>12. BusyTold'
    <2> SUFFICES ASSUME NEW k \in DOMAIN queue, NEW b \in Range(queue[k].bos), ~ToMark(b)
                 PROVE  k <= pool'.busy[b]
      BY DEF BusyTold, ToMark
    <2>2. k <= pool.busy[b] BY DEF BusyTold
    <2>3. DOMAIN queue = 1..Len(queue) /\ Len(queue) \in Nat /\ queue[k] \in Renders
      BY InRange DEF QueueTypes
    <2>4. b \in Bos
      <3>1. queue[k].bos \in Seq(Bos) BY <2>3 DEF Renders
      <3> QED BY <3>1, InRange
    <2>5. Kept(b) BY DEF Kept
    <2>6. pool.busy[b] # 0 BY <2>2, <2>3
    <2> QED BY <2>2, <2>4, <2>5, <2>6 DEF Moves
  <1>13. Apart'
    <2>1. ASSUME NEW b \in Bos, NEW d \in Ctxs, Reaches(d, b)'
          PROVE  Reaches(d, b) \/ (d = c /\ b = fields.bo)
      <3>1. ListedBy(d, b)' => ListedBy(d, b) BY DEF ListedBy
      <3>2. ASSUME NEW s \in Uses[d], copy'[s].bo = b PROVE Reaches(d, b) \/ (d = c /\ b = fields.bo)
        <4>1. s \in Res BY <1>0
        <4>2. CASE s = r BY <1>0, <1>4, <3>2, <4>1, <4>2
        <4>3. CASE s # r BY <1>4, <3>2, <4>1, <4>3 DEF Reaches
        <4> QED BY <4>2, <4>3
      <3> QED BY <2>1, <3>1, <3>2 DEF Reaches
    <2>2. fields.bo \in Bos => Reaches(c, fields.bo) \/ \A d \in Ctxs : ~Reaches(d, fields.bo)
      BY <1>0 DEF Moves, Reaches
    <2> QED BY <2>1, <2>2 DEF Apart
  <1> QED BY <1>1, <1>2, <1>3, <1>7, <1>8, <1>9, <1>10, <1>11, <1>12, <1>13

(* A buffer that is nobody's, and not busy if a render lists it, no render *)
(* lists at all: of no context but the one it was let go by.               *)
LEMMA Unreached ==
    ASSUME BufInv, NEW r \in Res, NEW b \in Bos, b \notin Others(r), b \notin Listed,
           pool.busy[b] = 0 \/ ~Kept(b)
    PROVE  ~Kept(b) /\ (b = copy[r].bo \/ \A c \in Ctxs : ~Reaches(c, b))
  <1>1. ~Kept(b)
    <2> SUFFICES ASSUME NEW k \in DOMAIN queue, b \in Range(queue[k].bos), pool.busy[b] = 0
                 PROVE  FALSE
      BY DEF Kept
    <2>1. ~ToMark(b) BY DEF ToMark, Listed
    <2>2. k <= pool.busy[b] BY <2>1 DEF BufInv, BusyTold
    <2>3. k >= 1 /\ k \in Int
      <3>1. queue \in Seq(Renders) BY DEF BufInv, QueueTypes
      <3> QED BY <3>1, InRange
    <2> QED BY <2>2, <2>3
  <1>2. ASSUME NEW c \in Ctxs, Reaches(c, b), b # copy[r].bo PROVE FALSE
    <2>1. ~ListedBy(c, b) BY <1>1 DEF ListedBy, Listed, Kept
    <2>2. PICK s \in Uses[c] : copy[s].bo = b BY <1>2, <2>1 DEF Reaches
    <2>3. s \in Res \ {r} BY <1>2, <2>2, BufferConstants
    <2> QED BY <2>2, <2>3 DEF Others
  <1> QED BY <1>1, <1>2

(* The three ways a copy moves: it stays, it is let go of, it gets another *)
(* -- before the old one is let go, or after.                              *)
LEMMA Stays ==
    ASSUME BufInv, NEW r \in Res
    PROVE  Moves(pool, pool, r, copy[r].bo)
  BY HeldIs DEF Moves, BufInv

(* It is let go of. *)
LEMMA LetsGoOf ==
    ASSUME BufInv, NEW r \in Res, copy[r].bo # None
    PROVE  LET q == BoDestroy(pool, copy[r].bo)
           IN  /\ Moves(pool, q, r, None) /\ PoolIs(q, Others(r), Listed)
               /\ q.mem = pool.mem /\ q.busy = pool.busy
  <1>1. copy[r].bo \in Bos /\ None \notin Bos
    BY BufferConstants DEF BufInv, ResourceTypes, CopyFields
  <1>2. Held = Others(r) \cup {copy[r].bo} /\ copy[r].bo \notin Others(r)
    BY HeldIs DEF OneOf
  <1> DEFINE q == BoDestroy(pool, copy[r].bo)
  <1>3. /\ PoolIs(q, Held \ {copy[r].bo}, Listed) /\ q.busy = pool.busy /\ q.mem = pool.mem
        /\ \A a \in Bos : q.stamp[a] = IF a = copy[r].bo /\ copy[r].bo \notin Listed THEN None
                                       ELSE pool.stamp[a]
    <2>1. PoolIs(pool, Held, Listed) BY DEF BufInv
    <2>2. copy[r].bo \in Held BY <1>2
    <2> QED BY <1>1, <2>1, <2>2, Destroyed
  <1> HIDE DEF q
  <1>4. Held \ {copy[r].bo} = Others(r) BY <1>2
  <1>5. Others(r) \cup OneOf(None) = Others(r) /\ None \notin Others(r) BY <1>1 DEF OneOf, Others
  <1> QED BY <1>3, <1>4, <1>5 DEF Moves, q

(* It gets a buffer from the cache, when it has none. *)
LEMMA GetsNew ==
    ASSUME BufInv, NEW r \in Res, NEW p, NEW g \in CacheGet(p),
           PoolIs(p, Others(r), Listed), p.busy = pool.busy, p.mem = pool.mem,
           \A b \in Bos : p.stamp[b] = pool.stamp[b] \/ (b \notin Listed /\ p.stamp[b] = None)
    PROVE  /\ Moves(pool, g.pool, r, g.bo) /\ g.bo \in Bos /\ g.bo \notin Listed
           /\ g.pool.mem = pool.mem /\ (pool.busy[g.bo] = 0 \/ ~Kept(g.bo))
  <1>1. /\ g.bo \in Bos /\ g.bo \notin Others(r) /\ g.bo \notin Listed
        /\ PoolIs(g.pool, Others(r) \cup {g.bo}, Listed)
        /\ g.pool.mem = p.mem /\ g.pool.stamp = p.stamp
        /\ \A b \in Bos \ {g.bo} : g.pool.busy[b] = p.busy[b]
        /\ p.busy[g.bo] = 0 \/ ~Kept(g.bo)
    BY Gotten
  <1>2. OneOf(g.bo) = {g.bo} BY <1>1, BufferConstants DEF OneOf
  <1>3. g.bo = copy[r].bo \/ \A c \in Ctxs : ~Reaches(c, g.bo) BY <1>1, Unreached
  <1> QED BY <1>1, <1>2, <1>3 DEF Moves

(* It gets another, and the old one is let go of then. *)
LEMMA GetsAnother ==
    ASSUME BufInv, NEW r \in Res, copy[r].bo # None, NEW g \in CacheGet(pool)
    PROVE  LET q == BoDestroy(g.pool, copy[r].bo)
           IN  /\ Moves(pool, q, r, g.bo) /\ g.bo \in Bos /\ g.bo \notin Listed
               /\ q.mem = pool.mem /\ (pool.busy[g.bo] = 0 \/ ~Kept(g.bo))
  <1>1. copy[r].bo \in Bos /\ None \notin Bos
    BY BufferConstants DEF BufInv, ResourceTypes, CopyFields
  <1>2. Held = Others(r) \cup {copy[r].bo} /\ copy[r].bo \notin Others(r)
    BY HeldIs DEF OneOf
  <1>3. /\ g.bo \in Bos /\ g.bo \notin Held /\ g.bo \notin Listed
        /\ PoolIs(g.pool, Held \cup {g.bo}, Listed)
        /\ g.pool.mem = pool.mem /\ g.pool.stamp = pool.stamp
        /\ \A b \in Bos \ {g.bo} : g.pool.busy[b] = pool.busy[b]
        /\ pool.busy[g.bo] = 0 \/ ~Kept(g.bo)
    BY Gotten DEF BufInv
  <1> DEFINE q == BoDestroy(g.pool, copy[r].bo)
  <1>4. /\ PoolIs(q, (Held \cup {g.bo}) \ {copy[r].bo}, Listed) /\ q.busy = g.pool.busy
        /\ q.mem = g.pool.mem
        /\ \A a \in Bos : q.stamp[a] = IF a = copy[r].bo /\ copy[r].bo \notin Listed THEN None
                                       ELSE g.pool.stamp[a]
    BY <1>1, <1>2, <1>3, Destroyed
  <1> HIDE DEF q
  <1>5. (Held \cup {g.bo}) \ {copy[r].bo} = Others(r) \cup OneOf(g.bo)
    BY <1>1, <1>2, <1>3 DEF OneOf
  <1>6. g.bo = copy[r].bo \/ \A c \in Ctxs : ~Reaches(c, g.bo) BY <1>2, <1>3, Unreached
  <1> QED BY <1>2, <1>3, <1>4, <1>5, <1>6 DEF Moves, q

(* Memory is written: nobody's buffer changes hands. *)
LEMMA MemWritten ==
    ASSUME NEW p, NEW held, NEW listed, PoolIs(p, held, listed), NEW b \in Bos, NEW m \in Content
    PROVE  LET q == [p EXCEPT !.mem[b] = m]
           IN  /\ PoolIs(q, held, listed) /\ q.stamp = p.stamp /\ q.busy = p.busy
               /\ q.mem = [p.mem EXCEPT ![b] = m] /\ p.mem \in [Bos -> Content]
  <1> DEFINE q == [p EXCEPT !.mem[b] = m]
             mem == [p.mem EXCEPT ![b] = m]
  <1>1. PoolTypes(p) /\ Counted(p, held, listed) /\ Cached(p) BY DEF PoolIs
  <1>2. mem \in [Bos -> Content] /\ p.mem \in [Bos -> Content] BY <1>1 DEF PoolTypes
  <1>3. q = [p EXCEPT !.mem = mem] BY <1>1 DEF PoolTypes
  <1> HIDE DEF q, mem
  <1>4. /\ PoolTypes(q) /\ q.at = p.at /\ q.refs = p.refs /\ q.stamp = p.stamp
        /\ q.busy = p.busy /\ q.cache = p.cache /\ q.mem = mem
    BY <1>1, <1>2, <1>3 DEF PoolTypes
  <1>5. Counted(q, held, listed) BY <1>1, <1>4 DEF Counted
  <1>6. Cached(q) BY <1>1, <1>4 DEF Cached
  <1> QED BY <1>2, <1>4, <1>5, <1>6 DEF PoolIs, q, mem

(* What a resource may hold is what memory may. *)
LEMMA WideContents == Contents \subseteq Content
  BY BufferConstants DEF Contents, Content, Undefined

(* What a draw's copy leaves in the memory. *)
Written(p, bo, out, range) ==
    \A b \in Bos : \A x \in Parts :
        pool'.mem[b][x] = IF b = bo /\ x \in range THEN out[x] ELSE p.mem[b][x]

(* A draw gets its copy. *)
LEMMA BringStep ==
    ASSUME Private, BufInv, NEW c \in Ctxs, Ready(c), NEW r \in Res, r \in Uses[c],
           NEW parts \in SUBSET Parts, NEW p, NEW fields \in CopyFields, fields.bo \in Bos, Moves(pool, p, r, fields.bo),
           NEW out, NEW range \in SUBSET Parts, \A x \in range : out[x] \in 0..Undefined,
           Bring(c, r, parts, p, fields, out, range)
    PROVE  BufInv' /\ Written(p, fields.bo, out, range)
  <1> DEFINE bo == fields.bo
             held == Others(r) \cup OneOf(bo)
             m == [x \in Parts |-> IF x \in range THEN out[x] ELSE p.mem[bo][x]]
             w == [res |-> r, bo |-> bo, parts |-> parts]
  <1>1. PoolIs(p, held, Listed) BY DEF Moves
  <1>2. p \in [at : [Bos -> States], refs : [Bos -> Nat], stamp : [Bos -> Ctxs \cup {None}],
               busy : [Bos -> 0..MaxQueued], mem : [Bos -> Content], cache : Seq(Bos)]
    BY <1>1 DEF PoolIs, PoolTypes
  <1>3. p.mem \in [Bos -> Content] BY <1>2
  <1>4. \A x \in Parts : m[x] \in 0..Undefined BY <1>3 DEF Content
  <1>5. m \in Content BY <1>4 DEF Content
  <1>6. pool' = [p EXCEPT !.mem[bo] = m]
    BY <1>2 DEF Bring
  <1>7. \A x \in Parts : m[x] = IF x \in range THEN out[x] ELSE p.mem[bo][x] OBVIOUS
  <1> HIDE DEF m, held
  <1>8. /\ PoolIs(pool', held, Listed) /\ pool'.stamp = p.stamp /\ pool'.busy = p.busy
        /\ pool'.mem = [p.mem EXCEPT ![bo] = m]
    <2> HIDE DEF bo
    <2>1. bo \in Bos BY DEF bo
    <2> QED BY <1>1, <1>5, <1>6, <2>1, MemWritten
  <1>9. Moves(pool, pool', r, bo) BY <1>8 DEF Moves, held
  <1>10. w \in Wants BY DEF Wants
  <1>11. /\ want' = [want EXCEPT ![c] = w] /\ w.res = r /\ w.bo = bo
         /\ copy' = [copy EXCEPT ![r] = fields]
         /\ UNCHANGED <<data, maps, batch, marks, last, queue>>
    BY DEF Bring
  <1> HIDE DEF w
  <1>12. BufInv' BY <1>9, <1>10, <1>11, CopyStep
  <1>13. Written(p, bo, out, range) BY <1>3, <1>7, <1>8 DEF Written
  <1> QED BY <1>12, <1>13

(* A draw gets none. *)
LEMMA NoCopyStep ==
    ASSUME Private, BufInv, NEW c \in Ctxs, Ready(c), NEW r \in Res, r \in Uses[c],
           NEW p, NEW fields \in CopyFields, Moves(pool, p, r, fields.bo), NoCopy(r, p, fields)
    PROVE  BufInv'
  <1>1. /\ pool' = p /\ copy' = [copy EXCEPT ![r] = fields] /\ want' = want
        /\ UNCHANGED <<data, maps, batch, marks, last, queue>>
    BY DEF NoCopy
  <1>2. Moves(pool, pool', r, fields.bo) BY <1>1
  <1> QED BY <1>1, <1>2, CopyStep

(* The fields that sgx_buffer_bo and copy_texture leave. *)
LEMMA CleanFields ==
    ASSUME NEW f \in CopyFields, NEW bo \in Bos \cup {None}
    PROVE  LET clean == [f EXCEPT !.dirty = {}, !.sync = FALSE]
           IN  /\ clean \in CopyFields /\ clean.bo = f.bo
               /\ [clean EXCEPT !.bo = bo] \in CopyFields /\ [clean EXCEPT !.bo = bo].bo = bo
  BY DEF CopyFields

(* ... when there is no memory. *)
LEMMA NoneFields ==
    ASSUME NEW f \in CopyFields, NEW dirty \in SUBSET Parts
    PROVE  LET none == [f EXCEPT !.bo = None, !.dirty = dirty]
           IN  none \in CopyFields /\ none.bo = None
  BY DEF CopyFields

(* ... when a texture is copied. *)
LEMMA DoneFields ==
    ASSUME NEW f \in CopyFields, NEW bo \in Bos \cup {None}, NEW shadow \in {None} \cup Content
    PROVE  LET done == [f EXCEPT !.dirty = {}, !.sync = FALSE, !.boxes = TRUE, !.shadow = shadow]
           IN  /\ done \in CopyFields /\ done.bo = f.bo
               /\ [done EXCEPT !.bo = bo] \in CopyFields /\ [done EXCEPT !.bo = bo].bo = bo
               /\ [f EXCEPT !.shadow = shadow] \in CopyFields
               /\ [f EXCEPT !.shadow = shadow].bo = f.bo
  BY DEF CopyFields

(* sgx_buffer_bo. *)
LEMMA GetBufferStep ==
    ASSUME Private, BufInv, NEW c \in Ctxs, NEW r \in Res, r \in Uses[c],
           NEW parts \in Reads, GetBuffer(c, r, parts)
    PROVE  BufInv'
  <1> DEFINE f == copy[r]
             dirty == f.dirty \cup (IF r \in maps THEN parts ELSE {})
             clean == [f EXCEPT !.dirty = {}, !.sync = FALSE]
             away == f.bo # None /\ f.sync /\ InUse(c, f.bo)
             p == IF away THEN BoDestroy(pool, f.bo) ELSE pool
             here == IF dirty = {} THEN f ELSE clean
             none == [f EXCEPT !.bo = None, !.dirty = dirty]
  <1>1. Ready(c) /\ BufferBo(c, r, parts) /\ parts \in SUBSET Parts
    BY BufferConstants DEF GetBuffer
  <1>2. /\ f \in CopyFields /\ data[r] \in Contents /\ f.dirty \in SUBSET Parts
        /\ f.bo \in Bos \cup {None}
    BY DEF BufInv, ResourceTypes, CopyFields
  <1>3. \A x \in Parts : data[r][x] \in 0..Undefined BY <1>2, WideContents DEF Contents, Content
  <1>4. dirty \in SUBSET Parts BY <1>1, <1>2
  <1>5. CASE f.bo # None /\ ~away
    <2>1. Bring(c, r, parts, pool, here, data[r], dirty) BY <1>1, <1>5 DEF BufferBo
    <2>2. here \in CopyFields /\ here.bo = f.bo BY <1>2, CleanFields
    <2>3. Moves(pool, pool, r, here.bo) BY <2>2, Stays
    <2> HIDE DEF here, dirty, away, clean
    <2>4. \A x \in dirty : data[r][x] \in 0..Undefined BY <1>3, <1>4
    <2> QED BY <1>1, <1>2, <1>4, <1>5, <2>1, <2>2, <2>3, <2>4, BringStep
  <1>6. CASE ~(f.bo # None /\ ~away)
    <2>1. \/ /\ HasMemory
             /\ \E g \in CacheGet(p) :
                   Bring(c, r, parts, g.pool, [clean EXCEPT !.bo = g.bo], data[r], Parts)
          \/ NoCopy(r, p, none)
      BY <1>1, <1>6 DEF BufferBo
    <2>2. /\ PoolIs(p, Others(r), Listed) /\ p.busy = pool.busy /\ p.mem = pool.mem
          /\ \A b \in Bos : p.stamp[b] = pool.stamp[b] \/ (b \notin Listed /\ p.stamp[b] = None)
          /\ Moves(pool, p, r, None)
      <3>1. CASE away
        <4>1. p = BoDestroy(pool, copy[r].bo) /\ copy[r].bo # None BY <3>1
        <4> HIDE DEF p
        <4> QED BY <4>1, LetsGoOf DEF Moves
      <3>2. CASE ~away
        <4>1. p = pool /\ f.bo = None BY <1>6, <3>2
        <4>2. Held = Others(r) BY <4>1, HeldIs DEF OneOf
        <4>3. PoolIs(pool, Others(r), Listed) BY <4>2 DEF BufInv
        <4>4. Moves(pool, pool, r, None) BY <4>1, Stays
        <4> HIDE DEF p
        <4> QED BY <4>1, <4>3, <4>4
      <3> QED BY <3>1, <3>2
    <2>3. CASE NoCopy(r, p, none)
      <3>1. none \in CopyFields /\ none.bo = None
        <4> HIDE DEF f, dirty
        <4> QED BY <1>2, <1>4, NoneFields
      <3> HIDE DEF none, p
      <3> QED BY <1>1, <2>2, <2>3, <3>1, NoCopyStep
    <2>4. CASE \E g \in CacheGet(p) :
                   Bring(c, r, parts, g.pool, [clean EXCEPT !.bo = g.bo], data[r], Parts)
      <3>1. PICK g \in CacheGet(p) :
                   Bring(c, r, parts, g.pool, [clean EXCEPT !.bo = g.bo], data[r], Parts)
        BY <2>4
      <3> HIDE DEF p
      <3>2. Moves(pool, g.pool, r, g.bo) /\ g.bo \in Bos BY <2>2, GetsNew
      <3> DEFINE fields == [clean EXCEPT !.bo = g.bo]
      <3>3. fields \in CopyFields /\ fields.bo = g.bo BY <1>2, <3>2, CleanFields
      <3> HIDE DEF fields
      <3>4. Bring(c, r, parts, g.pool, fields, data[r], Parts) BY <3>1 DEF fields
      <3> QED BY <1>1, <1>3, <3>2, <3>3, <3>4, BringStep
    <2> QED BY <2>1, <2>3, <2>4
  <1> QED BY <1>5, <1>6

(* sgx_resource_texture. *)
LEMMA GetTextureStep ==
    ASSUME Private, BufInv, NEW c \in Ctxs, NEW r \in Res, r \in Uses[c], GetTexture(c, r)
    PROVE  BufInv'
  <1> DEFINE f == copy[r]
             boxed == f.bo # None /\ f.boxes /\ f.dirty # {}
             partial == boxed /\ f.shadow # None
             shadow == CASE ~boxed -> None
                         [] partial -> f.shadow
                         [] OTHER -> [p \in Parts |-> Undefined]
             out == [p \in Parts |-> IF ~partial \/ p \in f.dirty THEN data[r][p] ELSE shadow[p]]
             kept == IF boxed THEN out ELSE None
             done == [f EXCEPT !.dirty = {}, !.sync = FALSE, !.boxes = TRUE, !.shadow = kept]
             fresh == f.bo = None \/ InUse(c, f.bo)
             range == IF partial THEN f.dirty ELSE Parts
             none == [f EXCEPT !.shadow = shadow]
  <1>1. Ready(c) BY DEF GetTexture
  <1>2. /\ f \in CopyFields /\ data[r] \in Contents /\ f.dirty \in SUBSET Parts
        /\ f.bo \in Bos \cup {None} /\ f.shadow \in {None} \cup Content
    BY DEF BufInv, ResourceTypes, CopyFields
  <1>3. \A x \in Parts : data[r][x] \in 0..Undefined BY <1>2, WideContents DEF Contents, Content
  <1>4. shadow \in {None} \cup Content /\ (partial => shadow \in Content)
    BY <1>2, BufferConstants DEF Content, Undefined
  <1>5. \A x \in Parts : out[x] \in 0..Undefined
    <2> HIDE DEF shadow
    <2> TAKE x \in Parts
    <2>1. CASE ~partial \/ x \in f.dirty BY <1>3, <2>1
    <2>2. CASE ~(~partial \/ x \in f.dirty) BY <1>4, <2>2 DEF Content
    <2> QED BY <2>1, <2>2
  <1>6. out \in Content
    <2> DEFINE o == out
    <2>1. o = [x \in Parts |-> o[x]] OBVIOUS
    <2>2. \A x \in Parts : o[x] \in 0..Undefined BY <1>5
    <2> HIDE DEF o
    <2>3. o \in Content BY <2>1, <2>2 DEF Content
    <2> QED BY <2>3 DEF o
  <1>7. kept \in {None} \cup Content /\ range \in SUBSET Parts
    <2> HIDE DEF out
    <2> QED BY <1>2, <1>6
  <1>8. CASE ~(copy[r].bo = None \/ copy[r].dirty # {})
    <2>1. Bring(c, r, Parts, pool, f, data[r], {}) BY <1>8 DEF GetTexture
    <2> QED BY <1>1, <1>2, <1>8, <2>1, Stays, BringStep
  <1>9. CASE copy[r].bo = None \/ copy[r].dirty # {}
    <2>1. CopyTexture(c, r) BY <1>9 DEF GetTexture
    <2>2. CASE ~fresh
      <3>1. Bring(c, r, Parts, pool, done, out, range) BY <2>1, <2>2 DEF CopyTexture
      <3> HIDE DEF kept, range, out
      <3>2. done \in CopyFields /\ done.bo = f.bo
        <4> HIDE DEF f
        <4> QED BY <1>2, <1>7, DoneFields
      <3> HIDE DEF done
      <3>3. f.bo \in Bos BY <1>2, <2>2
      <3>4. Moves(pool, pool, r, done.bo) BY <3>2, Stays
      <3>5. \A x \in range : out[x] \in 0..Undefined BY <1>5, <1>7
      <3> QED BY <1>1, <1>7, <3>1, <3>2, <3>3, <3>4, <3>5, BringStep
    <2>3. CASE fresh
      <3>1. \/ \E g \in CacheGet(pool) :
                  Bring(c, r, Parts,
                        IF f.bo = None THEN g.pool ELSE BoDestroy(g.pool, f.bo),
                        [done EXCEPT !.bo = g.bo], out, Parts)
            \/ NoCopy(r, pool, none)
        BY <2>1, <2>3 DEF CopyTexture
      <3>2. CASE NoCopy(r, pool, none)
        <4> HIDE DEF shadow
        <4>1. none \in CopyFields /\ none.bo = f.bo BY <1>2, <1>4, DoneFields
        <4>2. Moves(pool, pool, r, none.bo) BY <4>1, Stays
        <4> QED BY <1>1, <3>2, <4>1, <4>2, NoCopyStep
      <3>3. CASE \E g \in CacheGet(pool) :
                  Bring(c, r, Parts,
                        IF f.bo = None THEN g.pool ELSE BoDestroy(g.pool, f.bo),
                        [done EXCEPT !.bo = g.bo], out, Parts)
        <4>1. PICK g \in CacheGet(pool) :
                  Bring(c, r, Parts,
                        IF f.bo = None THEN g.pool ELSE BoDestroy(g.pool, f.bo),
                        [done EXCEPT !.bo = g.bo], out, Parts)
          BY <3>3
        <4> DEFINE p == IF f.bo = None THEN g.pool ELSE BoDestroy(g.pool, f.bo)
                   fields == [done EXCEPT !.bo = g.bo]
        <4>2. Moves(pool, p, r, g.bo) /\ g.bo \in Bos
          <5>1. CASE f.bo = None
            <6>1. Held = Others(r) BY <5>1, HeldIs DEF OneOf
            <6>2. PoolIs(pool, Others(r), Listed) BY <6>1 DEF BufInv
            <6> QED BY <5>1, <6>2, GetsNew
          <5>2. CASE f.bo # None BY <5>2, GetsAnother
          <5> QED BY <5>1, <5>2
        <4>3. Bring(c, r, Parts, p, fields, out, Parts) BY <4>1
        <4> HIDE DEF kept, out
        <4>4. fields \in CopyFields /\ fields.bo = g.bo
          <5> DEFINE bo == g.bo
          <5> HIDE DEF f
          <5>1. bo \in Bos \cup {None} BY <4>2
          <5> HIDE DEF bo
          <5>2. [done EXCEPT !.bo = bo] \in CopyFields /\ [done EXCEPT !.bo = bo].bo = bo
            BY <1>2, <1>7, <5>1, DoneFields
          <5> QED BY <5>2 DEF bo
        <4> HIDE DEF fields, p
        <4> QED BY <1>1, <1>5, <4>2, <4>3, <4>4, BringStep
      <3> QED BY <3>1, <3>2, <3>3
    <2> QED BY <2>2, <2>3
  <1> QED BY <1>8, <1>9

(* A context's lists are lists of buffers. *)
LEMMA BatchIs ==
    ASSUME BufInv, NEW c \in Ctxs
    PROVE  /\ c # None
           /\ batch[c] \in [draws : Seq(DrawsMade), bos : Seq(Bos)]
           /\ marks[c] \in [bos : Seq(Bos), sent : BOOLEAN]
           /\ Range(batch[c].bos) \subseteq Bos /\ Range(marks[c].bos) \subseteq Bos
           /\ marks[c] = NoMarks => Range(marks[c].bos) = {}
  <1>1. /\ batch[c] \in [draws : Seq(DrawsMade), bos : Seq(Bos)]
        /\ marks[c] \in [bos : Seq(Bos), sent : BOOLEAN]
    BY DEF BufInv, BatchTypes
  <1>2. Range(batch[c].bos) \subseteq Bos /\ Range(marks[c].bos) \subseteq Bos
    BY <1>1, InRange
  <1>3. Range(<<>>) = {} BY DEF Range
  <1>4. marks[c] = NoMarks => Range(marks[c].bos) = {} BY <1>3 DEF NoMarks
  <1> QED BY <1>1, <1>2, <1>4, BufferConstants

(* What a context reaches, no other context's lists and renders name.      *)
LEMMA Alone ==
    ASSUME BufInv, NEW c \in Ctxs, NEW b \in Bos, Reaches(c, b)
    PROVE  /\ \A d \in Ctxs \ {c} : b \notin Range(batch[d].bos) /\ b \notin Range(marks[d].bos)
           /\ \A k \in DOMAIN queue : b \in Range(queue[k].bos) => queue[k].ctx = c
           /\ b \in Listed <=> b \in Range(batch[c].bos) \/ b \in Range(marks[c].bos)
           /\ marks[c] = NoMarks => ~ToMark(b)
  <1>1. \A d \in Ctxs \ {c} : ~ListedBy(d, b) BY DEF BufInv, Apart, Reaches
  <1>2. \A d \in Ctxs \ {c} : b \notin Range(batch[d].bos) /\ b \notin Range(marks[d].bos)
    BY <1>1 DEF ListedBy
  <1>3. ASSUME NEW k \in DOMAIN queue, b \in Range(queue[k].bos) PROVE queue[k].ctx = c
    <2>1. queue[k] \in Renders
      <3>1. queue \in Seq(Renders) BY DEF BufInv, QueueTypes
      <3> QED BY <3>1, InRange
    <2>2. queue[k].ctx \in Ctxs BY <2>1 DEF Renders
    <2> QED BY <1>1, <1>3, <2>2 DEF ListedBy
  <1>4. b \in Listed <=> b \in Range(batch[c].bos) \/ b \in Range(marks[c].bos)
    BY <1>2 DEF Listed
  <1>5. marks[c] = NoMarks => ~ToMark(b) BY <1>2, BatchIs DEF ToMark
  <1> QED BY <1>2, <1>3, <1>4, <1>5

(* The copy that the draw being made got is still the resource's.          *)
LEMMA WantIs ==
    ASSUME BufInv, NEW c \in Ctxs, want[c] # None
    PROVE  /\ want[c] \in Wants /\ copy[want[c].res].bo = want[c].bo
           /\ want[c].bo \in Held /\ Reaches(c, want[c].bo)
  BY DEF BufInv, WantTypes, WantHeld, Wants, Held, Reaches

(* The draw is gathered: what it will show, and its buffer listed.         *)
LEMMA AddStep ==
    ASSUME BufInv, NEW c \in Ctxs, Add(c)
    PROVE  /\ BufInv'
           /\ pool'.mem = pool.mem
           /\ \E d \in DrawsMade :
                 /\ d.res = want[c].res /\ d.bo = want[c].bo
                 /\ d.saw = [p \in want[c].parts |-> data[want[c].res][p]]
                 /\ batch'[c].draws = Append(batch[c].draws, d)
                 /\ want[c].bo \in Range(batch'[c].bos)
                 /\ Range(batch[c].bos) \subseteq Range(batch'[c].bos)
           /\ \A a \in Ctxs \ {c} : batch'[a] = batch[a]
  <1> DEFINE w == want[c]
             b == w.bo
             listed == pool.stamp[b] = c
             d == [res |-> w.res, bo |-> b, saw |-> [p \in w.parts |-> data[w.res][p]]]
             draws == Append(batch[c].draws, d)
             bos == IF listed THEN batch[c].bos ELSE Append(batch[c].bos, b)
  <1>1. /\ want[c] # None /\ marks[c] = NoMarks /\ HasRoom(c)
        /\ batch' = [batch EXCEPT ![c].draws = draws, ![c].bos = bos]
        /\ pool' = IF listed THEN pool ELSE [pool EXCEPT !.refs[b] = @ + 1, !.stamp[b] = c]
        /\ want' = [want EXCEPT ![c] = None]
        /\ UNCHANGED <<data, copy, maps, marks, last, queue>>
    BY DEF Add
  <1>2. c # None /\ batch[c] \in [draws : Seq(DrawsMade), bos : Seq(Bos)] BY BatchIs
  <1>3. w \in Wants /\ copy[w.res].bo = b /\ b \in Held /\ Reaches(c, b) BY <1>1, WantIs
  <1>4. b \in Bos /\ w.res \in Res /\ w.parts \in SUBSET Parts BY <1>3 DEF Wants
  <1>5. d \in DrawsMade
    <2>1. data[w.res] \in Contents BY <1>4 DEF BufInv, ResourceTypes
    <2>2. [p \in w.parts |-> data[w.res][p]] \in [w.parts -> 0..MaxWrites]
      BY <1>4, <2>1 DEF Contents
    <2>3. [p \in w.parts |-> data[w.res][p]] \in Views BY <1>4, <2>2 DEF Views
    <2> QED BY <1>4, <2>3 DEF DrawsMade
  <1>6. d.res = w.res /\ d.bo = b /\ d.saw = [p \in w.parts |-> data[w.res][p]] OBVIOUS
  <1> HIDE DEF d
  <1>7. /\ listed <=> b \in Range(batch[c].bos)
        /\ listed <=> b \in Listed
        /\ \A a \in Ctxs \ {c} : b \notin Range(batch[a].bos) /\ b \notin Range(marks[a].bos)
    <2>1. listed <=> b \in Range(batch[c].bos) BY <1>1, <1>4 DEF BufInv, Stamps
    <2>2. Range(marks[c].bos) = {} BY <1>1, BatchIs
    <2> QED BY <1>3, <1>4, <2>1, <2>2, Alone
  <1>8. draws \in Seq(DrawsMade) /\ draws # <<>> /\ Len(draws) = Len(batch[c].draws) + 1
    BY <1>2, <1>5, Appended
  <1>9. /\ bos \in Seq(Bos) /\ Once(bos) /\ bos # <<>>
        /\ Range(bos) = Range(batch[c].bos) \cup {b}
    <2>1. batch[c].bos \in Seq(Bos) /\ Once(batch[c].bos) BY <1>2 DEF BufInv, Lists
    <2>2. Append(batch[c].bos, b) # <<>> BY <1>4, <2>1, Appended
    <2>3. CASE listed
      <3>1. batch[c].bos # <<>>
        <4>1. Range(<<>>) = {} BY DEF Range
        <4> QED BY <1>7, <2>3, <4>1
      <3> QED BY <1>7, <2>1, <2>3, <3>1
    <2>4. CASE ~listed BY <1>4, <1>7, <2>1, <2>4, Appended
    <2> QED BY <2>3, <2>4
  <1> HIDE DEF draws, bos
  <1>10. /\ batch' \in [Ctxs -> [draws : Seq(DrawsMade), bos : Seq(Bos)]]
         /\ batch'[c].draws = draws /\ batch'[c].bos = bos
         /\ \A a \in Ctxs \ {c} : batch'[a] = batch[a]
    <2> DEFINE first == [batch EXCEPT ![c].draws = draws]
    <2>1. batch \in [Ctxs -> [draws : Seq(DrawsMade), bos : Seq(Bos)]] BY DEF BufInv, BatchTypes
    <2>2. /\ first \in [Ctxs -> [draws : Seq(DrawsMade), bos : Seq(Bos)]]
          /\ first[c].draws = draws
          /\ \A a \in Ctxs \ {c} : first[a] = batch[a]
      BY <1>8, <2>1
    <2>3. batch' = [first EXCEPT ![c].bos = bos] BY <1>1, <2>1
    <2> HIDE DEF first
    <2> QED BY <1>9, <2>2, <2>3
  <1>11. PoolIs(pool', Held, Listed \cup {b}) /\ pool'.mem = pool.mem /\ pool'.busy = pool.busy
         /\ \A a \in Bos : pool'.stamp[a] = IF a = b THEN c ELSE pool.stamp[a]
    <2>0. PoolIs(pool, Held, Listed) BY DEF BufInv
    <2>1. CASE listed
      <3>1. Listed \cup {b} = Listed BY <1>7, <2>1
      <3> QED BY <1>1, <2>0, <2>1, <3>1
    <2>2. CASE ~listed
      <3>1. PoolTypes(pool) /\ Counted(pool, Held, Listed) /\ Cached(pool) BY <2>0 DEF PoolIs
      <3>2. b \notin Listed /\ pool.refs[b] = 0
        BY <1>4, <1>7, <2>2, <3>1 DEF Counted
      <3> DEFINE refs == [pool.refs EXCEPT ![b] = pool.refs[b] + 1]
                 stamp == [pool.stamp EXCEPT ![b] = c]
      <3>3. refs \in [Bos -> Nat] /\ \A a \in Bos : refs[a] = IF a = b THEN 1 ELSE pool.refs[a]
        BY <1>4, <3>1, <3>2 DEF PoolTypes
      <3>4. /\ stamp \in [Bos -> Ctxs \cup {None}]
            /\ \A a \in Bos : stamp[a] = IF a = b THEN c ELSE pool.stamp[a]
        BY <1>4, <3>1 DEF PoolTypes
      <3>5. pool' = [pool EXCEPT !.refs = refs, !.stamp = stamp]
        BY <1>1, <2>2, <3>1 DEF PoolTypes
      <3> HIDE DEF refs, stamp
      <3>6. /\ pool'.refs = refs /\ pool'.stamp = stamp /\ pool'.at = pool.at
            /\ pool'.cache = pool.cache /\ pool'.mem = pool.mem /\ pool'.busy = pool.busy
            /\ PoolTypes(pool')
        BY <3>1, <3>3, <3>4, <3>5 DEF PoolTypes
      <3>7. Counted(pool', Held, Listed \cup {b})
        BY <1>3, <1>4, <3>1, <3>2, <3>3, <3>6 DEF Counted
      <3>8. Cached(pool') BY <3>1, <3>6 DEF Cached
      <3> QED BY <3>4, <3>6, <3>7, <3>8 DEF PoolIs
    <2> QED BY <2>1, <2>2
  <1> USE DEF BufInv
  <1>12. ResourceTypes' BY <1>1 DEF ResourceTypes
  <1>13. WantTypes' BY <1>1 DEF WantTypes
  <1>14. BatchTypes'
    <2>1. Len(batch[c].draws) < MaxDraws BY <1>1 DEF HasRoom
    <2>2. Len(batch[c].draws) \in Nat /\ MaxDraws \in Nat BY <1>2, InRange, BufferConstants
    <2>3. Len(draws) <= MaxDraws BY <1>8, <2>1, <2>2
    <2> QED BY <1>1, <1>10, <2>3 DEF BatchTypes
  <1>15. QueueTypes' BY <1>1 DEF QueueTypes
  <1>16. PoolIs(pool, Held, Listed)'
    <2>1. Held' = Held BY <1>1 DEF Held
    <2>2. Listed' = Listed \cup {b}
      <3>1. \A a \in Bos : a \in Listed' <=> a \in Listed \/ a = b
        BY <1>1, <1>4, <1>9, <1>10 DEF Listed
      <3> QED BY <1>4, <3>1 DEF Listed
    <2> QED BY <1>11, <2>1, <2>2
  <1>17. OneOwner' BY <1>1 DEF OneOwner
  <1>18. WantHeld' BY <1>1 DEF WantHeld, WantTypes
  <1>19. Lists' /\ LastTold' BY <1>1, <1>9, <1>10 DEF Lists, LastTold
  <1>20. Stamps'
    <2> SUFFICES ASSUME NEW a \in Ctxs, marks[a] = NoMarks, NEW e \in Bos
                 PROVE  pool'.stamp[e] = a <=> e \in Range(batch'[a].bos)
      BY <1>1 DEF Stamps
    <2>1. pool.stamp[e] = a <=> e \in Range(batch[a].bos) BY DEF Stamps
    <2>2. CASE a = c BY <1>9, <1>10, <1>11, <2>1, <2>2
    <2>3. CASE a # c BY <1>7, <1>10, <1>11, <2>1, <2>3
    <2> QED BY <2>2, <2>3
  <1>21. BusyTold' BY <1>1, <1>11 DEF BusyTold, ToMark
  <1>22. Apart'
    <2>1. ASSUME NEW a \in Ctxs, NEW e \in Bos, Reaches(a, e)' PROVE Reaches(a, e)
      <3>1. Reaches(a, e) \/ e \in Range(batch'[a].bos) BY <1>1, <2>1 DEF Reaches, ListedBy
      <3>2. CASE a = c BY <1>3, <1>9, <1>10, <3>1, <3>2 DEF Reaches, ListedBy
      <3>3. CASE a # c BY <1>10, <3>1, <3>3 DEF Reaches, ListedBy
      <3> QED BY <3>2, <3>3
    <2> QED BY <2>1 DEF Apart
  <1>23. BufInv'
    BY <1>12, <1>13, <1>14, <1>15, <1>16, <1>17, <1>18, <1>19, <1>20, <1>21, <1>22
  <1>24. /\ batch'[c].draws = Append(batch[c].draws, d)
         /\ b \in Range(batch'[c].bos) /\ Range(batch[c].bos) \subseteq Range(batch'[c].bos)
    BY <1>9, <1>10 DEF draws
  <1> QED BY <1>5, <1>6, <1>10, <1>11, <1>23, <1>24

(* A batch goes: its buffers are those to let go, each once.               *)
LEMMA FlushParts ==
    ASSUME BufInv, NEW c \in Ctxs, MayFlush(c), NEW sent \in BOOLEAN,
           marks' = [marks EXCEPT ![c] = [bos |-> batch[c].bos, sent |-> sent]],
           batch' = [batch EXCEPT ![c] = NewBatch]
    PROVE  /\ BatchTypes' /\ Listed' = Listed
           /\ marks[c] = NoMarks /\ batch[c].draws # <<>>
           /\ marks'[c] # NoMarks /\ marks'[c].bos = batch[c].bos /\ marks'[c].sent = sent
           /\ batch'[c] = NewBatch /\ Range(batch'[c].bos) = {}
           /\ \A d \in Ctxs \ {c} : batch'[d] = batch[d] /\ marks'[d] = marks[d]
           /\ Once(batch[c].bos) /\ Once(<<>>) /\ batch[c].bos # <<>>
           /\ \A b : ToMark(b) => ToMark(b)'
  <1>1. marks[c] = NoMarks /\ batch[c].draws # <<>> BY DEF MayFlush
  <1>2. /\ batch[c] \in [draws : Seq(DrawsMade), bos : Seq(Bos)]
        /\ Range(batch[c].bos) \subseteq Bos /\ Range(marks[c].bos) = {}
    BY <1>1, BatchIs
  <1>3. DOMAIN marks = Ctxs /\ DOMAIN batch = Ctxs BY DEF BufInv, BatchTypes
  <1>4. /\ marks'[c] = [bos |-> batch[c].bos, sent |-> sent] /\ batch'[c] = NewBatch
        /\ \A d \in Ctxs \ {c} : batch'[d] = batch[d] /\ marks'[d] = marks[d]
    BY <1>3
  <1>5. Once(batch[c].bos) /\ batch[c].bos # <<>> BY <1>1 DEF BufInv, Lists
  <1>6. Range(<<>>) = {} /\ Once(<<>>) BY DEF Range, Once
  <1>7. <<>> \in Seq(Bos) /\ <<>> \in Seq(DrawsMade) /\ Len(<<>>) = 0 BY EmptySeq
  <1>8. BatchTypes'
    <2>1. NewBatch \in [draws : Seq(DrawsMade), bos : Seq(Bos)] /\ Len(NewBatch.draws) <= MaxDraws
      BY <1>7, BufferConstants DEF NewBatch
    <2>2. [bos |-> batch[c].bos, sent |-> sent] \in [bos : Seq(Bos), sent : BOOLEAN] BY <1>2
    <2> QED BY <1>4, <2>1, <2>2 DEF BatchTypes, BufInv
  <1>9. Range(batch'[c].bos) = {} /\ marks'[c].bos = batch[c].bos BY <1>4, <1>6 DEF NewBatch
  <1>10. Listed' = Listed
    <2>1. \A d \in Ctxs : \A b : b \in Range(batch'[d].bos) \/ b \in Range(marks'[d].bos)
                                 <=> b \in Range(batch[d].bos) \/ b \in Range(marks[d].bos)
      BY <1>2, <1>4, <1>9
    <2> QED BY <2>1 DEF Listed
  <1>11. marks'[c] # NoMarks BY <1>4, <1>5 DEF NoMarks
  <1>12. \A b : ToMark(b) => ToMark(b)' BY <1>2, <1>4 DEF ToMark
  <1> QED BY <1>1, <1>4, <1>5, <1>6, <1>8, <1>9, <1>10, <1>11, <1>12

(* A flush. *)
LEMMA SubmitStep ==
    ASSUME BufInv, NEW c \in Ctxs, Submit(c)
    PROVE  BufInv'
  <1> DEFINE render == [ctx |-> c, draws |-> batch[c].draws, bos |-> batch[c].bos]
  <1>1. /\ MayFlush(c) /\ Len(queue) < MaxQueued
        /\ queue' = Append(queue, render)
        /\ last' = [last EXCEPT ![c] = Len(queue) + 1]
        /\ marks' = [marks EXCEPT ![c] = [bos |-> batch[c].bos, sent |-> TRUE]]
        /\ batch' = [batch EXCEPT ![c] = NewBatch]
        /\ UNCHANGED <<data, copy, maps, pool, want>>
    BY DEF Submit
  <1>2. /\ BatchTypes' /\ Listed' = Listed
        /\ marks[c] = NoMarks
        /\ marks'[c] # NoMarks /\ marks'[c].bos = batch[c].bos /\ marks'[c].sent = TRUE
        /\ batch'[c] = NewBatch /\ Range(batch'[c].bos) = {}
        /\ \A d \in Ctxs \ {c} : batch'[d] = batch[d] /\ marks'[d] = marks[d]
        /\ Once(batch[c].bos) /\ Once(<<>>) /\ batch[c].bos # <<>>
        /\ \A b : ToMark(b) => ToMark(b)'
    BY <1>1, FlushParts
  <1>3. render \in Renders
    <2>1. batch[c] \in [draws : Seq(DrawsMade), bos : Seq(Bos)] BY DEF BufInv, BatchTypes
    <2> QED BY <2>1 DEF Renders
  <1>4. render.bos = batch[c].bos /\ render.ctx = c OBVIOUS
  <1> HIDE DEF render
  <1>5. queue \in Seq(Renders) /\ Len(queue) \in Nat
    <2>1. queue \in Seq(Renders) BY DEF BufInv, QueueTypes
    <2> QED BY <2>1, InRange
  <1>6. /\ queue' \in Seq(Renders) /\ Len(queue') = Len(queue) + 1
        /\ \A k \in DOMAIN queue' : \/ k \in DOMAIN queue /\ queue'[k] = queue[k]
                                    \/ k = Len(queue) + 1 /\ queue'[k] = render
    BY <1>1, <1>3, <1>5, Appended
  <1> USE DEF BufInv
  <1>7. ResourceTypes' BY <1>1 DEF ResourceTypes
  <1>8. WantTypes' BY <1>1 DEF WantTypes
  <1>9. QueueTypes'
    <2>1. MaxQueued \in Nat BY BufferConstants
    <2>2. Len(queue) + 1 \in 0..MaxQueued BY <1>1, <1>5, <2>1
    <2> QED BY <1>1, <1>6, <2>2 DEF QueueTypes
  <1>10. PoolIs(pool, Held, Listed)' BY <1>1, <1>2 DEF Held
  <1>11. OneOwner' BY <1>1 DEF OneOwner
  <1>12. WantHeld' BY <1>1 DEF WantHeld
  <1>13. Lists' BY <1>2 DEF Lists, NewBatch
  <1>14. LastTold'
    <2> SUFFICES ASSUME NEW k \in DOMAIN queue' PROVE k <= last'[queue'[k].ctx]
      BY DEF LastTold
    <2>1. last'[c] = Len(queue) + 1 /\ \A d \in Ctxs \ {c} : last'[d] = last[d]
      BY <1>1 DEF QueueTypes
    <2>2. CASE k \in DOMAIN queue /\ queue'[k] = queue[k]
      <3>1. k <= last[queue[k].ctx] BY <2>2 DEF LastTold
      <3>2. k \in 1..Len(queue) /\ queue[k].ctx \in Ctxs
        <4>1. queue[k] \in Renders /\ DOMAIN queue = 1..Len(queue) BY <1>5, <2>2, InRange
        <4> QED BY <2>2, <4>1 DEF Renders
      <3> QED BY <1>5, <2>1, <2>2, <3>1, <3>2
    <2>3. CASE k = Len(queue) + 1 /\ queue'[k] = render BY <1>4, <1>5, <2>1, <2>3
    <2> QED BY <1>6, <2>2, <2>3
  <1>15. Stamps' BY <1>1, <1>2 DEF Stamps
  <1>16. BusyTold'
    <2> SUFFICES ASSUME NEW k \in DOMAIN queue', NEW b \in Range(queue'[k].bos)
                 PROVE  k <= pool'.busy[b] \/ ToMark(b)'
      BY DEF BusyTold
    <2>1. CASE k \in DOMAIN queue /\ queue'[k] = queue[k]
      BY <1>1, <1>2, <2>1 DEF BusyTold
    <2>2. CASE queue'[k] = render BY <1>2, <1>4, <2>2 DEF ToMark
    <2> QED BY <1>6, <2>1, <2>2
  <1>17. Apart'
    <2>1. ASSUME NEW d \in Ctxs, NEW b \in Bos, ListedBy(d, b)' PROVE ListedBy(d, b)
      <3>1. CASE b \in Range(batch'[d].bos) \/ b \in Range(marks'[d].bos)
        BY <1>2, <3>1 DEF ListedBy
      <3>2. ASSUME NEW k \in DOMAIN queue', queue'[k].ctx = d, b \in Range(queue'[k].bos)
            PROVE  ListedBy(d, b)
        BY <1>4, <1>6, <3>2 DEF ListedBy
      <3> QED BY <2>1, <3>1, <3>2 DEF ListedBy
    <2>2. \A d \in Ctxs : \A b \in Bos : Reaches(d, b)' => Reaches(d, b)
      BY <1>1, <2>1 DEF Reaches
    <2> QED BY <2>2 DEF Apart
  <1> QED BY <1>2, <1>7, <1>8, <1>9, <1>10, <1>11, <1>12, <1>13, <1>14, <1>15, <1>16, <1>17

(* A flush that the kernel refuses. *)
LEMMA SubmitFailsStep ==
    ASSUME BufInv, NEW c \in Ctxs, SubmitFails(c)
    PROVE  BufInv'
  <1>1. /\ MayFlush(c)
        /\ marks' = [marks EXCEPT ![c] = [bos |-> batch[c].bos, sent |-> FALSE]]
        /\ batch' = [batch EXCEPT ![c] = NewBatch]
        /\ UNCHANGED <<data, copy, maps, pool, want, last, queue>>
    BY DEF SubmitFails
  <1>2. /\ BatchTypes' /\ Listed' = Listed
        /\ marks[c] = NoMarks
        /\ marks'[c] # NoMarks /\ marks'[c].bos = batch[c].bos /\ marks'[c].sent = FALSE
        /\ batch'[c] = NewBatch /\ Range(batch'[c].bos) = {}
        /\ \A d \in Ctxs \ {c} : batch'[d] = batch[d] /\ marks'[d] = marks[d]
        /\ Once(batch[c].bos) /\ Once(<<>>) /\ batch[c].bos # <<>>
        /\ \A b : ToMark(b) => ToMark(b)'
    BY <1>1, FlushParts
  <1> USE DEF BufInv
  <1>3. ResourceTypes' /\ WantTypes' /\ QueueTypes' /\ OneOwner'
    BY <1>1 DEF ResourceTypes, WantTypes, QueueTypes, OneOwner
  <1>4. PoolIs(pool, Held, Listed)' BY <1>1, <1>2 DEF Held
  <1>5. WantHeld' BY <1>1 DEF WantHeld
  <1>6. Lists' /\ LastTold' BY <1>1, <1>2 DEF Lists, LastTold, NewBatch
  <1>7. Stamps' BY <1>1, <1>2 DEF Stamps
  <1>8. BusyTold' BY <1>1, <1>2 DEF BusyTold
  <1>9. Apart'
    <2>1. \A d \in Ctxs : \A b \in Bos : Reaches(d, b)' => Reaches(d, b)
      BY <1>1, <1>2 DEF Reaches, ListedBy
    <2> QED BY <2>1 DEF Apart
  <1> QED BY <1>2, <1>3, <1>4, <1>5, <1>6, <1>7, <1>8, <1>9

(* A buffer is marked. *)
LEMMA BusySet ==
    ASSUME NEW p, NEW held, NEW listed, PoolIs(p, held, listed), NEW b \in Bos, NEW n \in 0..MaxQueued
    PROVE  LET q == [p EXCEPT !.busy[b] = n]
           IN  /\ PoolIs(q, held, listed) /\ q.stamp = p.stamp /\ q.mem = p.mem
               /\ \A a \in Bos : q.busy[a] = IF a = b THEN n ELSE p.busy[a]
  <1> DEFINE q == [p EXCEPT !.busy[b] = n]
             busy == [p.busy EXCEPT ![b] = n]
  <1>1. PoolTypes(p) /\ Counted(p, held, listed) /\ Cached(p) BY DEF PoolIs
  <1>2. busy \in [Bos -> 0..MaxQueued] /\ \A a \in Bos : busy[a] = IF a = b THEN n ELSE p.busy[a]
    BY <1>1 DEF PoolTypes
  <1>3. q = [p EXCEPT !.busy = busy] BY <1>1 DEF PoolTypes
  <1> HIDE DEF q, busy
  <1>4. /\ PoolTypes(q) /\ q.at = p.at /\ q.refs = p.refs /\ q.stamp = p.stamp
        /\ q.mem = p.mem /\ q.cache = p.cache /\ q.busy = busy
    BY <1>1, <1>2, <1>3 DEF PoolTypes
  <1>5. Counted(q, held, listed) /\ Cached(q) BY <1>1, <1>4 DEF Counted, Cached
  <1> QED BY <1>2, <1>4, <1>5 DEF PoolIs, q

(* The batch's stamps are those of a batch that was. *)
LEMMA Unstamped ==
    ASSUME NEW p, NEW held, NEW listed, PoolIs(p, held, listed), NEW c \in Ctxs
    PROVE  LET q == Unstamp(p, c)
           IN  /\ PoolIs(q, held, listed) /\ q.busy = p.busy /\ q.mem = p.mem
               /\ \A a \in Bos : q.stamp[a] = IF p.stamp[a] = c THEN None ELSE p.stamp[a]
  <1> DEFINE q == Unstamp(p, c)
             stamp == [b \in Bos |-> IF p.stamp[b] = c THEN None ELSE p.stamp[b]]
  <1>1. PoolTypes(p) /\ Counted(p, held, listed) /\ Cached(p) BY DEF PoolIs
  <1>3. /\ stamp \in [Bos -> Ctxs \cup {None}]
        /\ \A a \in Bos : stamp[a] = IF p.stamp[a] = c THEN None ELSE p.stamp[a]
    BY <1>1 DEF PoolTypes
  <1>4. q = [p EXCEPT !.stamp = stamp] BY DEF Unstamp
  <1> HIDE DEF q, stamp
  <1>5. /\ PoolTypes(q) /\ q.at = p.at /\ q.refs = p.refs /\ q.stamp = stamp
        /\ q.mem = p.mem /\ q.cache = p.cache /\ q.busy = p.busy
    BY <1>1, <1>3, <1>4 DEF PoolTypes
  <1>6. Counted(q, held, listed) /\ Cached(q) BY <1>1, <1>5 DEF Counted, Cached
  <1> QED BY <1>3, <1>5, <1>6 DEF PoolIs, q

(* A flushed batch's next buffer is marked and let go. *)
LEMMA MarkStep ==
    ASSUME BufInv, NEW c \in Ctxs, Mark(c)
    PROVE  BufInv' /\ pool'.mem = pool.mem
  <1> DEFINE b == Head(marks[c].bos)
             p == Marked(pool, c, b)
             q == BoDestroy(p, b)
             rest == Rest(c)
  <1>1. /\ marks[c].bos # <<>>
        /\ pool' = IF rest = <<>> THEN Unstamp(q, c) ELSE q
        /\ marks' = [marks EXCEPT ![c] = IF rest = <<>> THEN NoMarks ELSE [@ EXCEPT !.bos = rest]]
        /\ UNCHANGED <<data, copy, maps, batch, want, last, queue>>
    BY DEF Mark, LetsGo
  <1>2. c # None /\ marks[c] \in [bos : Seq(Bos), sent : BOOLEAN] BY BatchIs
  <1>3. marks[c] # NoMarks BY <1>1 DEF NoMarks
  <1>4. Once(marks[c].bos) /\ batch[c] = NewBatch /\ batch[c].bos = <<>>
    BY <1>3 DEF BufInv, Lists, NewBatch
  <1>5. Range(<<>>) = {} /\ Once(<<>>) BY DEF Range, Once
  <1>6. /\ b \in Bos /\ b \in Range(marks[c].bos) /\ rest \in Seq(Bos) /\ Once(rest)
        /\ Range(rest) = Range(marks[c].bos) \ {b}
    BY <1>1, <1>2, <1>4, HeadTail DEF Rest
  <1> HIDE DEF b, rest
  <1>7. /\ b \in Listed
        /\ \A d \in Ctxs \ {c} : b \notin Range(batch[d].bos) /\ b \notin Range(marks[d].bos)
        /\ \A k \in DOMAIN queue : b \in Range(queue[k].bos) => queue[k].ctx = c
    <2>1. Reaches(c, b) BY <1>6 DEF Reaches, ListedBy
    <2> QED BY <1>6, <2>1, Alone
  <1>8. PoolIs(pool, Held, Listed) /\ last[c] \in 0..MaxQueued BY DEF BufInv, QueueTypes
  <1>9. /\ PoolIs(p, Held, Listed) /\ p.mem = pool.mem /\ p.stamp = pool.stamp
        /\ \A a \in Bos : p.busy[a] = IF a = b /\ marks[c].sent THEN last[c] ELSE pool.busy[a]
    <2>1. CASE marks[c].sent
      <3> DEFINE n == last[c]
                 marked == [pool EXCEPT !.busy[b] = n]
      <3>1. n \in 0..MaxQueued BY <1>8
      <3>2. p = marked BY <2>1 DEF Marked
      <3> HIDE DEF n, p
      <3>3. /\ PoolIs(marked, Held, Listed) /\ marked.stamp = pool.stamp /\ marked.mem = pool.mem
            /\ \A a \in Bos : marked.busy[a] = IF a = b THEN n ELSE pool.busy[a]
        <4>1. PoolIs(pool, Held, Listed) /\ b \in Bos BY <1>6, <1>8
        <4> QED BY <3>1, <4>1, BusySet
      <3> HIDE DEF marked
      <3> QED BY <2>1, <3>2, <3>3 DEF n
    <2>2. CASE ~marks[c].sent BY <1>8, <2>2 DEF Marked
    <2> QED BY <2>1, <2>2
  <1> HIDE DEF p
  <1>10. /\ PoolIs(q, Held, Listed \ {b}) /\ q.mem = p.mem /\ q.busy = p.busy
         /\ \A a \in Bos : q.stamp[a] = p.stamp[a] \/ (q.stamp[a] = None /\ a = b)
    <2>1. PoolIs(p, Listed, Held) BY <1>9, Swapped
    <2>2. /\ PoolIs(q, Listed \ {b}, Held) /\ q.mem = p.mem /\ q.busy = p.busy
          /\ \A a \in Bos : q.stamp[a] = IF a = b /\ b \notin Held THEN None ELSE p.stamp[a]
      BY <1>6, <1>7, <2>1, Destroyed
    <2> HIDE DEF q
    <2> QED BY <2>2, Swapped
  <1> HIDE DEF q
  <1>11. /\ PoolIs(pool', Held, Listed \ {b}) /\ pool'.mem = pool.mem /\ pool'.busy = p.busy
         /\ \A a \in Bos : \/ pool'.stamp[a] = pool.stamp[a]
                           \/ pool'.stamp[a] = None /\ (a = b \/ pool.stamp[a] = c)
         /\ rest = <<>> => \A a \in Bos : pool'.stamp[a] # c
    <2>1. CASE rest = <<>>
      <3>1. /\ PoolIs(pool', Held, Listed \ {b}) /\ pool'.busy = q.busy /\ pool'.mem = q.mem
            /\ \A a \in Bos : pool'.stamp[a] = IF q.stamp[a] = c THEN None ELSE q.stamp[a]
        BY <1>1, <1>10, <2>1, Unstamped
      <3> QED BY <1>2, <1>9, <1>10, <3>1
    <2>2. CASE rest # <<>> BY <1>1, <1>9, <1>10, <2>2
    <2> QED BY <2>1, <2>2
  <1>12. /\ marks' \in [Ctxs -> [bos : Seq(Bos), sent : BOOLEAN]]
         /\ marks'[c].bos = rest
         /\ rest = <<>> => marks'[c] = NoMarks
         /\ rest # <<>> => marks'[c].sent = marks[c].sent /\ marks'[c] # NoMarks
         /\ \A d \in Ctxs \ {c} : marks'[d] = marks[d]
    <2> DEFINE new == IF rest = <<>> THEN NoMarks ELSE [marks[c] EXCEPT !.bos = rest]
    <2>1. /\ new \in [bos : Seq(Bos), sent : BOOLEAN] /\ new.bos = rest
          /\ rest = <<>> => new = NoMarks
          /\ rest # <<>> => new.sent = marks[c].sent /\ new # NoMarks
      BY <1>2, <1>6 DEF NoMarks
    <2>2. marks' = [marks EXCEPT ![c] = new] BY <1>1
    <2>3. marks \in [Ctxs -> [bos : Seq(Bos), sent : BOOLEAN]] BY DEF BufInv, BatchTypes
    <2> HIDE DEF new
    <2> QED BY <2>1, <2>2, <2>3
  <1> USE DEF BufInv
  <1>13. ResourceTypes' /\ WantTypes' /\ QueueTypes' /\ OneOwner'
    BY <1>1 DEF ResourceTypes, WantTypes, QueueTypes, OneOwner
  <1>14. BatchTypes' BY <1>1, <1>12 DEF BatchTypes
  <1>15. PoolIs(pool, Held, Listed)'
    <2>1. Held' = Held BY <1>1 DEF Held
    <2>2. \A a \in Bos : a \in Listed' <=> a \in Listed /\ a # b
      <3> TAKE a \in Bos
      <3>1. a \in Listed' <=> \E d \in Ctxs : a \in Range(batch[d].bos) \/ a \in Range(marks'[d].bos)
        BY <1>1 DEF Listed
      <3>2. \A d \in Ctxs : a \in Range(batch[d].bos) \/ a \in Range(marks'[d].bos)
               <=> a # b /\ (a \in Range(batch[d].bos) \/ a \in Range(marks[d].bos))
        BY <1>4, <1>5, <1>6, <1>7, <1>12
      <3> QED BY <3>1, <3>2 DEF Listed
    <2>3. Listed' = Listed \ {b} BY <2>2 DEF Listed
    <2> QED BY <1>11, <2>1, <2>3
  <1>16. WantHeld' BY <1>1 DEF WantHeld
  <1>17. Lists' /\ LastTold' BY <1>1, <1>4, <1>5, <1>6, <1>12 DEF Lists, LastTold, NewBatch
  <1>18. Stamps'
    <2> SUFFICES ASSUME NEW d \in Ctxs, marks'[d] = NoMarks, NEW a \in Bos
                 PROVE  pool'.stamp[a] = d <=> a \in Range(batch[d].bos)
      BY <1>1 DEF Stamps
    <2>1. CASE d = c BY <1>4, <1>5, <1>11, <1>12, <2>1
    <2>2. CASE d # c
      <3>1. pool.stamp[a] = d <=> a \in Range(batch[d].bos) BY <1>12, <2>2 DEF Stamps
      <3>2. d # None BY BufferConstants
      <3> QED BY <1>7, <1>11, <2>2, <3>1, <3>2
    <2> QED BY <2>1, <2>2
  <1>19. BusyTold'
    <2> SUFFICES ASSUME NEW k \in DOMAIN queue, NEW a \in Range(queue[k].bos)
                 PROVE  k <= pool'.busy[a] \/ ToMark(a)'
      BY <1>1 DEF BusyTold
    <2>1. k <= pool.busy[a] \/ ToMark(a) BY DEF BusyTold
    <2>2. a \in Bos
      <3>1. queue[k] \in Renders BY InRange DEF QueueTypes
      <3>2. queue[k].bos \in Seq(Bos) BY <3>1 DEF Renders
      <3> QED BY <3>2, InRange
    <2>3. CASE a = b /\ marks[c].sent
      <3>1. k <= last[c] BY <1>7, <2>3 DEF LastTold
      <3> QED BY <1>9, <1>11, <2>2, <2>3, <3>1
    <2>4. CASE k <= pool.busy[a] /\ ~(a = b /\ marks[c].sent) BY <1>9, <1>11, <2>2, <2>4
    <2>5. CASE ToMark(a) /\ ~(a = b /\ marks[c].sent)
      <3>1. PICK d \in Ctxs : marks[d].sent /\ a \in Range(marks[d].bos) BY <2>5 DEF ToMark
      <3>2. CASE d = c
        <4>1. a # b /\ a \in Range(rest) BY <1>6, <2>5, <3>1, <3>2
        <4>2. rest # <<>> BY <1>5, <4>1
        <4> QED BY <1>12, <3>1, <3>2, <4>1, <4>2 DEF ToMark
      <3>3. CASE d # c BY <1>12, <3>1, <3>3 DEF ToMark
      <3> QED BY <3>2, <3>3
    <2> QED BY <2>1, <2>3, <2>4, <2>5
  <1>20. Apart'
    <2>1. \A d \in Ctxs, a \in Bos : Reaches(d, a)' => Reaches(d, a)
      BY <1>1, <1>6, <1>12 DEF Reaches, ListedBy
    <2> QED BY <2>1 DEF Apart
  <1> QED BY <1>11, <1>13, <1>14, <1>15, <1>16, <1>17, <1>18, <1>19, <1>20

(* A place in the queue, after its first render is done. *)
LEMMA SoonerIs ==
    ASSUME NEW n \in 0..MaxQueued
    PROVE  /\ Sooner(n) \in 0..MaxQueued
           /\ \A k \in Int : k + 1 <= n => k <= Sooner(n)
           /\ n # 0 => Sooner(n) = n - 1
  BY BufferConstants DEF Sooner

(* The GPU runs a render. *)
LEMMA RenderStep ==
    ASSUME BufInv, RenderRuns
    PROVE  BufInv' /\ pool'.mem = pool.mem
  <1> DEFINE busy == [b \in Bos |-> Sooner(pool.busy[b])]
  <1>1. /\ queue # <<>> /\ queue' = Tail(queue)
        /\ pool' = [pool EXCEPT !.busy = busy]
        /\ last' = [c \in Ctxs |-> Sooner(last[c])]
        /\ UNCHANGED <<data, copy, maps, batch, want, marks>>
    BY DEF RenderRuns
  <1>2. queue \in Seq(Renders) BY DEF BufInv, QueueTypes
  <1>3. /\ queue' \in Seq(Renders) /\ Len(queue') = Len(queue) - 1 /\ Len(queue) \in Nat \ {0}
        /\ \A k \in DOMAIN queue' : k + 1 \in DOMAIN queue /\ queue'[k] = queue[k + 1]
    BY <1>1, <1>2, HeadTail
  <1>4. PoolIs(pool, Held, Listed) /\ PoolTypes(pool) /\ Counted(pool, Held, Listed) /\ Cached(pool)
    BY DEF BufInv, PoolIs
  <1>5. \A b \in Bos : pool.busy[b] \in 0..MaxQueued BY <1>4 DEF PoolTypes
  <1>6. busy \in [Bos -> 0..MaxQueued] BY <1>5, SoonerIs
  <1>7. \A b \in Bos : busy[b] = Sooner(pool.busy[b]) OBVIOUS
  <1> HIDE DEF busy
  <1>8. /\ PoolTypes(pool') /\ pool'.at = pool.at /\ pool'.refs = pool.refs
        /\ pool'.stamp = pool.stamp /\ pool'.mem = pool.mem /\ pool'.cache = pool.cache
        /\ pool'.busy = busy
    BY <1>1, <1>4, <1>6 DEF PoolTypes
  <1> USE DEF BufInv
  <1>9. ResourceTypes' /\ WantTypes' /\ BatchTypes' /\ OneOwner'
    BY <1>1 DEF ResourceTypes, WantTypes, BatchTypes, OneOwner
  <1>10. QueueTypes'
    <2>1. \A c \in Ctxs : last[c] \in 0..MaxQueued BY DEF QueueTypes
    <2>2. last' \in [Ctxs -> 0..MaxQueued] BY <1>1, <2>1, SoonerIs
    <2>3. Len(queue') <= MaxQueued BY <1>3, BufferConstants DEF QueueTypes
    <2> QED BY <1>3, <2>2, <2>3 DEF QueueTypes
  <1>11. PoolIs(pool, Held, Listed)'
    <2>1. Held' = Held /\ Listed' = Listed BY <1>1 DEF Held, Listed
    <2>2. Counted(pool', Held, Listed) /\ Cached(pool') BY <1>4, <1>8 DEF Counted, Cached
    <2> QED BY <1>8, <2>1, <2>2 DEF PoolIs
  <1>12. WantHeld' BY <1>1 DEF WantHeld
  <1>13. Lists' /\ LastTold'
    <2>1. ASSUME NEW k \in DOMAIN queue' PROVE k <= last'[queue'[k].ctx]
      <3>1. k \in Int /\ queue'[k] \in Renders
        <4>1. DOMAIN queue' = 1..Len(queue') BY <1>3, InRange
        <4> QED BY <1>3, <2>1, <4>1, InRange
      <3>2. queue'[k].ctx \in Ctxs BY <3>1 DEF Renders
      <3>3. last[queue'[k].ctx] \in 0..MaxQueued BY <3>2 DEF QueueTypes
      <3>4. k + 1 <= last[queue'[k].ctx] BY <1>3, <2>1 DEF LastTold
      <3> QED BY <1>1, <3>1, <3>2, <3>3, <3>4, SoonerIs
    <2> QED BY <1>1, <2>1 DEF Lists, LastTold
  <1>14. Stamps' BY <1>1, <1>8 DEF Stamps
  <1>15. BusyTold'
    <2> SUFFICES ASSUME NEW k \in DOMAIN queue', NEW b \in Range(queue'[k].bos)
                 PROVE  k <= pool'.busy[b] \/ ToMark(b)'
      BY DEF BusyTold
    <2>1. k + 1 <= pool.busy[b] \/ ToMark(b) BY <1>3 DEF BusyTold
    <2>2. ToMark(b)' <=> ToMark(b) BY <1>1 DEF ToMark
    <2>3. k \in Int /\ queue'[k] \in Renders
      <3>1. DOMAIN queue' = 1..Len(queue') BY <1>3, InRange
      <3> QED BY <1>3, <3>1, InRange
    <2>4. b \in Bos
      <3>1. queue'[k].bos \in Seq(Bos) BY <2>3 DEF Renders
      <3> QED BY <3>1, InRange
    <2> QED BY <1>5, <1>7, <1>8, <2>1, <2>2, <2>3, <2>4, SoonerIs
  <1>16. Apart'
    <2>1. \A c \in Ctxs : \A b : Reaches(c, b)' => Reaches(c, b) BY <1>1, <1>3 DEF Reaches, ListedBy
    <2> QED BY <2>1 DEF Apart
  <1> QED BY <1>8, <1>9, <1>10, <1>11, <1>12, <1>13, <1>14, <1>15, <1>16

(* Every step keeps the first invariant. *)
LEMMA BufNext == Private /\ BufInv /\ [BuffersNext]_bufferVars => BufInv'
  <1> SUFFICES ASSUME Private, BufInv, [BuffersNext]_bufferVars PROVE BufInv' OBVIOUS
  <1>1. ASSUME NEW c \in Ctxs, Add(c) PROVE BufInv' BY <1>1, AddStep
  <1>2. ASSUME NEW c \in Ctxs, Submit(c) PROVE BufInv' BY <1>2, SubmitStep
  <1>3. ASSUME NEW c \in Ctxs, Mark(c) PROVE BufInv' BY <1>3, MarkStep
  <1>4. ASSUME NEW c \in Ctxs, SubmitFails(c) PROVE BufInv' BY <1>4, SubmitFailsStep
  <1>5. ASSUME NEW c \in Ctxs, NEW r \in Res,
               \/ WriteAll(c, r) \/ Map(c, r) \/ Unmap(c, r)
               \/ \E p \in Parts : Write(c, r, p) \/ WriteUnsync(c, r, p) \/ Poke(c, r, p)
        PROVE  BufInv'
    BY <1>5, AppSteps
  <1>6. ASSUME NEW c \in Ctxs, NEW r \in Res, r \in Uses[c], GetTexture(c, r) PROVE BufInv'
    BY <1>6, GetTextureStep
  <1>7. ASSUME NEW c \in Ctxs, NEW r \in Res, r \in Uses[c], NEW parts \in Reads,
               GetBuffer(c, r, parts)
        PROVE  BufInv'
    BY <1>7, GetBufferStep
  <1>8. CASE RenderRuns BY <1>8, RenderStep
  <1>9. CASE UNCHANGED bufferVars
    BY <1>9, SameOwners DEF bufferVars, BufInv, ResourceTypes
  <1> QED BY <1>1, <1>2, <1>3, <1>4, <1>5, <1>6, <1>7, <1>8, <1>9 DEF BuffersNext, BuffersStep

(* The inductive invariant, for contexts with resources of their own.      *)
THEOREM BuffersInvariance == Private /\ BuffersSpec => []BufInv
  <1> SUFFICES ASSUME Private PROVE BuffersSpec => []BufInv OBVIOUS
  <1>1. BuffersInit => BufInv BY BufInit
  <1>2. BufInv /\ [BuffersNext]_bufferVars => BufInv' BY BufNext
  <1> QED BY <1>1, <1>2, PTL DEF BuffersSpec

(* The types, which any number of contexts keep: nothing is asked of who   *)
(* holds what.                                                             *)
Typed == ResourceTypes /\ WantTypes /\ BatchTypes /\ QueueTypes /\ PoolTypes(pool)

(* A buffer let go of. *)
LEMMA DestroyedTypes ==
    ASSUME NEW p, PoolTypes(p), NEW b \in Bos
    PROVE  PoolTypes(BoDestroy(p, b))
  <1>1. CASE p.refs[b] > 0
    <2> DEFINE refs == [p.refs EXCEPT ![b] = p.refs[b] - 1]
    <2>1. refs \in [Bos -> Nat] BY <1>1 DEF PoolTypes
    <2>2. BoDestroy(p, b) = [p EXCEPT !.refs = refs] BY <1>1 DEF BoDestroy, PoolTypes
    <2> HIDE DEF refs
    <2> QED BY <2>1, <2>2 DEF PoolTypes
  <1>2. CASE ~(p.refs[b] > 0)
    <2> DEFINE at == [p.at EXCEPT ![b] = "cache"]
               stamp == [p.stamp EXCEPT ![b] = None]
               cache == Append(p.cache, b)
    <2>1. at \in [Bos -> States] /\ stamp \in [Bos -> Ctxs \cup {None}] BY DEF PoolTypes, States
    <2>2. cache \in Seq(Bos)
      <3>1. p.cache \in Seq(Bos) BY DEF PoolTypes
      <3> QED BY <3>1, Appended
    <2>3. BoDestroy(p, b) = [p EXCEPT !.at = at, !.stamp = stamp, !.cache = cache]
      BY <1>2 DEF BoDestroy, PoolTypes
    <2> HIDE DEF at, stamp, cache
    <2> QED BY <2>1, <2>2, <2>3 DEF PoolTypes
  <1> QED BY <1>1, <1>2

(* A part of a sequence. *)
LEMMA PartOf ==
    ASSUME NEW S, NEW s \in Seq(S), NEW m \in Nat \ {0}, NEW n \in 0..Len(s)
    PROVE  SubSeq(s, m, n) \in Seq(S)
  <1>1. DOMAIN s = 1..Len(s) /\ Len(s) \in Nat /\ \A i \in 1..Len(s) : s[i] \in S BY InRange
  <1>2. m \in Int /\ n \in Int /\ \A i \in m..n : s[i] \in S BY <1>1
  <1> QED BY <1>2, SubSeqProperties

(* A buffer from the cache, or a new one. *)
LEMMA GottenTypes ==
    ASSUME NEW p, PoolTypes(p), NEW g \in CacheGet(p)
    PROVE  PoolTypes(g.pool) /\ g.bo \in Bos
  <1>1. PICK n \in 0..Len(p.cache) :
            LET t == Trim(p, n)
            IN  g \in IF IdleOf(t) = {} THEN Created(t)
                ELSE LET i == CHOOSE i \in IdleOf(t) : \A j \in IdleOf(t) : i <= j
                         b == t.cache[i]
                     IN  {[pool |-> [t EXCEPT !.at[b] = "used",
                                             !.cache = SubSeq(@, 1, i - 1)
                                                       \o SubSeq(@, i + 1, Len(@))],
                           bo |-> b]}
    BY DEF CacheGet
  <1> DEFINE t == Trim(p, n)
  <1>2. PoolTypes(t)
    <2> DEFINE at == [b \in Bos |-> IF \E i \in 1..n : p.cache[i] = b THEN "free" ELSE p.at[b]]
               s == SubSeq(p.cache, n + 1, Len(p.cache))
    <2>1. at \in [Bos -> States] BY DEF PoolTypes, States
    <2>2. p.cache \in Seq(Bos) BY DEF PoolTypes
    <2>3. Len(p.cache) \in 0..Len(p.cache) /\ n + 1 \in Nat \ {0}
      <3>1. Len(p.cache) \in Nat BY <2>2, InRange
      <3> QED BY <3>1
    <2>4. s \in Seq(Bos) BY <2>2, <2>3, PartOf
    <2>5. t = [p EXCEPT !.at = at, !.cache = s] BY DEF Trim
    <2> HIDE DEF at, s, t
    <2> QED BY <2>1, <2>4, <2>5 DEF PoolTypes
  <1>3. t.cache \in Seq(Bos) BY <1>2 DEF PoolTypes
  <1>4. CASE IdleOf(t) = {}
    <2>1. PICK b \in Bos : g = [pool |-> [t EXCEPT !.at[b] = "used", !.busy[b] = 0], bo |-> b]
      BY <1>1, <1>4 DEF Created
    <2> HIDE DEF t
    <2> DEFINE at == [t.at EXCEPT ![b] = "used"]
               busy == [t.busy EXCEPT ![b] = 0]
    <2>2. 0 \in 0..MaxQueued BY BufferConstants
    <2>3. at \in [Bos -> States] /\ busy \in [Bos -> 0..MaxQueued]
      BY <1>2, <2>2 DEF PoolTypes, States
    <2>4. g.bo = b /\ g.pool = [t EXCEPT !.at = at, !.busy = busy] BY <1>2, <2>1 DEF PoolTypes
    <2> HIDE DEF at, busy
    <2> QED BY <1>2, <2>3, <2>4 DEF PoolTypes
  <1>5. CASE IdleOf(t) # {}
    <2> DEFINE i == CHOOSE i \in IdleOf(t) : \A j \in IdleOf(t) : i <= j
    <2>1. i \in IdleOf(t)
      <3>1. \A k \in IdleOf(t) : k \in {1, 2}
        <4>1. DOMAIN t.cache = 1..Len(t.cache) /\ Len(t.cache) \in Nat BY <1>3, InRange
        <4> HIDE DEF t
        <4>2. \A k \in DOMAIN t.cache : k <= 2 => k \in {1, 2} BY <4>1
        <4> QED BY <4>2 DEF IdleOf
      <3>2. \E k \in IdleOf(t) : \A j \in IdleOf(t) : k <= j
        <4>1. CASE 1 \in IdleOf(t) BY <3>1, <4>1
        <4>2. CASE 1 \notin IdleOf(t)
          <5>1. 2 \in IdleOf(t) BY <1>5, <3>1, <4>2
          <5>2. \A j \in IdleOf(t) : 2 <= j BY <3>1, <4>2
          <5> QED BY <5>1, <5>2
        <4> QED BY <4>1, <4>2
      <3> QED BY <3>2
    <2> DEFINE b == t.cache[i]
               s == SubSeq(t.cache, 1, i - 1) \o SubSeq(t.cache, i + 1, Len(t.cache))
               at == [t.at EXCEPT ![b] = "used"]
    <2>2. g.bo = b /\ g.pool = [t EXCEPT !.at[b] = "used", !.cache = s] BY <1>1, <1>5
    <2> HIDE DEF i, t
    <2>3. i \in DOMAIN t.cache BY <2>1 DEF IdleOf
    <2>4. b \in Bos BY <1>3, <2>3, InRange
    <2>5. s \in Seq(Bos)
      <3>1. i \in 1..Len(t.cache) /\ Len(t.cache) \in Nat BY <1>3, <2>3, InRange
      <3>2. /\ 1 \in Nat \ {0} /\ i - 1 \in 0..Len(t.cache)
            /\ i + 1 \in Nat \ {0} /\ Len(t.cache) \in 0..Len(t.cache)
        BY <3>1
      <3>3. SubSeq(t.cache, 1, i - 1) \in Seq(Bos) /\ SubSeq(t.cache, i + 1, Len(t.cache)) \in Seq(Bos)
        BY <1>3, <3>2, PartOf
      <3> QED BY <3>3, ConcatProperties
    <2> HIDE DEF b, s
    <2>6. at \in [Bos -> States] BY <1>2, <2>4 DEF PoolTypes, States
    <2>7. g.pool = [t EXCEPT !.at = at, !.cache = s] BY <1>2, <2>2 DEF PoolTypes
    <2> HIDE DEF at
    <2> QED BY <1>2, <2>2, <2>4, <2>5, <2>6, <2>7 DEF PoolTypes
  <1> QED BY <1>4, <1>5

(* A draw gets its copy. *)
LEMMA BringTypes ==
    ASSUME Typed, NEW c \in Ctxs, NEW r \in Res, NEW parts \in SUBSET Parts,
           NEW p, PoolTypes(p), NEW fields \in CopyFields, fields.bo \in Bos,
           NEW out, NEW range \in SUBSET Parts, \A x \in range : out[x] \in 0..Undefined,
           Bring(c, r, parts, p, fields, out, range)
    PROVE  Typed'
  <1> DEFINE bo == fields.bo
             m == [x \in Parts |-> IF x \in range THEN out[x] ELSE p.mem[bo][x]]
             mem == [p.mem EXCEPT ![bo] = m]
             w == [res |-> r, bo |-> bo, parts |-> parts]
  <1>1. p.mem \in [Bos -> Content] BY DEF PoolTypes
  <1>2. m \in Content BY <1>1 DEF Content
  <1>3. pool' = [p EXCEPT !.mem = mem]
    BY DEF Bring, PoolTypes
  <1> HIDE DEF m
  <1>4. mem \in [Bos -> Content] BY <1>1, <1>2
  <1> HIDE DEF mem
  <1>5. PoolTypes(pool') BY <1>3, <1>4 DEF PoolTypes
  <1>6. w \in Wants BY DEF Wants
  <1>7. want' = [want EXCEPT ![c] = w] /\ copy' = [copy EXCEPT ![r] = fields]
        /\ UNCHANGED <<data, maps, batch, marks, last, queue>>
    BY DEF Bring
  <1> HIDE DEF w
  <1> USE DEF Typed
  <1>8. ResourceTypes' BY <1>7 DEF ResourceTypes
  <1>9. WantTypes' BY <1>6, <1>7 DEF WantTypes
  <1>10. BatchTypes' /\ QueueTypes' BY <1>7 DEF BatchTypes, QueueTypes
  <1> QED BY <1>5, <1>8, <1>9, <1>10

(* A draw gets none. *)
LEMMA NoCopyTypes ==
    ASSUME Typed, NEW r \in Res, NEW p, PoolTypes(p), NEW fields \in CopyFields,
           NoCopy(r, p, fields)
    PROVE  Typed'
  BY DEF NoCopy, Typed, ResourceTypes, WantTypes, BatchTypes, QueueTypes

(* A step that changes only what the CPU holds. *)
LEMMA SameTypes ==
    ASSUME Typed, ResourceTypes', UNCHANGED <<pool, batch, want, marks, last, queue>>
    PROVE  Typed'
  BY DEF Typed, WantTypes, BatchTypes, QueueTypes, PoolTypes

(* sgx_buffer_bo. *)
LEMMA GetBufferTypes ==
    ASSUME Typed, NEW c \in Ctxs, NEW r \in Res, NEW parts \in Reads, GetBuffer(c, r, parts)
    PROVE  Typed'
  <1> DEFINE f == copy[r]
             dirty == f.dirty \cup (IF r \in maps THEN parts ELSE {})
             clean == [f EXCEPT !.dirty = {}, !.sync = FALSE]
             away == f.bo # None /\ f.sync /\ InUse(c, f.bo)
             p == IF away THEN BoDestroy(pool, f.bo) ELSE pool
             here == IF dirty = {} THEN f ELSE clean
             none == [f EXCEPT !.bo = None, !.dirty = dirty]
  <1>1. BufferBo(c, r, parts) /\ parts \in SUBSET Parts
    BY BufferConstants DEF GetBuffer
  <1>2. /\ f \in CopyFields /\ data[r] \in Contents /\ f.dirty \in SUBSET Parts
        /\ f.bo \in Bos \cup {None} /\ PoolTypes(pool)
    BY DEF Typed, ResourceTypes, CopyFields
  <1>3. \A x \in Parts : data[r][x] \in 0..Undefined BY <1>2, WideContents DEF Contents, Content
  <1>4. dirty \in SUBSET Parts BY <1>1, <1>2
  <1>5. CASE f.bo # None /\ ~away
    <2>1. Bring(c, r, parts, pool, here, data[r], dirty) BY <1>1, <1>5 DEF BufferBo
    <2>2. here \in CopyFields /\ here.bo = f.bo BY <1>2, CleanFields
    <2> HIDE DEF here, dirty, away, clean
    <2>3. \A x \in dirty : data[r][x] \in 0..Undefined BY <1>3, <1>4
    <2> QED BY <1>1, <1>2, <1>4, <1>5, <2>1, <2>2, <2>3, BringTypes
  <1>6. CASE ~(f.bo # None /\ ~away)
    <2>1. \/ \E g \in CacheGet(p) :
                   Bring(c, r, parts, g.pool, [clean EXCEPT !.bo = g.bo], data[r], Parts)
          \/ NoCopy(r, p, none)
      BY <1>1, <1>6 DEF BufferBo
    <2>2. PoolTypes(p) BY <1>2, DestroyedTypes
    <2>3. CASE NoCopy(r, p, none)
      <3>1. none \in CopyFields
        <4> HIDE DEF f, dirty
        <4> QED BY <1>2, <1>4, NoneFields
      <3> HIDE DEF none, p
      <3> QED BY <2>2, <2>3, <3>1, NoCopyTypes
    <2>4. CASE \E g \in CacheGet(p) :
                   Bring(c, r, parts, g.pool, [clean EXCEPT !.bo = g.bo], data[r], Parts)
      <3>1. PICK g \in CacheGet(p) :
                   Bring(c, r, parts, g.pool, [clean EXCEPT !.bo = g.bo], data[r], Parts)
        BY <2>4
      <3> HIDE DEF p
      <3>2. PoolTypes(g.pool) /\ g.bo \in Bos BY <2>2, GottenTypes
      <3> DEFINE fields == [clean EXCEPT !.bo = g.bo]
      <3>3. fields \in CopyFields /\ fields.bo = g.bo BY <1>2, <3>2, CleanFields
      <3> HIDE DEF fields
      <3>4. Bring(c, r, parts, g.pool, fields, data[r], Parts) BY <3>1 DEF fields
      <3> QED BY <1>1, <1>3, <3>2, <3>3, <3>4, BringTypes
    <2> QED BY <2>1, <2>3, <2>4
  <1> QED BY <1>5, <1>6

(* sgx_resource_texture. *)
LEMMA GetTextureTypes ==
    ASSUME Typed, NEW c \in Ctxs, NEW r \in Res, GetTexture(c, r)
    PROVE  Typed'
  <1> DEFINE f == copy[r]
             boxed == f.bo # None /\ f.boxes /\ f.dirty # {}
             partial == boxed /\ f.shadow # None
             shadow == CASE ~boxed -> None
                         [] partial -> f.shadow
                         [] OTHER -> [p \in Parts |-> Undefined]
             out == [p \in Parts |-> IF ~partial \/ p \in f.dirty THEN data[r][p] ELSE shadow[p]]
             kept == IF boxed THEN out ELSE None
             done == [f EXCEPT !.dirty = {}, !.sync = FALSE, !.boxes = TRUE, !.shadow = kept]
             fresh == f.bo = None \/ InUse(c, f.bo)
             range == IF partial THEN f.dirty ELSE Parts
             none == [f EXCEPT !.shadow = shadow]
  <1>1. /\ f \in CopyFields /\ data[r] \in Contents /\ f.dirty \in SUBSET Parts
        /\ f.bo \in Bos \cup {None} /\ f.shadow \in {None} \cup Content /\ PoolTypes(pool)
    BY DEF Typed, ResourceTypes, CopyFields
  <1>2. \A x \in Parts : data[r][x] \in 0..Undefined BY <1>1, WideContents DEF Contents, Content
  <1>3. shadow \in {None} \cup Content /\ (partial => shadow \in Content)
    BY <1>1, BufferConstants DEF Content, Undefined
  <1>4. \A x \in Parts : out[x] \in 0..Undefined
    <2> HIDE DEF shadow
    <2> TAKE x \in Parts
    <2>1. CASE ~partial \/ x \in f.dirty BY <1>2, <2>1
    <2>2. CASE ~(~partial \/ x \in f.dirty) BY <1>3, <2>2 DEF Content
    <2> QED BY <2>1, <2>2
  <1>5. out \in Content
    <2> DEFINE o == out
    <2>1. o = [x \in Parts |-> o[x]] OBVIOUS
    <2>2. \A x \in Parts : o[x] \in 0..Undefined BY <1>4
    <2> HIDE DEF o
    <2>3. o \in Content BY <2>1, <2>2 DEF Content
    <2> QED BY <2>3 DEF o
  <1>6. kept \in {None} \cup Content /\ range \in SUBSET Parts
    <2> HIDE DEF out
    <2> QED BY <1>1, <1>5
  <1>7. CASE ~(copy[r].bo = None \/ copy[r].dirty # {})
    <2>1. Bring(c, r, Parts, pool, f, data[r], {}) BY <1>7 DEF GetTexture
    <2> QED BY <1>1, <1>7, <2>1, BringTypes
  <1>8. CASE copy[r].bo = None \/ copy[r].dirty # {}
    <2>1. CopyTexture(c, r) BY <1>8 DEF GetTexture
    <2>2. CASE ~fresh
      <3>1. Bring(c, r, Parts, pool, done, out, range) BY <2>1, <2>2 DEF CopyTexture
      <3> HIDE DEF kept, range, out
      <3>2. done \in CopyFields /\ done.bo = f.bo
        <4> HIDE DEF f
        <4> QED BY <1>1, <1>6, DoneFields
      <3> HIDE DEF done
      <3>3. f.bo \in Bos BY <1>1, <2>2
      <3>4. \A x \in range : out[x] \in 0..Undefined BY <1>4, <1>6
      <3> QED BY <1>1, <1>6, <3>1, <3>2, <3>3, <3>4, BringTypes
    <2>3. CASE fresh
      <3>1. \/ \E g \in CacheGet(pool) :
                  Bring(c, r, Parts,
                        IF f.bo = None THEN g.pool ELSE BoDestroy(g.pool, f.bo),
                        [done EXCEPT !.bo = g.bo], out, Parts)
            \/ NoCopy(r, pool, none)
        BY <2>1, <2>3 DEF CopyTexture
      <3>2. CASE NoCopy(r, pool, none)
        <4> HIDE DEF shadow
        <4>1. none \in CopyFields BY <1>1, <1>3, DoneFields
        <4> QED BY <1>1, <3>2, <4>1, NoCopyTypes
      <3>3. CASE \E g \in CacheGet(pool) :
                  Bring(c, r, Parts,
                        IF f.bo = None THEN g.pool ELSE BoDestroy(g.pool, f.bo),
                        [done EXCEPT !.bo = g.bo], out, Parts)
        <4>1. PICK g \in CacheGet(pool) :
                  Bring(c, r, Parts,
                        IF f.bo = None THEN g.pool ELSE BoDestroy(g.pool, f.bo),
                        [done EXCEPT !.bo = g.bo], out, Parts)
          BY <3>3
        <4> DEFINE p == IF f.bo = None THEN g.pool ELSE BoDestroy(g.pool, f.bo)
                   fields == [done EXCEPT !.bo = g.bo]
        <4>2. PoolTypes(g.pool) /\ g.bo \in Bos BY <1>1, GottenTypes
        <4>3. PoolTypes(p) BY <1>1, <4>2, DestroyedTypes
        <4>4. Bring(c, r, Parts, p, fields, out, Parts) BY <4>1
        <4> HIDE DEF kept, out
        <4>5. fields \in CopyFields /\ fields.bo = g.bo
          <5> DEFINE bo == g.bo
          <5> HIDE DEF f
          <5>1. bo \in Bos \cup {None} BY <4>2
          <5> HIDE DEF bo
          <5>2. [done EXCEPT !.bo = bo] \in CopyFields /\ [done EXCEPT !.bo = bo].bo = bo
            BY <1>1, <1>6, <5>1, DoneFields
          <5> QED BY <5>2 DEF bo
        <4> HIDE DEF fields, p
        <4> QED BY <1>4, <4>2, <4>3, <4>4, <4>5, BringTypes
      <3> QED BY <3>1, <3>2, <3>3
    <2> QED BY <2>2, <2>3
  <1> QED BY <1>7, <1>8

(* A draw into the batch. *)
LEMMA AddTypes ==
    ASSUME Typed, NEW c \in Ctxs, Add(c)
    PROVE  Typed'
  <1> DEFINE w == want[c]
             b == w.bo
             listed == pool.stamp[b] = c
             d == [res |-> w.res, bo |-> b, saw |-> [p \in w.parts |-> data[w.res][p]]]
             draws == Append(batch[c].draws, d)
             bos == IF listed THEN batch[c].bos ELSE Append(batch[c].bos, b)
  <1>1. /\ want[c] # None /\ HasRoom(c)
        /\ batch' = [batch EXCEPT ![c].draws = draws, ![c].bos = bos]
        /\ pool' = IF listed THEN pool ELSE [pool EXCEPT !.refs[b] = @ + 1, !.stamp[b] = c]
        /\ want' = [want EXCEPT ![c] = None]
        /\ UNCHANGED <<data, copy, maps, marks, last, queue>>
    BY DEF Add
  <1> USE DEF Typed
  <1>2. w \in Wants /\ batch[c] \in [draws : Seq(DrawsMade), bos : Seq(Bos)]
    BY <1>1 DEF WantTypes, BatchTypes
  <1>3. b \in Bos /\ w.res \in Res /\ w.parts \in SUBSET Parts BY <1>2 DEF Wants
  <1>4. d \in DrawsMade
    <2>1. data[w.res] \in Contents BY <1>3 DEF ResourceTypes
    <2>2. [p \in w.parts |-> data[w.res][p]] \in [w.parts -> 0..MaxWrites]
      BY <1>3, <2>1 DEF Contents
    <2>3. [p \in w.parts |-> data[w.res][p]] \in Views BY <1>3, <2>2 DEF Views
    <2> QED BY <1>3, <2>3 DEF DrawsMade
  <1>5. bos \in Seq(Bos) /\ draws \in Seq(DrawsMade) /\ Len(draws) <= MaxDraws
    <2> HIDE DEF d, b
    <2>1. bos \in Seq(Bos) BY <1>2, <1>3, Appended
    <2>2. draws \in Seq(DrawsMade) /\ Len(draws) = Len(batch[c].draws) + 1 BY <1>2, <1>4, Appended
    <2>3. Len(batch[c].draws) \in Nat BY <1>2, InRange
    <2> QED BY <1>1, <2>1, <2>2, <2>3, BufferConstants DEF HasRoom
  <1>6. PoolTypes(pool')
    <2>1. CASE listed BY <1>1, <2>1
    <2>2. CASE ~listed
      <3> DEFINE refs == [pool.refs EXCEPT ![b] = pool.refs[b] + 1]
                 stamp == [pool.stamp EXCEPT ![b] = c]
      <3>1. refs \in [Bos -> Nat] /\ stamp \in [Bos -> Ctxs \cup {None}] BY <1>3 DEF PoolTypes
      <3>2. pool' = [pool EXCEPT !.refs = refs, !.stamp = stamp] BY <1>1, <2>2 DEF PoolTypes
      <3> HIDE DEF refs, stamp
      <3> QED BY <3>1, <3>2 DEF PoolTypes
    <2> QED BY <2>1, <2>2
  <1> HIDE DEF draws, bos, w
  <1>7. BatchTypes'
    <2> DEFINE first == [batch EXCEPT ![c].draws = draws]
    <2>1. batch \in [Ctxs -> [draws : Seq(DrawsMade), bos : Seq(Bos)]] BY DEF BatchTypes
    <2>2. /\ first \in [Ctxs -> [draws : Seq(DrawsMade), bos : Seq(Bos)]]
          /\ \A e \in Ctxs : first[e].draws = IF e = c THEN draws ELSE batch[e].draws
      BY <1>5, <2>1
    <2>3. batch' = [first EXCEPT ![c].bos = bos] BY <1>1, <2>1
    <2> HIDE DEF first
    <2>4. /\ batch' \in [Ctxs -> [draws : Seq(DrawsMade), bos : Seq(Bos)]]
          /\ \A e \in Ctxs : batch'[e].draws = first[e].draws
      BY <1>5, <2>2, <2>3
    <2> QED BY <1>1, <1>5, <2>2, <2>4 DEF BatchTypes
  <1>8. ResourceTypes' /\ QueueTypes' BY <1>1 DEF ResourceTypes, QueueTypes
  <1>9. WantTypes' BY <1>1 DEF WantTypes
  <1> QED BY <1>6, <1>7, <1>8, <1>9

(* A flushed batch's next buffer is marked and let go. *)
LEMMA MarkTypes ==
    ASSUME Typed, NEW c \in Ctxs, Mark(c)
    PROVE  Typed'
  <1> DEFINE b == Head(marks[c].bos)
             p == Marked(pool, c, b)
             q == BoDestroy(p, b)
             rest == Rest(c)
             mark == IF rest = <<>> THEN NoMarks ELSE [marks[c] EXCEPT !.bos = rest]
  <1>1. /\ marks[c].bos # <<>>
        /\ pool' = IF rest = <<>> THEN Unstamp(q, c) ELSE q
        /\ marks' = [marks EXCEPT ![c] = mark]
        /\ UNCHANGED <<data, copy, maps, batch, want, last, queue>>
    BY DEF Mark, LetsGo
  <1> USE DEF Typed
  <1>2. marks[c] \in [bos : Seq(Bos), sent : BOOLEAN] BY DEF BatchTypes
  <1>3. b \in Bos /\ rest \in Seq(Bos)
    <2>1. marks[c].bos \in Seq(Bos) BY <1>2
    <2> QED BY <1>1, <2>1, HeadTailProperties DEF Rest
  <1>4. PoolTypes(p)
    <2> HIDE DEF b
    <2>1. CASE marks[c].sent
      <3> DEFINE busy == [pool.busy EXCEPT ![b] = last[c]]
      <3>1. busy \in [Bos -> 0..MaxQueued] BY <1>3 DEF PoolTypes, QueueTypes
      <3>2. p = [pool EXCEPT !.busy = busy] BY <2>1 DEF Marked, PoolTypes
      <3> HIDE DEF busy, p
      <3> QED BY <3>1, <3>2 DEF PoolTypes
    <2>2. CASE ~marks[c].sent BY <2>2 DEF Marked
    <2> QED BY <2>1, <2>2
  <1>5. PoolTypes(q) BY <1>3, <1>4, DestroyedTypes
  <1>6. PoolTypes(Unstamp(q, c))
    <2> DEFINE stamp == [a \in Bos |-> IF q.stamp[a] = c THEN None ELSE q.stamp[a]]
    <2> HIDE DEF q
    <2>1. stamp \in [Bos -> Ctxs \cup {None}] BY <1>5 DEF PoolTypes
    <2>2. Unstamp(q, c) = [q EXCEPT !.stamp = stamp] BY DEF Unstamp
    <2> HIDE DEF stamp
    <2> QED BY <1>5, <2>1, <2>2 DEF PoolTypes
  <1>7. PoolTypes(pool') BY <1>1, <1>5, <1>6
  <1>8. BatchTypes'
    <2>1. <<>> \in Seq(Bos) BY EmptySeq
    <2>2. mark \in [bos : Seq(Bos), sent : BOOLEAN] BY <1>2, <1>3, <2>1 DEF NoMarks
    <2> HIDE DEF mark
    <2> QED BY <1>1, <2>2 DEF BatchTypes
  <1>9. ResourceTypes' /\ WantTypes' /\ QueueTypes'
    BY <1>1 DEF ResourceTypes, WantTypes, QueueTypes
  <1> QED BY <1>7, <1>8, <1>9

(* A flush, sent or refused. *)
LEMMA FlushTypes ==
    ASSUME Typed, NEW c \in Ctxs, Submit(c) \/ SubmitFails(c)
    PROVE  Typed'
  <1> USE DEF Typed
  <1>1. /\ batch \in [Ctxs -> [draws : Seq(DrawsMade), bos : Seq(Bos)]]
        /\ batch[c].bos \in Seq(Bos) /\ batch[c].draws \in Seq(DrawsMade)
    BY DEF BatchTypes
  <1>2. /\ batch' = [batch EXCEPT ![c] = NewBatch]
        /\ \E sent \in BOOLEAN : marks' = [marks EXCEPT ![c] = [bos |-> batch[c].bos, sent |-> sent]]
        /\ UNCHANGED <<data, copy, maps, pool, want>>
    BY DEF Submit, SubmitFails
  <1>3. BatchTypes'
    <2>1. \A S : <<>> \in Seq(S) /\ Len(<<>>) = 0 BY EmptySeq
    <2>2. NewBatch \in [draws : Seq(DrawsMade), bos : Seq(Bos)] /\ Len(NewBatch.draws) <= MaxDraws
      BY <2>1, BufferConstants DEF NewBatch
    <2>3. batch' \in [Ctxs -> [draws : Seq(DrawsMade), bos : Seq(Bos)]]
          /\ \A d \in Ctxs : Len(batch'[d].draws) <= MaxDraws
      BY <1>1, <1>2, <2>2 DEF BatchTypes
    <2>4. PICK sent \in BOOLEAN : marks' = [marks EXCEPT ![c] = [bos |-> batch[c].bos, sent |-> sent]]
      BY <1>2
    <2>5. marks' \in [Ctxs -> [bos : Seq(Bos), sent : BOOLEAN]] BY <1>1, <2>4 DEF BatchTypes
    <2> QED BY <2>3, <2>5 DEF BatchTypes
  <1>4. QueueTypes'
    <2>1. CASE SubmitFails(c) BY <2>1 DEF SubmitFails, QueueTypes
    <2>2. CASE Submit(c)
      <3> DEFINE render == [ctx |-> c, draws |-> batch[c].draws, bos |-> batch[c].bos]
      <3>1. render \in Renders BY <1>1 DEF Renders
      <3>2. /\ Len(queue) < MaxQueued /\ queue' = Append(queue, render)
            /\ last' = [last EXCEPT ![c] = Len(queue) + 1]
        BY <2>2 DEF Submit
      <3> HIDE DEF render
      <3>3. queue \in Seq(Renders) /\ Len(queue) \in Nat
        <4>1. queue \in Seq(Renders) BY DEF QueueTypes
        <4> QED BY <4>1, InRange
      <3>4. queue' \in Seq(Renders) /\ Len(queue') = Len(queue) + 1
        BY <3>1, <3>2, <3>3, Appended
      <3>5. Len(queue) + 1 \in 0..MaxQueued BY <3>2, <3>3, BufferConstants
      <3> QED BY <3>2, <3>4, <3>5 DEF QueueTypes
    <2> QED BY <2>1, <2>2
  <1>5. ResourceTypes' /\ WantTypes' BY <1>2 DEF ResourceTypes, WantTypes
  <1> QED BY <1>2, <1>3, <1>4, <1>5

(* The GPU runs a render. *)
LEMMA RenderTypes ==
    ASSUME Typed, RenderRuns
    PROVE  Typed'
  <1> DEFINE busy == [b \in Bos |-> Sooner(pool.busy[b])]
  <1>1. /\ queue # <<>> /\ queue' = Tail(queue)
        /\ pool' = [pool EXCEPT !.busy = busy]
        /\ last' = [c \in Ctxs |-> Sooner(last[c])]
        /\ UNCHANGED <<data, copy, maps, batch, want, marks>>
    BY DEF RenderRuns
  <1> USE DEF Typed
  <1>2. \A b \in Bos : pool.busy[b] \in 0..MaxQueued BY DEF PoolTypes
  <1>3. busy \in [Bos -> 0..MaxQueued] BY <1>2, SoonerIs
  <1> HIDE DEF busy
  <1>4. PoolTypes(pool') BY <1>1, <1>3 DEF PoolTypes
  <1>5. QueueTypes'
    <2>1. queue \in Seq(Renders) /\ Len(queue) \in Nat
      <3>1. queue \in Seq(Renders) BY DEF QueueTypes
      <3> QED BY <3>1, InRange
    <2>2. queue' \in Seq(Renders) /\ Len(queue') = Len(queue) - 1 BY <1>1, <2>1, HeadTail
    <2>3. \A c \in Ctxs : last[c] \in 0..MaxQueued BY DEF QueueTypes
    <2>4. last' \in [Ctxs -> 0..MaxQueued] BY <1>1, <2>3, SoonerIs
    <2>5. Len(queue') <= MaxQueued BY <2>1, <2>2, BufferConstants DEF QueueTypes
    <2> QED BY <2>2, <2>4, <2>5 DEF QueueTypes
  <1>6. ResourceTypes' /\ WantTypes' /\ BatchTypes'
    BY <1>1 DEF ResourceTypes, WantTypes, BatchTypes
  <1> QED BY <1>4, <1>5, <1>6

(* Every step keeps the types. *)
LEMMA TypesNext == Typed /\ [BuffersNext]_bufferVars => Typed'
  <1> SUFFICES ASSUME Typed, [BuffersNext]_bufferVars PROVE Typed' OBVIOUS
  <1>1. ASSUME NEW c \in Ctxs, Add(c) PROVE Typed' BY <1>1, AddTypes
  <1>2. ASSUME NEW c \in Ctxs, Submit(c) \/ SubmitFails(c) PROVE Typed' BY <1>2, FlushTypes
  <1>3. ASSUME NEW c \in Ctxs, Mark(c) PROVE Typed' BY <1>3, MarkTypes
  <1>4. ASSUME NEW c \in Ctxs, NEW r \in Res,
               \/ WriteAll(c, r) \/ Map(c, r) \/ Unmap(c, r)
               \/ \E p \in Parts : Write(c, r, p) \/ WriteUnsync(c, r, p) \/ Poke(c, r, p)
        PROVE  Typed'
    <2>1. ResourceTypes BY DEF Typed
    <2>2. ResourceTypes' /\ UNCHANGED <<pool, batch, want, marks, last, queue>>
      BY <1>4, <2>1, AppTypes
    <2> QED BY <2>2, SameTypes
  <1>5. ASSUME NEW c \in Ctxs, NEW r \in Res, GetTexture(c, r) PROVE Typed' BY <1>5, GetTextureTypes
  <1>6. ASSUME NEW c \in Ctxs, NEW r \in Res, NEW parts \in Reads, GetBuffer(c, r, parts)
        PROVE  Typed'
    BY <1>6, GetBufferTypes
  <1>7. CASE RenderRuns BY <1>7, RenderTypes
  <1>8. CASE UNCHANGED bufferVars
    BY <1>8, SameTypes DEF bufferVars, Typed, ResourceTypes
  <1> QED BY <1>1, <1>2, <1>3, <1>4, <1>5, <1>6, <1>7, <1>8 DEF BuffersNext, BuffersStep

(* They are the types. *)
LEMMA TypesFollow == Typed => BuffersTypeOK
  <1> SUFFICES ASSUME Typed PROVE BuffersTypeOK OBVIOUS
  <1>1. /\ data \in [Res -> Contents]
        /\ \A r \in Res : /\ copy[r].bo \in Bos \cup {None} /\ copy[r].dirty \subseteq Parts
                          /\ {copy[r].sync, copy[r].boxes} \subseteq BOOLEAN
        /\ maps \subseteq Bufs
    BY DEF Typed, ResourceTypes, CopyFields
  <1>2. /\ pool.at \in [Bos -> {"free", "used", "cache"}] /\ pool.refs \in [Bos -> Nat]
        /\ pool.stamp \in [Bos -> Ctxs \cup {None}] /\ pool.busy \in [Bos -> 0..MaxQueued]
    BY DEF Typed, PoolTypes, States
  <1>3. ASSUME NEW c \in Ctxs
        PROVE  /\ Len(batch[c].draws) <= MaxDraws /\ Range(batch[c].bos) \subseteq Bos
               /\ Range(marks[c].bos) \subseteq Bos /\ last[c] \in 0..MaxQueued
    <2>1. batch[c].bos \in Seq(Bos) /\ marks[c].bos \in Seq(Bos) BY DEF Typed, BatchTypes
    <2> QED BY <2>1, InRange DEF Typed, BatchTypes, QueueTypes
  <1>4. Len(queue) <= MaxQueued BY DEF Typed, QueueTypes
  <1> QED BY <1>1, <1>2, <1>3, <1>4 DEF BuffersTypeOK

(* Every state's parts have their types (BuffersTypeOK), the counts of the *)
(* batch, of the queue and of the marks at their bounds: for any number of *)
(* contexts, whatever they share and whichever of their copies fail.       *)
THEOREM BuffersTypeCorrect == BuffersSpec => []BuffersTypeOK
  <1>1. BuffersInit => Typed BY BufInit DEF BufInv, PoolIs, Typed
  <1>2. Typed /\ [BuffersNext]_bufferVars => Typed' BY TypesNext
  <1>3. Typed => BuffersTypeOK BY TypesFollow
  <1> QED BY <1>1, <1>2, <1>3, PTL DEF BuffersSpec

(* A buffer in the cache is nobody's, and an idle one no render's.         *)
LEMMA CacheFollows == BufInv => CacheUnread
  <1> SUFFICES ASSUME BufInv, NEW i \in DOMAIN pool.cache
               PROVE  LET b == pool.cache[i]
                      IN  /\ \A c \in Ctxs : b \notin Range(batch[c].bos \o marks[c].bos)
                          /\ Idle(pool, b) => ~Kept(b)
    BY DEF CacheUnread
  <1> DEFINE b == pool.cache[i]
  <1>1. PoolTypes(pool) /\ Counted(pool, Held, Listed) /\ Cached(pool) BY DEF BufInv, PoolIs
  <1>2. pool.cache \in Seq(Bos) BY <1>1 DEF PoolTypes
  <1>3. b \in Bos /\ b \in Range(pool.cache) BY <1>2, InRange
  <1> HIDE DEF b
  <1>4. b \notin Listed BY <1>1, <1>3 DEF Counted, Cached
  <1>5. ASSUME NEW c \in Ctxs, b \in Range(batch[c].bos \o marks[c].bos) PROVE FALSE
    <2>1. batch[c].bos \in Seq(Bos) /\ marks[c].bos \in Seq(Bos) BY DEF BufInv, BatchTypes
    <2> DEFINE s == batch[c].bos
               t == marks[c].bos
    <2>2. /\ s \o t \in Seq(Bos) /\ Len(s \o t) = Len(s) + Len(t)
          /\ \A j \in 1..Len(s) + Len(t) : (s \o t)[j] = IF j <= Len(s) THEN s[j] ELSE t[j - Len(s)]
      BY <2>1, ConcatProperties
    <2>3. /\ DOMAIN s = 1..Len(s) /\ Len(s) \in Nat /\ DOMAIN t = 1..Len(t) /\ Len(t) \in Nat
          /\ \A x : x \in Range(s) <=> \E j \in DOMAIN s : s[j] = x
          /\ \A x : x \in Range(t) <=> \E j \in DOMAIN t : t[j] = x
      BY <2>1, InRange
    <2>4. PICK j \in 1..Len(s) + Len(t) : (s \o t)[j] = b
      <3> DEFINE u == s \o t
      <3>1. u \in Seq(Bos) /\ Len(u) = Len(s) + Len(t) /\ b \in Range(u) BY <1>5, <2>2
      <3> HIDE DEF u
      <3>2. \E j \in 1..Len(s) + Len(t) : u[j] = b BY <3>1, InRange
      <3> QED BY <3>2 DEF u
    <2>5. b \notin Range(s) /\ b \notin Range(t) BY <1>3, <1>4 DEF Listed
    <2> HIDE DEF s, t
    <2>6. CASE j <= Len(s)
      <3>1. j \in DOMAIN s BY <2>3, <2>6
      <3> QED BY <2>2, <2>3, <2>4, <2>5, <2>6, <3>1
    <2>7. CASE ~(j <= Len(s))
      <3>1. j - Len(s) \in DOMAIN t BY <2>3, <2>7
      <3> QED BY <2>2, <2>3, <2>4, <2>5, <2>7, <3>1
    <2> QED BY <2>6, <2>7
  <1>6. ASSUME Idle(pool, b), Kept(b) PROVE FALSE
    <2>1. PICK k \in DOMAIN queue : b \in Range(queue[k].bos) BY <1>6 DEF Kept
    <2>2. ~ToMark(b) BY <1>3, <1>4 DEF ToMark, Listed
    <2>3. k <= pool.busy[b] BY <2>1, <2>2 DEF BufInv, BusyTold
    <2>4. k >= 1 /\ k \in Int
      <3>1. queue \in Seq(Renders) BY DEF BufInv, QueueTypes
      <3> QED BY <3>1, InRange
    <2> QED BY <1>6, <2>3, <2>4 DEF Idle
  <1> QED BY <1>5, <1>6 DEF b

(* What sgx_bo_cache_get may hand out next, a buffer of the cache that     *)
(* sgx_bo_idle finds idle, is in no batch and is read by no render.        *)
THEOREM CacheStaysUnread == Private /\ BuffersSpec => []CacheUnread
  <1> SUFFICES ASSUME Private PROVE BuffersSpec => []CacheUnread OBVIOUS
  <1>1. BufInv => CacheUnread BY CacheFollows
  <1>2. BuffersSpec => []BufInv BY BuffersInvariance
  <1> QED BY <1>1, <1>2, PTL

(* The draws that are not done, in a batch or a render; memory that none   *)
(* of them reads.                                                          *)
AllDraws ==
    {d \in DrawsMade : \/ \E c \in Ctxs : d \in Range(batch[c].draws)
                       \/ \E k \in DOMAIN queue : d \in Range(queue[k].draws)}
Unread(b) == \A d \in AllDraws : d.bo # b

(* A draw's buffer holds what it is to show, and is listed where the draw  *)
(* is; it is its own resource's copy or none's.                            *)
Sees == \A d \in AllDraws : \A x \in DOMAIN d.saw : pool.mem[d.bo][x] = d.saw[x]
Lies ==
    /\ \A c \in Ctxs : \A d \in Range(batch[c].draws) : d.bo \in Range(batch[c].bos)
    /\ \A k \in DOMAIN queue : \A d \in Range(queue[k].draws) : d.bo \in Range(queue[k].bos)
Own == \A d \in AllDraws : \A r \in Res : copy[r].bo = d.bo => r = d.res
(* The draws of a buffer's copy that may be written in place (~sync) are   *)
(* to show what the buffer holds now.                                      *)
Unchanged ==
    \A d \in AllDraws :
        d.res \in Bufs /\ copy[d.res].bo = d.bo /\ ~copy[d.res].sync =>
            \A x \in DOMAIN d.saw : data[d.res][x] = d.saw[x]
(* A copy, and a texture's shadow, hold what is not dirty; the copy of the *)
(* draw being made, what the draw is to show.                              *)
UpToDate ==
    \A r \in Res : copy[r].bo # None /\ r \notin maps =>
        \A x \in Parts \ copy[r].dirty : pool.mem[copy[r].bo][x] = data[r][x]
Shadows ==
    \A r \in Res : copy[r].shadow # None =>
        r \in Texs /\ \A x \in Parts \ copy[r].dirty : copy[r].shadow[x] = data[r][x]
Wanted ==
    \A c \in Ctxs : want[c] # None =>
        \A x \in want[c].parts : pool.mem[want[c].bo][x] = data[want[c].res][x]

(* The invariant of what the buffers hold. *)
KeptInv == Sees /\ Lies /\ Own /\ Unchanged /\ UpToDate /\ Shadows /\ Wanted

(* A texture's copy gets its memory. *)
TexturesGet == Failing \cap Texs = {}

-----------------------------------------------------------------------------
(* The parts of a draw. *)
LEMMA DrawParts ==
    ASSUME NEW d \in DrawsMade
    PROVE  d.bo \in Bos /\ d.res \in Res /\ DOMAIN d.saw \subseteq Parts
  <1>1. d.saw \in Views /\ d.bo \in Bos /\ d.res \in Res BY DEF DrawsMade
  <1>2. PICK parts \in SUBSET Parts : d.saw \in [parts -> 0..MaxWrites] BY <1>1 DEF Views
  <1> QED BY <1>1, <1>2

(* The draws there are, each in a context's batch or in a render. *)
LEMMA DrawsThere ==
    ASSUME BufInv
    PROVE  /\ \A d : d \in AllDraws <=> \/ \E c \in Ctxs : d \in Range(batch[c].draws)
                                        \/ \E k \in DOMAIN queue : d \in Range(queue[k].draws)
           /\ \A d \in AllDraws : \E c \in Ctxs : d \in Pending(c)
           /\ \A c \in Ctxs : batch[c].draws \in Seq(DrawsMade)
           /\ queue \in Seq(Renders)
           /\ \A k \in DOMAIN queue : /\ queue[k] \in Renders /\ queue[k].draws \in Seq(DrawsMade)
                                      /\ Range(queue[k].draws) \subseteq DrawsMade
  <1>1. \A c \in Ctxs : batch[c].draws \in Seq(DrawsMade) BY DEF BufInv, BatchTypes
  <1>2. \A c \in Ctxs : Range(batch[c].draws) \subseteq DrawsMade BY <1>1, InRange
  <1>3. queue \in Seq(Renders) BY DEF BufInv, QueueTypes
  <1>4. \A k \in DOMAIN queue : queue[k] \in Renders BY <1>3, InRange
  <1>5. \A k \in DOMAIN queue : queue[k].draws \in Seq(DrawsMade) /\ queue[k].ctx \in Ctxs
    BY <1>4 DEF Renders
  <1>6. \A k \in DOMAIN queue : Range(queue[k].draws) \subseteq DrawsMade BY <1>5, InRange
  <1>7. \A d : d \in AllDraws <=> \/ \E c \in Ctxs : d \in Range(batch[c].draws)
                                  \/ \E k \in DOMAIN queue : d \in Range(queue[k].draws)
    BY <1>2, <1>6 DEF AllDraws
  <1>8. ASSUME NEW d \in AllDraws PROVE \E c \in Ctxs : d \in Pending(c)
    <2>1. ASSUME NEW c \in Ctxs, d \in Range(batch[c].draws) PROVE d \in Pending(c)
      BY <2>1 DEF Range, Pending
    <2>2. CASE \E k \in DOMAIN queue : d \in Range(queue[k].draws)
      <3>1. PICK k \in DOMAIN queue : d \in Range(queue[k].draws) BY <2>2
      <3>2. d \in {queue[k].draws[i] : i \in DOMAIN queue[k].draws} BY <3>1 DEF Range
      <3>3. d \in Pending(queue[k].ctx) BY <3>2 DEF Pending
      <3> QED BY <1>5, <3>3
    <2> QED BY <1>7, <2>1, <2>2
  <1> QED BY <1>1, <1>3, <1>4, <1>5, <1>6, <1>7, <1>8

(* Memory that the driver may write: it is out of every draw's sight.      *)
LEMMA FreshUnread ==
    ASSUME BufInv, Lies, NEW b \in Bos, b \notin Listed, pool.busy[b] = 0 \/ ~Kept(b)
    PROVE  Unread(b)
  <1> SUFFICES ASSUME NEW d \in AllDraws, d.bo = b PROVE FALSE BY DEF Unread
  <1>1. \/ \E c \in Ctxs : d \in Range(batch[c].draws)
        \/ \E k \in DOMAIN queue : d \in Range(queue[k].draws)
    BY DrawsThere
  <1>2. CASE \E c \in Ctxs : d \in Range(batch[c].draws) BY <1>2 DEF Lies, Listed
  <1>3. CASE \E k \in DOMAIN queue : d \in Range(queue[k].draws)
    <2>1. PICK k \in DOMAIN queue : d \in Range(queue[k].draws) BY <1>3
    <2>2. b \in Range(queue[k].bos) BY <2>1 DEF Lies
    <2>3. Kept(b) BY <2>2 DEF Kept
    <2>4. ~ToMark(b) BY DEF ToMark, Listed
    <2>5. k <= pool.busy[b] BY <2>2, <2>4 DEF BufInv, BusyTold
    <2>6. k >= 1 /\ k \in Int
      <3>1. queue \in Seq(Renders) BY DrawsThere
      <3> QED BY <3>1, InRange
    <2> QED BY <2>3, <2>5, <2>6
  <1> QED BY <1>1, <1>2, <1>3

(* A copy that sgx_buffer_bo or copy_texture find unused is no draw's.     *)
LEMMA UnusedUnread ==
    ASSUME BufInv, Lies, NEW c \in Ctxs, Ready(c), NEW b \in Bos, Reaches(c, b), ~InUse(c, b)
    PROVE  Unread(b)
  <1> SUFFICES ASSUME NEW d \in AllDraws, d.bo = b PROVE FALSE BY DEF Unread
  <1>0. pool.busy[b] = 0 /\ ~BatchReads(c, b) BY DEF InUse, Idle
  <1>1. \/ \E o \in Ctxs : d \in Range(batch[o].draws)
        \/ \E k \in DOMAIN queue : d \in Range(queue[k].draws)
    BY DrawsThere
  <1>2. ASSUME NEW o \in Ctxs, d \in Range(batch[o].draws) PROVE FALSE
    <2>1. b \in Range(batch[o].bos) BY <1>2 DEF Lies
    <2>2. o = c BY <2>1, Alone
    <2>3. pool.stamp[b] = c BY <2>1, <2>2 DEF BufInv, Stamps, Ready
    <2>4. batch[c].draws # <<>>
      <3>1. Range(<<>>) = {} BY DEF Range
      <3> QED BY <1>2, <2>2, <3>1
    <2> QED BY <1>0, <2>3, <2>4 DEF BatchReads
  <1>3. CASE \E k \in DOMAIN queue : d \in Range(queue[k].draws)
    <2>1. PICK k \in DOMAIN queue : d \in Range(queue[k].draws) BY <1>3
    <2>2. b \in Range(queue[k].bos) BY <2>1 DEF Lies
    <2>3. ~ToMark(b) BY Alone DEF Ready
    <2>4. k <= pool.busy[b] BY <2>2, <2>3 DEF BufInv, BusyTold
    <2>5. k >= 1 /\ k \in Int
      <3>1. queue \in Seq(Renders) BY DrawsThere
      <3> QED BY <3>1, InRange
    <2> QED BY <1>0, <2>4, <2>5
  <1> QED BY <1>1, <1>2, <1>3

(* Nothing is drawn yet. *)
LEMMA KeptInit == BuffersInit => KeptInv
  <1> SUFFICES ASSUME BuffersInit PROVE KeptInv OBVIOUS
  <1>1. Range(<<>>) = {} BY DEF Range
  <1>2. AllDraws = {} BY <1>1 DEF AllDraws, BuffersInit, NewBatch
  <1> QED BY <1>1, <1>2 DEF KeptInv, Sees, Lies, Own, Unchanged, UpToDate, Shadows, Wanted,
         BuffersInit, NewBatch, NewCopy

(* Draws that are lost or done need no more. *)
LEMMA FewerDraws ==
    ASSUME KeptInv, Lies', AllDraws' \subseteq AllDraws, pool'.mem = pool.mem,
           UNCHANGED <<data, copy, maps, want>>
    PROVE  KeptInv'
  <1>1. Sees' /\ Own' /\ Unchanged' BY DEF KeptInv, Sees, Own, Unchanged
  <1>2. UpToDate' /\ Shadows' /\ Wanted' BY DEF KeptInv, UpToDate, Shadows, Wanted
  <1> QED BY <1>1, <1>2 DEF KeptInv

-----------------------------------------------------------------------------
(* A draw gets its copy: it is written where no draw reads, or as it was.  *)
LEMMA BringKept ==
    ASSUME Private, BufInv, KeptInv, NEW c \in Ctxs, NEW r \in Res, r \in Uses[c],
           NEW parts \in SUBSET Parts, NEW p, p.mem = pool.mem, NEW fields \in CopyFields, fields.bo \in Bos,
           fields.bo \notin Others(r), NEW out, NEW range \in SUBSET Parts,
           Bring(c, r, parts, p, fields, out, range),
           \A x \in range : out[x] = data[r][x],
           Written(p, fields.bo, out, range),
           \/ Unread(fields.bo)
           \/ fields.bo = copy[r].bo /\ (range = {} \/ (r \in Bufs /\ ~copy[r].sync)),
           \/ Unread(fields.bo)
           \/ fields.bo = copy[r].bo /\ (fields.sync \/ ~copy[r].sync \/ r \notin Bufs),
           \A x \in Parts \ fields.dirty :
                x \in range \/ r \in maps \/ (fields.bo = copy[r].bo /\ x \notin copy[r].dirty),
           \A x \in parts :
                x \in range \/ (r \notin maps /\ fields.bo = copy[r].bo /\ x \notin copy[r].dirty),
           fields.shadow # None =>
                r \in Texs /\ \A x \in Parts \ fields.dirty : fields.shadow[x] = data[r][x]
    PROVE  KeptInv'
  <1>1. /\ copy' = [copy EXCEPT ![r] = fields]
        /\ want' = [want EXCEPT ![c] = [res |-> r, bo |-> fields.bo, parts |-> parts]]
        /\ UNCHANGED <<data, maps, batch, marks, last, queue>>
    BY DEF Bring
  <1>0. \A b \in Bos : \A x \in Parts : pool'.mem[b][x] =
              IF b = fields.bo /\ x \in range THEN out[x] ELSE p.mem[b][x]
    BY DEF Written
  <1>2. \A s \in Res : copy'[s] = IF s = r THEN fields ELSE copy[s]
    BY <1>1 DEF BufInv, ResourceTypes
  <1>3. AllDraws' = AllDraws BY <1>1 DEF AllDraws
  <1>4. \A d \in AllDraws : d \in DrawsMade /\ d.bo \in Bos /\ d.res \in Res /\ DOMAIN d.saw \subseteq Parts
    BY DrawParts DEF AllDraws
  <1>5. Sees'
    <2> SUFFICES ASSUME NEW d \in AllDraws, NEW x \in DOMAIN d.saw
                 PROVE  pool'.mem[d.bo][x] = d.saw[x]
      BY <1>3 DEF Sees
    <2>1. x \in Parts /\ pool.mem[d.bo][x] = d.saw[x] BY <1>4 DEF KeptInv, Sees
    <2>2. CASE ~(d.bo = fields.bo /\ x \in range) BY <1>0, <1>4, <2>1, <2>2
    <2>3. CASE d.bo = fields.bo /\ x \in range
      <3>1. ~Unread(fields.bo) BY <2>3 DEF Unread
      <3>2. copy[r].bo = d.bo /\ r \in Bufs /\ ~copy[r].sync BY <2>3, <3>1
      <3>3. r = d.res BY <3>2 DEF KeptInv, Own
      <3>4. data[r][x] = d.saw[x] BY <3>2, <3>3 DEF KeptInv, Unchanged
      <3> QED BY <1>0, <1>4, <2>1, <2>3, <3>4
    <2> QED BY <2>2, <2>3
  <1>6. Lies' BY <1>1 DEF KeptInv, Lies
  <1>7. Own'
    <2> SUFFICES ASSUME NEW d \in AllDraws, NEW s \in Res, copy'[s].bo = d.bo PROVE s = d.res
      BY <1>3 DEF Own
    <2>1. CASE s # r BY <1>2, <2>1 DEF KeptInv, Own
    <2>2. CASE s = r
      <3>1. ~Unread(fields.bo) BY <1>2, <2>2 DEF Unread
      <3>2. copy[r].bo = d.bo BY <1>2, <2>2, <3>1
      <3> QED BY <2>2, <3>2 DEF KeptInv, Own
    <2> QED BY <2>1, <2>2
  <1>8. Unchanged'
    <2> SUFFICES ASSUME NEW d \in AllDraws, d.res \in Bufs, copy'[d.res].bo = d.bo, ~copy'[d.res].sync
                 PROVE  \A x \in DOMAIN d.saw : data[d.res][x] = d.saw[x]
      BY <1>1, <1>3 DEF Unchanged
    <2>1. d.res \in Res BY <1>4
    <2>2. CASE d.res # r BY <1>2, <2>1, <2>2 DEF KeptInv, Unchanged
    <2>3. CASE d.res = r
      <3>1. fields.bo = d.bo /\ ~fields.sync BY <1>2, <2>1, <2>3
      <3>2. ~Unread(fields.bo) BY <3>1 DEF Unread
      <3>3. copy[r].bo = d.bo /\ ~copy[r].sync BY <2>3, <3>1, <3>2
      <3> QED BY <2>3, <3>3 DEF KeptInv, Unchanged
    <2> QED BY <2>2, <2>3
  <1>9. UpToDate'
    <2> SUFFICES ASSUME NEW s \in Res, copy'[s].bo # None, s \notin maps,
                        NEW x \in Parts, x \notin copy'[s].dirty
                 PROVE  pool'.mem[copy'[s].bo][x] = data[s][x]
      BY <1>1 DEF UpToDate
    <2>1. CASE s # r
      <3>1. copy[s].bo \in Bos BY <1>2, <2>1 DEF BufInv, ResourceTypes, CopyFields
      <3>2. copy[s].bo # fields.bo BY <2>1, <3>1 DEF Others
      <3>3. pool.mem[copy[s].bo][x] = data[s][x] BY <1>2, <2>1 DEF KeptInv, UpToDate
      <3> QED BY <1>0, <1>2, <2>1, <3>1, <3>2, <3>3
    <2>2. CASE s = r
      <3>1. x \notin fields.dirty /\ copy'[s].bo = fields.bo BY <1>2, <2>2
      <3>2. CASE x \in range BY <1>0, <2>2, <3>1, <3>2
      <3>3. CASE x \notin range
        <4>1. fields.bo = copy[r].bo /\ x \notin copy[r].dirty BY <2>2, <3>1, <3>3
        <4>2. pool.mem[copy[r].bo][x] = data[r][x]
          BY <2>2, <3>1, <4>1, BufferConstants DEF KeptInv, UpToDate
        <4> QED BY <1>0, <2>2, <3>1, <3>3, <4>1, <4>2
      <3> QED BY <3>2, <3>3
    <2> QED BY <2>1, <2>2
  <1>10. Shadows'
    <2> SUFFICES ASSUME NEW s \in Res, copy'[s].shadow # None
                 PROVE  s \in Texs /\ \A x \in Parts \ copy'[s].dirty : copy'[s].shadow[x] = data[s][x]
      BY <1>1 DEF Shadows
    <2>1. CASE s # r BY <1>2, <2>1 DEF KeptInv, Shadows
    <2>2. CASE s = r BY <1>2, <2>2
    <2> QED BY <2>1, <2>2
  <1>11. Wanted'
    <2>1. DOMAIN want = Ctxs /\ \A o \in Ctxs : want[o] = None \/ want[o] \in Wants
      BY DEF BufInv, WantTypes
    <2>2. /\ want'[c] = [res |-> r, bo |-> fields.bo, parts |-> parts]
          /\ \A o \in Ctxs \ {c} : want'[o] = want[o]
      BY <1>1, <2>1
    <2>3. ASSUME NEW x \in parts PROVE pool'.mem[fields.bo][x] = data[r][x]
      <3>1. CASE x \in range BY <1>0, <3>1
      <3>2. CASE x \notin range
        <4>1. r \notin maps /\ fields.bo = copy[r].bo /\ x \notin copy[r].dirty /\ x \in Parts
          BY <2>3, <3>2
        <4>2. pool.mem[copy[r].bo][x] = data[r][x]
          BY <4>1, BufferConstants DEF KeptInv, UpToDate
        <4> QED BY <1>0, <3>2, <4>1, <4>2
      <3> QED BY <3>1, <3>2
    <2>4. ASSUME NEW o \in Ctxs \ {c}, want[o] # None, NEW x \in want[o].parts
          PROVE  pool'.mem[want[o].bo][x] = data[want[o].res][x]
      <3>1. want[o].bo \in Bos /\ want[o].res \in Res /\ x \in Parts BY <2>1, <2>4 DEF Wants
      <3>2. want[o].res \in Uses[o] /\ copy[want[o].res].bo = want[o].bo
        BY <2>4 DEF BufInv, WantHeld
      <3>3. want[o].res # r BY <3>2 DEF Private
      <3>4. want[o].bo # fields.bo BY <3>1, <3>2, <3>3 DEF Others
      <3>5. pool.mem[want[o].bo][x] = data[want[o].res][x] BY <2>4 DEF KeptInv, Wanted
      <3> QED BY <1>0, <3>1, <3>4, <3>5
    <2> QED BY <1>1, <2>2, <2>3, <2>4 DEF Wanted
  <1> QED BY <1>5, <1>6, <1>7, <1>8, <1>9, <1>10, <1>11 DEF KeptInv

(* What the application may do to a resource between its draws.            *)
LEMMA AppKept ==
    ASSUME BufInv, KeptInv, maps' \subseteq Bufs,
           \A s \in Res : copy'[s].bo = copy[s].bo /\ copy'[s].shadow = copy[s].shadow,
           \A d \in AllDraws : d.res \in Bufs /\ ~copy'[d.res].sync =>
              ~copy[d.res].sync /\ \A x \in DOMAIN d.saw : data'[d.res][x] = data[d.res][x],
           \A s \in Res : s \notin maps' => \A x \in Parts : x \notin copy'[s].dirty =>
              s \notin maps /\ x \notin copy[s].dirty /\ data'[s][x] = data[s][x],
           \A o \in Ctxs : want[o] # None =>
              \A x \in Parts : data'[want[o].res][x] = data[want[o].res][x],
           UNCHANGED <<pool, batch, want, marks, last, queue>>
    PROVE  KeptInv'
  <1>1. AllDraws' = AllDraws BY DEF AllDraws
  <1>2. Sees' /\ Lies' BY <1>1 DEF KeptInv, Sees, Lies
  <1>3. Own' BY <1>1 DEF KeptInv, Own
  <1>4. Unchanged'
    <2> SUFFICES ASSUME NEW d \in AllDraws, d.res \in Bufs, copy'[d.res].bo = d.bo, ~copy'[d.res].sync
                 PROVE  \A x \in DOMAIN d.saw : data'[d.res][x] = d.saw[x]
      BY <1>1 DEF Unchanged
    <2>1. copy[d.res].bo = d.bo BY DEF Res
    <2>2. \A x \in DOMAIN d.saw : data[d.res][x] = d.saw[x] BY <2>1 DEF KeptInv, Unchanged
    <2> QED BY <2>2
  <1>5. UpToDate' BY DEF KeptInv, UpToDate
  <1>6. Shadows'
    <2> SUFFICES ASSUME NEW s \in Res, copy[s].shadow # None
                 PROVE  /\ s \in Texs
                        /\ \A x \in Parts \ copy'[s].dirty : copy[s].shadow[x] = data'[s][x]
      BY DEF Shadows
    <2>1. s \in Texs /\ \A x \in Parts \ copy[s].dirty : copy[s].shadow[x] = data[s][x]
      BY DEF KeptInv, Shadows
    <2>2. s \notin maps' BY <2>1, BufferConstants
    <2> QED BY <2>1, <2>2
  <1>7. Wanted'
    <2>1. \A o \in Ctxs : want[o] # None => want[o].parts \subseteq Parts
      BY DEF BufInv, WantTypes, Wants
    <2> QED BY <2>1 DEF KeptInv, Wanted
  <1> QED BY <1>2, <1>3, <1>4, <1>5, <1>6, <1>7 DEF KeptInv

(* The application's steps, with what it must not do. *)
LEMMA AppStepsKept ==
    ASSUME BufInv, BufInv', KeptInv, NEW c \in Ctxs, NEW r \in Res,
           \/ WriteAll(c, r) \/ Map(c, r) \/ Unmap(c, r)
           \/ \E p \in Parts : Write(c, r, p) \/ WriteUnsync(c, r, p) \/ Poke(c, r, p)
    PROVE  KeptInv'
  <1>1. /\ ResourceTypes /\ maps' \subseteq Bufs /\ maps \subseteq Bufs /\ Bufs \cap Texs = {}
        /\ \A s \in Res : copy[s].dirty \subseteq Parts
    BY BufferConstants DEF BufInv, ResourceTypes, CopyFields
  <1>2. \A d \in AllDraws : /\ d.res \in Res /\ DOMAIN d.saw \subseteq Parts
                             /\ \E o \in Ctxs : d \in Pending(o)
    BY DrawParts, DrawsThere DEF AllDraws
  <1>3. ASSUME NEW p \in Parts, MayPoke(c, r, p), NEW d \in AllDraws, d.res = r
        PROVE  p \notin DOMAIN d.saw
    BY <1>2, <1>3 DEF MayPoke, MayWrite, ReadsPart
  <1>4. DOMAIN copy = Res /\ \A s \in Res : copy[s] \in CopyFields BY <1>1 DEF ResourceTypes
  <1>11. \A o \in Ctxs : want[o] # None => want[o].res \in Res
    BY DEF BufInv, WantTypes, Wants
  <1>12. ASSUME Ready(c), MayWrite(c, r), NEW o \in Ctxs, want[o] # None PROVE want[o].res # r
    BY <1>12 DEF MayWrite, Ready
  <1>5. CASE WriteAll(c, r)
    <2>1. /\ Ready(c) /\ MayWrite(c, r) /\ r \in Texs /\ Change(r, Parts)
          /\ copy' = [copy EXCEPT ![r].dirty = Parts, ![r].boxes = FALSE]
          /\ UNCHANGED <<maps, pool, batch, want, marks, last, queue>>
      BY <1>5 DEF WriteAll
    <2>2. \A s \in Res : \A x \in Parts : data'[s][x] =
              IF s = r THEN data[s][x] + 1 ELSE data[s][x]
      BY <1>1, <2>1, ChangeTypes
    <2>3. \A s \in Res : /\ copy'[s].bo = copy[s].bo /\ copy'[s].shadow = copy[s].shadow
                         /\ copy'[s].sync = copy[s].sync
                         /\ copy'[s].dirty = IF s = r THEN Parts ELSE copy[s].dirty
      BY <1>4, <2>1 DEF CopyFields
    <2>4. \A d \in AllDraws : d.res \in Bufs /\ ~copy'[d.res].sync =>
              ~copy[d.res].sync /\ \A x \in DOMAIN d.saw : data'[d.res][x] = data[d.res][x]
      BY <1>1, <1>2, <2>1, <2>2, <2>3
    <2>5. \A s \in Res : s \notin maps' => \A x \in Parts : x \notin copy'[s].dirty =>
              s \notin maps /\ x \notin copy[s].dirty /\ data'[s][x] = data[s][x]
      BY <2>1, <2>2, <2>3
    <2>20. \A o \in Ctxs : want[o] # None =>
              \A x \in Parts : data'[want[o].res][x] = data[want[o].res][x]
      BY <1>11, <1>12, <2>1, <2>2
    <2> QED BY <1>1, <2>1, <2>20, <2>3, <2>4, <2>5, AppKept
  <1>6. CASE Map(c, r)
    <2>1. /\ Ready(c) /\ maps' = maps \cup {r}
          /\ UNCHANGED <<data, copy, pool, batch, want, marks, last, queue>>
      BY <1>6 DEF Map
    <2> QED BY <1>1, <2>1, AppKept
  <1>7. CASE Unmap(c, r)
    <2>1. PICK sync \in BOOLEAN : copy' = [copy EXCEPT ![r].dirty = Parts, ![r].sync = @ \/ sync]
      BY <1>7 DEF Unmap
    <2>2. /\ Ready(c) /\ maps' = maps \ {r}
          /\ UNCHANGED <<data, pool, batch, want, marks, last, queue>>
      BY <1>7 DEF Unmap
    <2> DEFINE y == copy[r].sync \/ sync
    <2>3. y \in BOOLEAN /\ (~y => ~copy[r].sync) OBVIOUS
    <2>4. copy' = [copy EXCEPT ![r].dirty = Parts, ![r].sync = y] BY <2>1
    <2> HIDE DEF y
    <2>5. \A s \in Res : /\ copy'[s].bo = copy[s].bo /\ copy'[s].shadow = copy[s].shadow
                         /\ copy'[s].sync = IF s = r THEN y ELSE copy[s].sync
                         /\ copy'[s].dirty = IF s = r THEN Parts ELSE copy[s].dirty
      BY <1>4, <2>4 DEF CopyFields
    <2>6. \A s \in Res : ~copy'[s].sync => ~copy[s].sync
      BY <2>3, <2>5
    <2>7. \A s \in Res : s \notin maps' => \A x \in Parts : x \notin copy'[s].dirty =>
              s \notin maps /\ x \notin copy[s].dirty /\ data'[s][x] = data[s][x]
      BY <2>2, <2>5
    <2>8. \A d \in AllDraws : d.res \in Bufs /\ ~copy'[d.res].sync =>
              ~copy[d.res].sync /\ \A x \in DOMAIN d.saw : data'[d.res][x] = data[d.res][x]
      BY <1>2, <2>2, <2>6
    <2> QED BY <1>1, <2>2, <2>5, <2>7, <2>8, AppKept
  <1>8. ASSUME NEW p \in Parts, Write(c, r, p) PROVE KeptInv'
    <2> DEFINE ds == copy[r].dirty \cup {p}
    <2>1. /\ Ready(c) /\ MayWrite(c, r) /\ Change(r, {p})
          /\ copy' = [copy EXCEPT ![r].dirty = ds, ![r].sync = TRUE]
          /\ UNCHANGED <<maps, pool, batch, want, marks, last, queue>>
      BY <1>8 DEF Write
    <2>2. \A s \in Res : \A x \in Parts : data'[s][x] =
              IF s = r /\ x \in {p} THEN data[s][x] + 1 ELSE data[s][x]
      BY <1>1, <2>1, ChangeTypes
    <2>3. copy[r].dirty \subseteq ds /\ p \in ds OBVIOUS
    <2> HIDE DEF ds
    <2>4. \A s \in Res : /\ copy'[s].bo = copy[s].bo /\ copy'[s].shadow = copy[s].shadow
                         /\ copy'[s].sync = IF s = r THEN TRUE ELSE copy[s].sync
                         /\ copy'[s].dirty = IF s = r THEN ds ELSE copy[s].dirty
      BY <1>4, <2>1 DEF CopyFields
    <2>5. \A s \in Res : ~copy'[s].sync => s # r /\ ~copy[s].sync BY <2>4
    <2>6. \A d \in AllDraws : d.res \in Bufs /\ ~copy'[d.res].sync =>
              ~copy[d.res].sync /\ \A x \in DOMAIN d.saw : data'[d.res][x] = data[d.res][x]
      BY <1>2, <2>2, <2>5
    <2>7. \A s \in Res : s \notin maps' => \A x \in Parts : x \notin copy'[s].dirty =>
              s \notin maps /\ x \notin copy[s].dirty /\ data'[s][x] = data[s][x]
      <3> TAKE s \in Res
      <3> SUFFICES ASSUME s \notin maps', NEW x \in Parts, x \notin copy'[s].dirty
                   PROVE  s \notin maps /\ x \notin copy[s].dirty /\ data'[s][x] = data[s][x]
        OBVIOUS
      <3>1. copy'[s].dirty = IF s = r THEN ds ELSE copy[s].dirty BY <2>4
      <3>2. x \notin copy[s].dirty /\ ~(s = r /\ x \in {p}) BY <2>3, <3>1
      <3> QED BY <2>1, <2>2, <3>2
    <2>20. \A o \in Ctxs : want[o] # None =>
              \A x \in Parts : data'[want[o].res][x] = data[want[o].res][x]
      BY <1>11, <1>12, <2>1, <2>2
    <2> QED BY <1>1, <2>1, <2>20, <2>4, <2>6, <2>7, AppKept
  <1>9. ASSUME NEW p \in Parts, WriteUnsync(c, r, p) PROVE KeptInv'
    <2> DEFINE ds == copy[r].dirty \cup {p}
    <2>1. /\ Ready(c) /\ Change(r, {p}) /\ MayPoke(c, r, p) /\ MayWrite(c, r)
          /\ copy' = [copy EXCEPT ![r].dirty = ds]
          /\ UNCHANGED <<maps, pool, batch, want, marks, last, queue>>
      BY <1>9 DEF WriteUnsync, MayPoke
    <2>2. \A s \in Res : \A x \in Parts : data'[s][x] =
              IF s = r /\ x \in {p} THEN data[s][x] + 1 ELSE data[s][x]
      BY <1>1, <2>1, ChangeTypes
    <2>3. copy[r].dirty \subseteq ds /\ p \in ds OBVIOUS
    <2> HIDE DEF ds
    <2>4. \A s \in Res : /\ copy'[s].bo = copy[s].bo /\ copy'[s].shadow = copy[s].shadow
                         /\ copy'[s].sync = copy[s].sync
                         /\ copy'[s].dirty = IF s = r THEN ds ELSE copy[s].dirty
      BY <1>4, <2>1 DEF CopyFields
    <2>5. ASSUME NEW d \in AllDraws, NEW x \in DOMAIN d.saw
          PROVE  data'[d.res][x] = data[d.res][x]
      <3>1. d.res \in Res /\ x \in Parts BY <1>2
      <3>2. ~(d.res = r /\ x \in {p}) BY <1>3, <2>1
      <3> QED BY <2>2, <3>1, <3>2
    <2>6. \A d \in AllDraws : d.res \in Bufs /\ ~copy'[d.res].sync =>
              ~copy[d.res].sync /\ \A x \in DOMAIN d.saw : data'[d.res][x] = data[d.res][x]
      BY <1>2, <2>4, <2>5
    <2>7. \A s \in Res : s \notin maps' => \A x \in Parts : x \notin copy'[s].dirty =>
              s \notin maps /\ x \notin copy[s].dirty /\ data'[s][x] = data[s][x]
      <3> TAKE s \in Res
      <3> SUFFICES ASSUME s \notin maps', NEW x \in Parts, x \notin copy'[s].dirty
                   PROVE  s \notin maps /\ x \notin copy[s].dirty /\ data'[s][x] = data[s][x]
        OBVIOUS
      <3>1. copy'[s].dirty = IF s = r THEN ds ELSE copy[s].dirty BY <2>4
      <3>2. x \notin copy[s].dirty /\ ~(s = r /\ x \in {p}) BY <2>3, <3>1
      <3> QED BY <2>1, <2>2, <3>2
    <2>20. \A o \in Ctxs : want[o] # None =>
              \A x \in Parts : data'[want[o].res][x] = data[want[o].res][x]
      BY <1>11, <1>12, <2>1, <2>2
    <2> QED BY <1>1, <2>1, <2>20, <2>4, <2>6, <2>7, AppKept
  <1>10. ASSUME NEW p \in Parts, Poke(c, r, p) PROVE KeptInv'
    <2>1. /\ Ready(c) /\ Change(r, {p}) /\ MayPoke(c, r, p) /\ MayWrite(c, r) /\ r \in maps
          /\ UNCHANGED <<copy, maps, pool, batch, want, marks, last, queue>>
      BY <1>10 DEF Poke, MayPoke
    <2>2. \A s \in Res : \A x \in Parts : data'[s][x] =
              IF s = r /\ x \in {p} THEN data[s][x] + 1 ELSE data[s][x]
      BY <1>1, <2>1, ChangeTypes
    <2>3. ASSUME NEW d \in AllDraws, NEW x \in DOMAIN d.saw
          PROVE  data'[d.res][x] = data[d.res][x]
      <3>1. d.res \in Res /\ x \in Parts BY <1>2
      <3>2. ~(d.res = r /\ x \in {p}) BY <1>3, <2>1
      <3> QED BY <2>2, <3>1, <3>2
    <2>4. \A s \in Res : s \notin maps => \A x \in Parts : data'[s][x] = data[s][x]
      BY <2>1, <2>2
    <2>20. \A o \in Ctxs : want[o] # None =>
              \A x \in Parts : data'[want[o].res][x] = data[want[o].res][x]
      BY <1>11, <1>12, <2>1, <2>2
    <2> QED BY <1>1, <2>1, <2>20, <2>3, <2>4, AppKept
  <1> QED BY <1>5, <1>6, <1>7, <1>8, <1>9, <1>10

(* A draw of a buffer that gets no memory is dropped, and the old copy let *)
(* go.                                                                     *)
LEMMA NoCopyKept ==
    ASSUME BufInv, KeptInv, NEW r \in Bufs,
           NEW p, p.mem = pool.mem, NEW fields \in CopyFields,
           fields.bo = None, fields.shadow = copy[r].shadow, NoCopy(r, p, fields)
    PROVE  KeptInv'
  <1>1. /\ pool'.mem = pool.mem /\ copy' = [copy EXCEPT ![r] = fields]
        /\ UNCHANGED <<data, maps, batch, want, marks, last, queue>>
    BY DEF NoCopy
  <1>2. r \in Res /\ r \notin Texs /\ None \notin Bos BY BufferConstants DEF Res
  <1>3. \A s \in Res : copy'[s] = IF s = r THEN fields ELSE copy[s]
    BY <1>1 DEF BufInv, ResourceTypes
  <1>4. AllDraws' = AllDraws BY <1>1 DEF AllDraws
  <1>5. \A d \in AllDraws : d.bo \in Bos /\ d.res \in Res BY DrawParts DEF AllDraws
  <1>6. Sees' /\ Lies' BY <1>1, <1>4 DEF KeptInv, Sees, Lies
  <1>7. Own' BY <1>2, <1>3, <1>4, <1>5 DEF KeptInv, Own
  <1>8. Unchanged' BY <1>1, <1>2, <1>3, <1>4, <1>5 DEF KeptInv, Unchanged
  <1>9. UpToDate' BY <1>1, <1>3 DEF KeptInv, UpToDate
  <1>10. Shadows' BY <1>1, <1>2, <1>3 DEF KeptInv, Shadows
  <1>11. Wanted' BY <1>1 DEF KeptInv, Wanted
  <1> QED BY <1>6, <1>7, <1>8, <1>9, <1>10, <1>11 DEF KeptInv

(* Fields that sgx_buffer_bo leaves. *)
LEMMA CleanParts ==
    ASSUME NEW f \in CopyFields, NEW bo
    PROVE  LET clean == [f EXCEPT !.dirty = {}, !.sync = FALSE]
           IN  /\ clean.dirty = {} /\ clean.sync = FALSE /\ clean.shadow = f.shadow
               /\ [clean EXCEPT !.bo = bo].dirty = {}
               /\ [clean EXCEPT !.bo = bo].shadow = f.shadow
  BY DEF CopyFields

(* sgx_buffer_bo. *)
LEMMA GetBufferKept ==
    ASSUME Private, BufInv, KeptInv, NEW c \in Ctxs, NEW r \in Res, r \in Uses[c],
           NEW parts \in Reads, GetBuffer(c, r, parts)
    PROVE  KeptInv'
  <1> DEFINE f == copy[r]
             dirty == f.dirty \cup (IF r \in maps THEN parts ELSE {})
             clean == [f EXCEPT !.dirty = {}, !.sync = FALSE]
             away == f.bo # None /\ f.sync /\ InUse(c, f.bo)
             p == IF away THEN BoDestroy(pool, f.bo) ELSE pool
             here == IF dirty = {} THEN f ELSE clean
             none == [f EXCEPT !.bo = None, !.dirty = dirty]
  <1>1. Ready(c) /\ BufferBo(c, r, parts) /\ parts \in SUBSET Parts /\ r \in Bufs /\ r \notin Texs
    BY BufferConstants DEF GetBuffer
  <1>2. /\ f \in CopyFields /\ data[r] \in Contents /\ f.dirty \in SUBSET Parts
        /\ f.bo \in Bos \cup {None}
    BY DEF BufInv, ResourceTypes, CopyFields
  <1>3. \A x \in Parts : data[r][x] \in 0..Undefined BY <1>2, WideContents DEF Contents, Content
  <1>4. dirty \in SUBSET Parts BY <1>1, <1>2
  <1>5. f.shadow = None BY <1>1 DEF KeptInv, Shadows
  <1>6. Lies BY DEF KeptInv
  <1>7. CASE f.bo # None /\ ~away
    <2>1. Bring(c, r, parts, pool, here, data[r], dirty) BY <1>1, <1>7 DEF BufferBo
    <2>2. here \in CopyFields /\ here.bo = f.bo BY <1>2, CleanFields
    <2>3. here.shadow = None /\ (dirty = {} => here = f) /\ (dirty # {} => here.dirty = {} /\ ~here.sync)
      <3>1. clean.dirty = {} /\ clean.sync = FALSE /\ clean.shadow = f.shadow BY <1>2, CleanParts
      <3> QED BY <1>5, <3>1
    <2>4. Moves(pool, pool, r, here.bo) BY <2>2, Stays
    <2>5. f.bo \notin Others(r) BY HeldIs
    <2>6. \A x \in Parts : x \in dirty \/ (r \notin maps /\ x \notin f.dirty) \/ (x \notin parts /\ x \notin f.dirty)
      OBVIOUS
    <2>7. f.dirty \subseteq dirty OBVIOUS
    <2>15. Reaches(c, f.bo) BY DEF Reaches
    <2>8. Unread(f.bo) \/ ~f.sync BY <1>1, <1>2, <1>6, <1>7, <2>15, UnusedUnread
    <2> HIDE DEF here, dirty, away, clean
    <2>9. \A x \in dirty : data[r][x] \in 0..Undefined BY <1>3, <1>4
    <2>10. here.bo \in Bos BY <1>2, <1>7, <2>2
    <2>16. here \in CopyFields /\ here.bo \in Bos BY <2>2, <2>10
    <2>11. Written(pool, here.bo, data[r], dirty)
      BY <1>1, <1>4, <2>1, <2>4, <2>9, <2>16, BringStep
    <2>12. here.sync => f.sync
      BY <2>3
    <2>13. \A x \in Parts \ here.dirty : x \in dirty \/ x \notin f.dirty BY <2>7
    <2>14. \A x \in parts : x \in dirty \/ (r \notin maps /\ x \notin f.dirty) BY <1>1, <2>6
    <2> QED BY <1>1, <1>4, <2>1, <2>2, <2>3, <2>5, <2>8, <2>10, <2>11, <2>13, <2>14, BringKept
  <1>8. CASE ~(f.bo # None /\ ~away)
    <2>1. \/ /\ HasMemory
             /\ \E g \in CacheGet(p) :
                   Bring(c, r, parts, g.pool, [clean EXCEPT !.bo = g.bo], data[r], Parts)
          \/ NoCopy(r, p, none)
      BY <1>1, <1>8 DEF BufferBo
    <2>2. /\ PoolIs(p, Others(r), Listed) /\ p.busy = pool.busy /\ p.mem = pool.mem
          /\ \A b \in Bos : p.stamp[b] = pool.stamp[b] \/ (b \notin Listed /\ p.stamp[b] = None)
      <3>1. CASE away
        <4>1. p = BoDestroy(pool, copy[r].bo) /\ copy[r].bo # None BY <3>1
        <4> HIDE DEF p
        <4> QED BY <4>1, LetsGoOf DEF Moves
      <3>2. CASE ~away
        <4>1. p = pool /\ f.bo = None BY <1>8, <3>2
        <4>2. Held = Others(r) BY <4>1, HeldIs DEF OneOf
        <4>3. PoolIs(pool, Others(r), Listed) BY <4>2 DEF BufInv
        <4> HIDE DEF p
        <4> QED BY <4>1, <4>3
      <3> QED BY <3>1, <3>2
    <2>3. CASE NoCopy(r, p, none)
      <3>1. none \in CopyFields /\ none.bo = None
        <4> HIDE DEF f, dirty
        <4> QED BY <1>2, <1>4, NoneFields
      <3>2. none.shadow = copy[r].shadow BY <1>2 DEF CopyFields
      <3> HIDE DEF none, p
      <3> QED BY <1>1, <2>2, <2>3, <3>1, <3>2, NoCopyKept
    <2>4. CASE \E g \in CacheGet(p) :
                   Bring(c, r, parts, g.pool, [clean EXCEPT !.bo = g.bo], data[r], Parts)
      <3>1. PICK g \in CacheGet(p) :
                   Bring(c, r, parts, g.pool, [clean EXCEPT !.bo = g.bo], data[r], Parts)
        BY <2>4
      <3> HIDE DEF p
      <3>2. /\ Moves(pool, g.pool, r, g.bo) /\ g.bo \in Bos /\ g.pool.mem = pool.mem
            /\ g.bo \notin Listed /\ (pool.busy[g.bo] = 0 \/ ~Kept(g.bo))
        BY <2>2, GetsNew
      <3>3. Unread(g.bo) BY <1>1, <1>6, <3>2, FreshUnread
      <3> DEFINE fields == [clean EXCEPT !.bo = g.bo]
      <3>4. fields \in CopyFields /\ fields.bo = g.bo BY <1>2, <3>2, CleanFields
      <3>5. fields.shadow = None BY <1>2, <1>5, CleanParts
      <3> HIDE DEF fields
      <3>6. Bring(c, r, parts, g.pool, fields, data[r], Parts) BY <3>1 DEF fields
      <3>7. Written(g.pool, fields.bo, data[r], Parts)
        BY <1>1, <1>3, <3>2, <3>4, <3>6, BringStep
      <3>8. fields.bo \notin Others(r) BY <3>2, <3>4 DEF Moves
      <3> QED BY <1>1, <3>2, <3>3, <3>4, <3>5, <3>6, <3>7, <3>8, BringKept
    <2> QED BY <2>1, <2>3, <2>4
  <1> QED BY <1>7, <1>8

(* Fields that copy_texture leaves. *)
LEMMA DoneParts ==
    ASSUME NEW f \in CopyFields, NEW bo, NEW shadow
    PROVE  LET done == [f EXCEPT !.dirty = {}, !.sync = FALSE, !.boxes = TRUE, !.shadow = shadow]
           IN  /\ done.dirty = {} /\ done.shadow = shadow
               /\ [done EXCEPT !.bo = bo].dirty = {} /\ [done EXCEPT !.bo = bo].shadow = shadow
  BY DEF CopyFields

(* sgx_resource_texture: out of a shadow or not, the data are copied.      *)
LEMMA GetTextureKept ==
    ASSUME Private, TexturesGet, BufInv, KeptInv, NEW c \in Ctxs, NEW r \in Res, r \in Uses[c],
           GetTexture(c, r)
    PROVE  KeptInv'
  <1> DEFINE f == copy[r]
             boxed == f.bo # None /\ f.boxes /\ f.dirty # {}
             partial == boxed /\ f.shadow # None
             shadow == CASE ~boxed -> None
                         [] partial -> f.shadow
                         [] OTHER -> [p \in Parts |-> Undefined]
             out == [p \in Parts |-> IF ~partial \/ p \in f.dirty THEN data[r][p] ELSE shadow[p]]
             kept == IF boxed THEN out ELSE None
             done == [f EXCEPT !.dirty = {}, !.sync = FALSE, !.boxes = TRUE, !.shadow = kept]
             fresh == f.bo = None \/ InUse(c, f.bo)
             range == IF partial THEN f.dirty ELSE Parts
             none == [f EXCEPT !.shadow = shadow]
  <1>1. Ready(c) /\ r \in Texs /\ r \notin Bufs /\ r \notin maps /\ Parts \in SUBSET Parts
    BY BufferConstants DEF GetTexture, BufInv, ResourceTypes
  <1>2. /\ f \in CopyFields /\ data[r] \in Contents /\ f.dirty \in SUBSET Parts
        /\ f.bo \in Bos \cup {None} /\ f.shadow \in {None} \cup Content
    BY DEF BufInv, ResourceTypes, CopyFields
  <1>3. \A x \in Parts : data[r][x] \in 0..Undefined BY <1>2, WideContents DEF Contents, Content
  <1>4. f.shadow # None => \A x \in Parts \ f.dirty : f.shadow[x] = data[r][x]
    BY DEF KeptInv, Shadows
  <1>5. \A x \in Parts : out[x] = data[r][x]
    <2> TAKE x \in Parts
    <2>1. CASE ~partial \/ x \in f.dirty BY <2>1
    <2>2. CASE ~(~partial \/ x \in f.dirty)
      <3>1. shadow = f.shadow BY <2>2
      <3>2. shadow[x] = data[r][x] BY <1>4, <2>2, <3>1
      <3> HIDE DEF shadow
      <3> QED BY <2>2, <3>2
    <2> QED BY <2>1, <2>2
  <1>6. \A x \in Parts : out[x] \in 0..Undefined
    <2> HIDE DEF out
    <2> QED BY <1>3, <1>5
  <1>7. out \in Content
    <2> DEFINE o == out
    <2>1. o = [x \in Parts |-> o[x]] OBVIOUS
    <2>2. \A x \in Parts : o[x] \in 0..Undefined BY <1>6
    <2> HIDE DEF o
    <2>3. o \in Content BY <2>1, <2>2 DEF Content
    <2> QED BY <2>3 DEF o
  <1>8. /\ kept \in {None} \cup Content /\ range \in SUBSET Parts
    <2> HIDE DEF out
    <2> QED BY <1>2, <1>7
  <1>13. /\ kept # None => \A x \in Parts : kept[x] = data[r][x]
         /\ \A x \in Parts : x \in range \/ x \notin f.dirty
    <2> HIDE DEF out
    <2> QED BY <1>5
  <1>9. Lies BY DEF KeptInv
  <1>10. f.bo \notin Others(r) BY HeldIs
  <1>11. CASE ~(copy[r].bo = None \/ copy[r].dirty # {})
    <2>1. Bring(c, r, Parts, pool, f, data[r], {}) BY <1>11 DEF GetTexture
    <2>2. {} \in SUBSET Parts /\ f.bo \in Bos BY <1>2, <1>11
    <2>3. Moves(pool, pool, r, f.bo) BY Stays
    <2>4. f \in CopyFields BY <1>2
    <2>5. f.dirty = {} /\ f.bo = copy[r].bo /\ copy[r].dirty = {} BY <1>11
    <2> HIDE DEF f
    <2>6. Written(pool, f.bo, data[r], {}) BY <1>1, <2>1, <2>2, <2>3, <2>4, BringStep
    <2> QED BY <1>1, <1>4, <1>10, <2>1, <2>2, <2>4, <2>5, <2>6, BringKept
  <1>12. CASE copy[r].bo = None \/ copy[r].dirty # {}
    <2>1. CopyTexture(c, r) BY <1>12 DEF GetTexture
    <2>2. CASE ~fresh
      <3>1. Bring(c, r, Parts, pool, done, out, range) BY <2>1, <2>2 DEF CopyTexture
      <3>12. Reaches(c, f.bo) BY DEF Reaches
      <3>2. Unread(f.bo) BY <1>1, <1>2, <1>9, <2>2, <3>12, UnusedUnread
      <3> HIDE DEF kept, range, out
      <3>3. done \in CopyFields /\ done.bo = f.bo
        <4> HIDE DEF f
        <4> QED BY <1>2, <1>8, DoneFields
      <3>4. done.dirty = {} /\ done.shadow = kept BY <1>2, DoneParts
      <3> HIDE DEF done
      <3>5. f.bo \in Bos BY <1>2, <2>2
      <3>6. Moves(pool, pool, r, done.bo) BY <3>3, Stays
      <3>7. \A x \in range : out[x] \in 0..Undefined /\ out[x] = data[r][x] BY <1>5, <1>6, <1>8
      <3>8. Written(pool, done.bo, out, range)
        BY <1>1, <1>8, <3>1, <3>3, <3>5, <3>6, <3>7, BringStep
      <3>9. done.shadow # None => \A x \in Parts : done.shadow[x] = data[r][x] BY <1>13, <3>4
      <3>10. done.bo \in Bos /\ done.bo = copy[r].bo /\ done.bo \notin Others(r) /\ Unread(done.bo)
        BY <1>10, <3>2, <3>3, <3>5
      <3>11. \A x \in Parts : x \in range \/ x \notin copy[r].dirty BY <1>13
      <3> HIDE DEF f
      <3> QED BY <1>1, <1>8, <3>1, <3>3, <3>7, <3>8, <3>9, <3>10, <3>11, BringKept
    <2>3. CASE fresh
      <3>1. \/ \E g \in CacheGet(pool) :
                  Bring(c, r, Parts,
                        IF f.bo = None THEN g.pool ELSE BoDestroy(g.pool, f.bo),
                        [done EXCEPT !.bo = g.bo], out, Parts)
            \/ NoCopy(r, pool, none)
        BY <2>1, <2>3 DEF CopyTexture
      <3>2. CASE NoCopy(r, pool, none)
        <4>1. r \in Failing BY <3>2 DEF NoCopy
        <4> QED BY <1>1, <4>1 DEF TexturesGet
      <3>3. CASE \E g \in CacheGet(pool) :
                  Bring(c, r, Parts,
                        IF f.bo = None THEN g.pool ELSE BoDestroy(g.pool, f.bo),
                        [done EXCEPT !.bo = g.bo], out, Parts)
        <4>1. PICK g \in CacheGet(pool) :
                  Bring(c, r, Parts,
                        IF f.bo = None THEN g.pool ELSE BoDestroy(g.pool, f.bo),
                        [done EXCEPT !.bo = g.bo], out, Parts)
          BY <3>3
        <4> DEFINE p == IF f.bo = None THEN g.pool ELSE BoDestroy(g.pool, f.bo)
                   fields == [done EXCEPT !.bo = g.bo]
        <4>2. /\ Moves(pool, p, r, g.bo) /\ g.bo \in Bos /\ p.mem = pool.mem
              /\ g.bo \notin Listed /\ (pool.busy[g.bo] = 0 \/ ~Kept(g.bo))
          <5>1. CASE f.bo = None
            <6>1. Held = Others(r) BY <5>1, HeldIs DEF OneOf
            <6>2. PoolIs(pool, Others(r), Listed) BY <6>1 DEF BufInv
            <6> QED BY <5>1, <6>2, GetsNew
          <5>2. CASE f.bo # None BY <5>2, GetsAnother
          <5> QED BY <5>1, <5>2
        <4>3. Bring(c, r, Parts, p, fields, out, Parts) BY <4>1
        <4>4. Unread(g.bo) BY <1>1, <1>9, <4>2, FreshUnread
        <4> HIDE DEF kept, out
        <4>5. fields \in CopyFields /\ fields.bo = g.bo /\ fields.dirty = {} /\ fields.shadow = kept
          <5> DEFINE bo == g.bo
          <5> HIDE DEF f
          <5>1. bo \in Bos \cup {None} BY <4>2
          <5> HIDE DEF bo
          <5>2. [done EXCEPT !.bo = bo] \in CopyFields /\ [done EXCEPT !.bo = bo].bo = bo
            BY <1>2, <1>8, <5>1, DoneFields
          <5>3. [done EXCEPT !.bo = bo].dirty = {} /\ [done EXCEPT !.bo = bo].shadow = kept
            BY <1>2, DoneParts
          <5> QED BY <5>2, <5>3 DEF bo
        <4> HIDE DEF fields, p
        <4>6. Written(p, fields.bo, out, Parts)
          BY <1>1, <1>6, <4>2, <4>3, <4>5, BringStep
        <4>7. fields.shadow # None => \A x \in Parts : fields.shadow[x] = data[r][x] BY <1>13, <4>5
        <4>8. fields.bo \in Bos /\ fields.bo \notin Others(r) /\ Unread(fields.bo)
          BY <4>2, <4>4, <4>5 DEF Moves
        <4> HIDE DEF f
        <4> QED BY <1>1, <1>5, <4>2, <4>3, <4>5, <4>6, <4>7, <4>8, BringKept
      <3> QED BY <3>1, <3>2, <3>3
    <2> QED BY <2>2, <2>3
  <1> QED BY <1>11, <1>12

(* The draw gathered is to show what its copy holds. *)
LEMMA AddKept ==
    ASSUME BufInv, KeptInv, NEW c \in Ctxs, Add(c)
    PROVE  KeptInv'
  <1>1. PICK d \in DrawsMade :
            /\ d.res = want[c].res /\ d.bo = want[c].bo
            /\ d.saw = [p \in want[c].parts |-> data[want[c].res][p]]
            /\ batch'[c].draws = Append(batch[c].draws, d)
            /\ want[c].bo \in Range(batch'[c].bos)
            /\ Range(batch[c].bos) \subseteq Range(batch'[c].bos)
    BY AddStep
  <1>2. pool'.mem = pool.mem /\ \A a \in Ctxs \ {c} : batch'[a] = batch[a] BY AddStep
  <1>3. /\ want[c] # None /\ UNCHANGED <<data, copy, maps, marks, last, queue>>
        /\ want' = [want EXCEPT ![c] = None]
    BY DEF Add
  <1>4. batch[c].draws \in Seq(DrawsMade) BY DrawsThere
  <1>5. Range(batch'[c].draws) = Range(batch[c].draws) \cup {d} BY <1>1, <1>4, Appended
  <1>6. AllDraws' \subseteq AllDraws \cup {d} BY <1>2, <1>3, <1>5 DEF AllDraws
  <1>7. d.res \in Res /\ copy[d.res].bo = d.bo /\ d.bo # None
    BY <1>1, <1>3, WantIs, BufferConstants DEF Wants
  <1>8. Sees'
    <2>1. \A x \in DOMAIN d.saw : pool.mem[d.bo][x] = d.saw[x] BY <1>1, <1>3 DEF KeptInv, Wanted
    <2> QED BY <1>2, <1>6, <2>1 DEF KeptInv, Sees
  <1>9. Lies'
    <2>1. \A e \in Range(batch'[c].draws) : e.bo \in Range(batch'[c].bos)
      BY <1>1, <1>5 DEF KeptInv, Lies
    <2> QED BY <1>2, <1>3, <2>1 DEF KeptInv, Lies
  <1>10. Own'
    <2>1. \A r \in Res : copy[r].bo = d.bo => r = d.res BY <1>7 DEF BufInv, OneOwner
    <2> QED BY <1>3, <1>6, <2>1 DEF KeptInv, Own
  <1>11. Unchanged'
    <2>1. \A x \in DOMAIN d.saw : data[d.res][x] = d.saw[x] BY <1>1
    <2> QED BY <1>3, <1>6, <2>1 DEF KeptInv, Unchanged
  <1>12. UpToDate' /\ Shadows' BY <1>2, <1>3 DEF KeptInv, UpToDate, Shadows
  <1>13. Wanted' BY <1>2, <1>3 DEF KeptInv, Wanted, BufInv, WantTypes
  <1> QED BY <1>8, <1>9, <1>10, <1>11, <1>12, <1>13 DEF KeptInv

(* A flush keeps its draws. *)
LEMMA SubmitKept ==
    ASSUME BufInv, KeptInv, NEW c \in Ctxs, Submit(c)
    PROVE  KeptInv'
  <1> DEFINE render == [ctx |-> c, draws |-> batch[c].draws, bos |-> batch[c].bos]
  <1>1. /\ queue' = Append(queue, render) /\ batch' = [batch EXCEPT ![c] = NewBatch]
        /\ UNCHANGED <<data, copy, maps, pool, want>>
    BY DEF Submit
  <1>2. DOMAIN batch = Ctxs BY DEF BufInv, BatchTypes
  <1>3. batch'[c].draws = <<>> /\ Range(<<>>) = {} BY <1>1, <1>2 DEF NewBatch, Range
  <1>4. queue \in Seq(Renders) /\ render \in Renders
    BY BatchIs DEF BufInv, QueueTypes, Renders
  <1>5. render.draws = batch[c].draws /\ render.bos = batch[c].bos OBVIOUS
  <1> HIDE DEF render
  <1>6. \A k \in DOMAIN queue' : \/ k \in DOMAIN queue /\ queue'[k] = queue[k]
                                 \/ queue'[k] = render
    BY <1>1, <1>4, Appended
  <1>7. AllDraws' \subseteq AllDraws BY <1>1, <1>2, <1>3, <1>5, <1>6 DEF AllDraws
  <1>8. Lies' BY <1>1, <1>2, <1>3, <1>5, <1>6 DEF KeptInv, Lies
  <1> QED BY <1>1, <1>7, <1>8, FewerDraws

(* A refused flush loses them. *)
LEMMA SubmitFailsKept ==
    ASSUME BufInv, KeptInv, NEW c \in Ctxs, SubmitFails(c)
    PROVE  KeptInv'
  <1>1. /\ batch' = [batch EXCEPT ![c] = NewBatch]
        /\ UNCHANGED <<data, copy, maps, pool, want, queue>>
    BY DEF SubmitFails
  <1>2. DOMAIN batch = Ctxs BY DEF BufInv, BatchTypes
  <1>3. batch'[c].draws = <<>> /\ Range(<<>>) = {} BY <1>1, <1>2 DEF NewBatch, Range
  <1>4. AllDraws' \subseteq AllDraws BY <1>1, <1>2, <1>3 DEF AllDraws
  <1>5. Lies' BY <1>1, <1>2, <1>3 DEF KeptInv, Lies
  <1> QED BY <1>1, <1>4, <1>5, FewerDraws

(* Buffers are let go: no memory changes. *)
LEMMA MarkKept ==
    ASSUME BufInv, KeptInv, NEW c \in Ctxs, Mark(c)
    PROVE  KeptInv'
  <1>1. UNCHANGED <<data, copy, maps, batch, want, queue>> BY DEF Mark, LetsGo
  <1>2. pool'.mem = pool.mem BY MarkStep
  <1>3. AllDraws' \subseteq AllDraws /\ Lies' BY <1>1 DEF AllDraws, KeptInv, Lies
  <1> QED BY <1>1, <1>2, <1>3, FewerDraws

(* A render is done. *)
LEMMA RenderKept ==
    ASSUME BufInv, KeptInv, RenderRuns
    PROVE  KeptInv'
  <1>1. /\ queue # <<>> /\ queue' = Tail(queue)
        /\ UNCHANGED <<data, copy, maps, batch, want>>
    BY DEF RenderRuns
  <1>2. pool'.mem = pool.mem BY RenderStep
  <1>3. queue \in Seq(Renders) BY DEF BufInv, QueueTypes
  <1>4. \A k \in DOMAIN queue' : k + 1 \in DOMAIN queue /\ queue'[k] = queue[k + 1]
    BY <1>1, <1>3, HeadTail
  <1>5. AllDraws' \subseteq AllDraws BY <1>1, <1>4 DEF AllDraws
  <1>6. Lies' BY <1>1, <1>4 DEF KeptInv, Lies
  <1> QED BY <1>1, <1>2, <1>5, <1>6, FewerDraws

(* Every step keeps the second invariant. *)
LEMMA KeptNext ==
    Private /\ TexturesGet /\ BufInv /\ KeptInv /\ [BuffersNext]_bufferVars => KeptInv'
  <1> SUFFICES ASSUME Private, TexturesGet, BufInv, KeptInv, [BuffersNext]_bufferVars
               PROVE  KeptInv'
    OBVIOUS
  <1>1. ASSUME NEW c \in Ctxs, Add(c) PROVE KeptInv' BY <1>1, AddKept
  <1>2. ASSUME NEW c \in Ctxs, Submit(c) PROVE KeptInv' BY <1>2, SubmitKept
  <1>3. ASSUME NEW c \in Ctxs, Mark(c) PROVE KeptInv' BY <1>3, MarkKept
  <1>4. ASSUME NEW c \in Ctxs, SubmitFails(c) PROVE KeptInv' BY <1>4, SubmitFailsKept
  <1>5. ASSUME NEW c \in Ctxs, NEW r \in Res,
               \/ WriteAll(c, r) \/ Map(c, r) \/ Unmap(c, r)
               \/ \E p \in Parts : Write(c, r, p) \/ WriteUnsync(c, r, p) \/ Poke(c, r, p)
        PROVE  KeptInv'
    <2>1. BufInv' BY <1>5, AppSteps
    <2> QED BY <1>5, <2>1, AppStepsKept
  <1>6. ASSUME NEW c \in Ctxs, NEW r \in Res, r \in Uses[c], GetTexture(c, r) PROVE KeptInv'
    BY <1>6, GetTextureKept
  <1>7. ASSUME NEW c \in Ctxs, NEW r \in Res, r \in Uses[c], NEW parts \in Reads,
               GetBuffer(c, r, parts)
        PROVE  KeptInv'
    BY <1>7, GetBufferKept
  <1>8. CASE RenderRuns BY <1>8, RenderKept
  <1>9. CASE UNCHANGED bufferVars
    <2>1. AllDraws' \subseteq AllDraws /\ Lies' BY <1>9 DEF bufferVars, AllDraws, KeptInv, Lies
    <2> QED BY <1>9, <2>1, FewerDraws DEF bufferVars
  <1> QED BY <1>1, <1>2, <1>3, <1>4, <1>5, <1>6, <1>7, <1>8, <1>9 DEF BuffersNext, BuffersStep

(* The inductive invariant of the promise. *)
THEOREM DrawsInvariance == Private /\ TexturesGet /\ BuffersSpec => [](BufInv /\ KeptInv)
  <1> SUFFICES ASSUME Private, TexturesGet PROVE BuffersSpec => [](BufInv /\ KeptInv) OBVIOUS
  <1>1. BuffersInit => BufInv /\ KeptInv BY BufInit, KeptInit
  <1>2. BufInv /\ KeptInv /\ [BuffersNext]_bufferVars => (BufInv /\ KeptInv)'
    BY BufNext, KeptNext
  <1> QED BY <1>1, <1>2, PTL DEF BuffersSpec

(* The views of a batch's draws, those of the queue's renders.             *)
Saw == [d \in DrawsMade |-> d.saw]
RenderSaws == [r \in Renders |-> Saws(r.draws)]
Gathered == [c \in Ctxs |-> Saws(batch[c].draws)]
Sent == [i \in DOMAIN queue |-> Saws(queue[i].draws)]

(* The views of draws are views. *)
LEMMA SawsAre ==
    ASSUME NEW ds \in Seq(DrawsMade)
    PROVE  Saws(ds) = Image(Saw, ds) /\ Saws(ds) \in Seq(Views)
  <1>1. \A i \in DOMAIN ds : ds[i] \in DrawsMade BY InRange
  <1>2. Saws(ds) = Image(Saw, ds) BY <1>1 DEF Saws, Image, Saw
  <1>3. Saw \in [DrawsMade -> Views] BY DEF Saw, DrawsMade
  <1> QED BY <1>2, <1>3, Images DEF IsImage

(* One draw more. *)
LEMMA SawsAppended ==
    ASSUME NEW ds \in Seq(DrawsMade), NEW d \in DrawsMade
    PROVE  Saws(Append(ds, d)) = Append(Saws(ds), d.saw)
  <1>1. Saw \in [DrawsMade -> Views] /\ Saw[d] = d.saw BY DEF Saw, DrawsMade
  <1>2. Append(ds, d) \in Seq(DrawsMade) BY Appended
  <1>3. Image(Saw, Append(ds, d)) = Append(Image(Saw, ds), Saw[d]) BY <1>1, ImageAppended
  <1>4. Saws(Append(ds, d)) = Image(Saw, Append(ds, d)) BY <1>2, SawsAre
  <1>5. Saws(ds) = Image(Saw, ds) BY SawsAre
  <1> QED BY <1>1, <1>3, <1>4, <1>5

(* No draw. *)
LEMMA NoSaws == Saws(<<>>) = <<>>
  BY DEF Saws

(* The views of renders. *)
LEMMA RenderSawsAre == RenderSaws \in [Renders -> Seq(Views)]
  BY SawsAre DEF RenderSaws, Renders

(* The views of the queue. *)
LEMMA SentIs ==
    ASSUME NEW q \in Seq(Renders)
    PROVE  [i \in DOMAIN q |-> Saws(q[i].draws)] = Image(RenderSaws, q)
  <1>1. \A i \in DOMAIN q : q[i] \in Renders BY InRange
  <1> QED BY <1>1 DEF Image, RenderSaws

(* No draw is made, none is sent. *)
LEMMA SameDraws ==
    ASSUME UNCHANGED <<batch, queue>>
    PROVE  Gathered' = Gathered /\ Sent' = Sent
  BY DEF Gathered, Sent, Saws

(* A step of the driver alone: what ran is over. *)
LEMMA OverStep ==
    ASSUME shown' = <<>>, UNCHANGED <<data, batch, queue>>
    PROVE  Draws!Over
  <1>1. Gathered' = Gathered /\ Sent' = Sent BY SameDraws
  <1> QED BY <1>1 DEF Draws!Over, Gathered, Sent

(* The application writes. *)
LEMMA ChangeStep ==
    ASSUME BufInv, NEW r \in Res, NEW parts \in SUBSET Parts, Change(r, parts), shown' = <<>>,
           UNCHANGED <<batch, queue>>
    PROVE  Draws!Change(r)
  <1>1. data' \in [Res -> Contents] /\ data \in [Res -> Contents]
    BY ChangeTypes DEF BufInv, ResourceTypes
  <1>2. data' = [data EXCEPT ![r] = data'[r]] BY <1>1 DEF Change
  <1>3. data'[r] \in [Parts -> 0..MaxWrites] BY <1>1 DEF Contents
  <1>4. Gathered' = Gathered /\ Sent' = Sent BY SameDraws
  <1> QED BY <1>2, <1>3, <1>4 DEF Draws!Change, Gathered, Sent

(* The driver's copies are its own affair. *)
LEMMA GetIsOver ==
    ASSUME NEW c \in Ctxs, NEW r \in Res,
           GetTexture(c, r) \/ \E parts \in Reads : GetBuffer(c, r, parts)
    PROVE  Draws!Over
  <1>1. ASSUME NEW parts, NEW p, NEW fields, NEW out, NEW range,
               Bring(c, r, parts, p, fields, out, range)
        PROVE  Draws!Over
    BY <1>1, OverStep DEF Bring
  <1>2. ASSUME NEW p, NEW fields, NoCopy(r, p, fields) PROVE Draws!Over
    BY <1>2, OverStep DEF NoCopy
  <1>3. CASE GetTexture(c, r)
    <2>1. CASE CopyTexture(c, r) BY <1>1, <1>2, <2>1 DEF CopyTexture
    <2>2. CASE ~CopyTexture(c, r)
      <3>1. Bring(c, r, Parts, pool, copy[r], data[r], {}) BY <1>3, <2>2 DEF GetTexture
      <3> QED BY <1>1, <3>1
    <2> QED BY <2>1, <2>2
  <1>4. ASSUME NEW parts \in Reads, GetBuffer(c, r, parts) PROVE Draws!Over
    <2>1. BufferBo(c, r, parts) BY <1>4 DEF GetBuffer
    <2> QED BY <1>1, <1>2, <2>1 DEF BufferBo
  <1> QED BY <1>3, <1>4

(* A draw is made. *)
LEMMA DrawStep ==
    ASSUME BufInv, NEW c \in Ctxs, Add(c)
    PROVE  Draws!Draw(c, want[c].res) /\ want[c].res \in Res
  <1>1. PICK d \in DrawsMade :
            /\ d.res = want[c].res
            /\ d.saw = [p \in want[c].parts |-> data[want[c].res][p]]
            /\ batch'[c].draws = Append(batch[c].draws, d)
    BY AddStep
  <1>9. \A a \in Ctxs \ {c} : batch'[a] = batch[a] BY AddStep
  <1>2. want[c] # None /\ shown' = <<>> /\ UNCHANGED <<data, queue>> BY DEF Add
  <1>3. want[c].parts \in SUBSET Parts /\ want[c].res \in Res BY <1>2, WantIs DEF Wants
  <1>4. batch[c].draws \in Seq(DrawsMade) BY DrawsThere
  <1>5. Saws(batch'[c].draws) = Append(Saws(batch[c].draws), d.saw) BY <1>1, <1>4, SawsAppended
  <1>6. Gathered' = [Gathered EXCEPT ![c] = Append(Gathered[c], d.saw)]
    <2>1. Gathered' = [a \in Ctxs |-> Saws(batch'[a].draws)] BY DEF Gathered, Saws
    <2>2. Gathered[c] = Saws(batch[c].draws) BY DEF Gathered
    <2> QED BY <1>5, <1>9, <2>1, <2>2 DEF Gathered
  <1>7. Sent' = Sent BY <1>2 DEF Sent, Saws
  <1>8. d.saw = Draws!View(want[c].res, want[c].parts) BY <1>1 DEF Draws!View
  <1> QED BY <1>2, <1>3, <1>6, <1>7, <1>8 DEF Draws!Draw, Gathered, Sent

(* A flush empties the batch. *)
LEMMA FlushGathered ==
    ASSUME BufInv, NEW c \in Ctxs, batch' = [batch EXCEPT ![c] = NewBatch]
    PROVE  Gathered' = [Gathered EXCEPT ![c] = <<>>]
  <1>1. DOMAIN batch = Ctxs BY DEF BufInv, BatchTypes
  <1>2. Saws(batch'[c].draws) = <<>> BY <1>1, NoSaws DEF NewBatch
  <1>3. Gathered' = [a \in Ctxs |-> Saws(batch'[a].draws)] BY DEF Gathered, Saws
  <1> QED BY <1>1, <1>2, <1>3 DEF Gathered

(* A flush sends the draws. *)
LEMMA SendStep ==
    ASSUME BufInv, NEW c \in Ctxs, Submit(c)
    PROVE  Draws!Send(c)
  <1> DEFINE render == [ctx |-> c, draws |-> batch[c].draws, bos |-> batch[c].bos]
  <1>1. /\ queue' = Append(queue, render) /\ batch' = [batch EXCEPT ![c] = NewBatch]
        /\ shown' = <<>> /\ UNCHANGED data
    BY DEF Submit
  <1>2. queue \in Seq(Renders) /\ render \in Renders BY BatchIs DEF BufInv, QueueTypes, Renders
  <1>3. RenderSaws[render] = Gathered[c] BY <1>2 DEF RenderSaws, Gathered
  <1> HIDE DEF render
  <1>4. Append(queue, render) \in Seq(Renders) BY <1>2, Appended
  <1>5. Image(RenderSaws, Append(queue, render)) = Append(Image(RenderSaws, queue), RenderSaws[render])
    BY <1>2, RenderSawsAre, ImageAppended
  <1>6. Sent = Image(RenderSaws, queue) BY <1>2, SentIs DEF Sent
  <1>7. Sent' = Image(RenderSaws, Append(queue, render))
    <2>1. Sent' = [i \in DOMAIN queue' |-> Saws(queue'[i].draws)] BY DEF Sent, Saws
    <2> QED BY <1>1, <1>4, <2>1, SentIs
  <1>8. Sent' = Append(Sent, Gathered[c]) BY <1>3, <1>5, <1>6, <1>7
  <1>9. Gathered' = [Gathered EXCEPT ![c] = <<>>] BY <1>1, FlushGathered
  <1> QED BY <1>1, <1>8, <1>9 DEF Draws!Send, Gathered, Sent

(* A refused flush loses them. *)
LEMMA LoseStep ==
    ASSUME BufInv, NEW c \in Ctxs, SubmitFails(c)
    PROVE  Draws!Lose(c)
  <1>1. /\ batch' = [batch EXCEPT ![c] = NewBatch]
        /\ shown' = <<>> /\ UNCHANGED <<data, queue>>
    BY DEF SubmitFails
  <1>2. Gathered' = [Gathered EXCEPT ![c] = <<>>] BY <1>1, FlushGathered
  <1>3. Sent' = Sent BY <1>1 DEF Sent, Saws
  <1> QED BY <1>1, <1>2, <1>3 DEF Draws!Lose, Gathered, Sent

(* The render that runs finds in the memory what its draws are to show.    *)
LEMMA ShowStep ==
    ASSUME BufInv, KeptInv, RenderRuns
    PROVE  Draws!Show
  <1> DEFINE ds == Head(queue).draws
  <1>1. /\ queue # <<>> /\ queue' = Tail(queue) /\ UNCHANGED <<data, batch>>
        /\ shown' = [i \in DOMAIN ds |-> [p \in DOMAIN ds[i].saw |-> pool.mem[ds[i].bo][p]]]
    BY DEF RenderRuns
  <1>2. queue \in Seq(Renders) BY DEF BufInv, QueueTypes
  <1>3. /\ Head(queue) \in Renders /\ Head(queue) = queue[1] /\ 1 \in DOMAIN queue
        /\ Tail(queue) \in Seq(Renders)
    BY <1>1, <1>2, HeadTail
  <1>4. ds \in Seq(DrawsMade) BY <1>3 DEF Renders
  <1>5. \A i \in DOMAIN ds : ds[i] \in DrawsMade /\ ds[i] \in Range(ds)
    BY <1>4, InRange DEF Range
  <1>6. \A i \in DOMAIN ds : ds[i] \in AllDraws BY <1>3, <1>5 DEF AllDraws
  <1>7. \A i \in DOMAIN ds : [p \in DOMAIN ds[i].saw |-> pool.mem[ds[i].bo][p]] = ds[i].saw
    <2> TAKE i \in DOMAIN ds
    <2>1. \A p \in DOMAIN ds[i].saw : pool.mem[ds[i].bo][p] = ds[i].saw[p]
      BY <1>6 DEF KeptInv, Sees
    <2>2. ds[i].saw \in Views BY <1>5 DEF DrawsMade
    <2>3. PICK parts \in SUBSET Parts : ds[i].saw \in [parts -> 0..MaxWrites] BY <2>2 DEF Views
    <2> HIDE DEF ds
    <2> QED BY <2>1, <2>3
  <1>8. shown' = Saws(ds) BY <1>1, <1>7 DEF Saws
  <1>9. Sent = Image(RenderSaws, queue) BY <1>2, SentIs DEF Sent
  <1>10. Sent' = Image(RenderSaws, Tail(queue))
    <2>1. Sent' = [i \in DOMAIN queue' |-> Saws(queue'[i].draws)] BY DEF Sent, Saws
    <2> QED BY <1>1, <1>3, <2>1, SentIs
  <1>11. Sent' = Tail(Sent) /\ Sent # <<>> /\ Head(Sent) = RenderSaws[Head(queue)]
    <2>1. RenderSaws \in [Renders -> Seq(Views)] BY RenderSawsAre
    <2>2. TailImage(RenderSaws, queue) BY <1>1, <1>2, <2>1, ImageTail
    <2> QED BY <1>9, <1>10, <2>2 DEF TailImage
  <1>12. RenderSaws[Head(queue)] = Saws(ds) BY <1>3 DEF RenderSaws
  <1>13. Gathered' = Gathered BY <1>1 DEF Gathered, Saws
  <1> QED BY <1>1, <1>8, <1>11, <1>12, <1>13 DEF Draws!Show, Gathered, Sent

(* Every step is one of the promise's, or none. *)
LEMMA PromiseStep ==
    BufInv /\ KeptInv /\ [BuffersNext]_bufferVars => [Draws!Next]_(Draws!vars)
  <1> SUFFICES ASSUME BufInv, KeptInv, [BuffersNext]_bufferVars
               PROVE  Draws!Next \/ UNCHANGED Draws!vars
    OBVIOUS
  <1>1. ASSUME NEW c \in Ctxs, Add(c) PROVE Draws!Next BY <1>1, DrawStep DEF Draws!Next
  <1>2. ASSUME NEW c \in Ctxs, Submit(c) PROVE Draws!Next BY <1>2, SendStep DEF Draws!Next
  <1>3. ASSUME NEW c \in Ctxs, SubmitFails(c) PROVE Draws!Next BY <1>3, LoseStep DEF Draws!Next
  <1>4. ASSUME NEW c \in Ctxs, Mark(c) PROVE Draws!Next
    BY <1>4, OverStep DEF Mark, LetsGo, Draws!Next
  <1>5. ASSUME NEW c \in Ctxs, NEW r \in Res,
               \/ WriteAll(c, r)
               \/ \E p \in Parts : Write(c, r, p) \/ WriteUnsync(c, r, p) \/ Poke(c, r, p)
        PROVE  Draws!Next
    <2>1. \E parts \in SUBSET Parts : Change(r, parts)
      BY <1>5 DEF WriteAll, Write, WriteUnsync, Poke
    <2>2. shown' = <<>> /\ UNCHANGED <<batch, queue>>
      BY <1>5 DEF WriteAll, Write, WriteUnsync, Poke
    <2> QED BY <2>1, <2>2, ChangeStep DEF Draws!Next
  <1>6. ASSUME NEW c \in Ctxs, NEW r \in Res, Map(c, r) \/ Unmap(c, r) PROVE Draws!Next
    BY <1>6, OverStep DEF Map, Unmap, Draws!Next
  <1>7. ASSUME NEW c \in Ctxs, NEW r \in Res,
               GetTexture(c, r) \/ \E parts \in Reads : GetBuffer(c, r, parts)
        PROVE  Draws!Next
    BY <1>7, GetIsOver DEF Draws!Next
  <1>8. CASE RenderRuns BY <1>8, ShowStep DEF Draws!Next
  <1>9. CASE UNCHANGED bufferVars
    <2>1. Gathered' = Gathered /\ Sent' = Sent BY <1>9, SameDraws DEF bufferVars
    <2> QED BY <1>9, <2>1 DEF bufferVars, Draws!vars, Gathered, Sent
  <1> QED BY <1>1, <1>2, <1>3, <1>4, <1>5, <1>6, <1>7, <1>8, <1>9 DEF BuffersNext, BuffersStep

(* The driver implements SgxDraws: however late a render runs, and         *)
(* whatever was written, let go of or handed out again since, it shows     *)
(* each draw what the resource held when the draw was made.                *)
THEOREM DrawsAreKept == Private /\ TexturesGet /\ BuffersSpec => DrawsKept
  <1> SUFFICES ASSUME Private, TexturesGet PROVE BuffersSpec => DrawsKept OBVIOUS
  <1>1. BuffersInit => Draws!Init
    <2> SUFFICES ASSUME BuffersInit PROVE Draws!Init OBVIOUS
    <2>1. data \in [Res -> [Parts -> 0..MaxWrites]]
      BY BufInit DEF BufInv, ResourceTypes, Contents
    <2>2. [c \in Ctxs |-> Saws(batch[c].draws)] = [c \in Ctxs |-> <<>>]
      BY NoSaws DEF BuffersInit, NewBatch
    <2>3. [i \in DOMAIN queue |-> Saws(queue[i].draws)] = <<>> BY DEF BuffersInit
    <2> QED BY <2>1, <2>2, <2>3 DEF BuffersInit, Draws!Init
  <1>2. BufInv /\ KeptInv /\ [BuffersNext]_bufferVars => [Draws!Next]_(Draws!vars)
    BY PromiseStep
  <1>3. BuffersSpec => [](BufInv /\ KeptInv) BY DrawsInvariance
  <1> QED BY <1>1, <1>2, <1>3, PTL DEF BuffersSpec, DrawsKept, Draws!Spec
=============================================================================
