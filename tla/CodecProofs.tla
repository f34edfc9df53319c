---------------------------- MODULE CodecProofs ----------------------------
(***************************************************************************)
(* What is put into a netlink attribute or packet is what is read out of it: *)
(* lemmas on the byte layouts of NL80211Attr, for every id, length and list. *)
(* A buffer Holds attributes if it is their bytes, one after the other; that *)
(* is what construction establishes (HoldsAppend, NestHolds) and all that    *)
(* reading needs (AttributesAreRead).  Loops are recursive functions: that   *)
(* such a function exists (Recursion) and what it computes (Induction) rests *)
(* on the least element of a set of numbers.  On top of that, what wificond  *)
(* reads out of the kernel's replies is what the kernel wrote into them:     *)
(* the station (StationIsReadAsWritten), the BSSs of a scan dump             *)
(* (ScanDumpIsReadAsWritten), country and protocol features.                 *)
(***************************************************************************)
EXTENDS KernelReplies, SequenceTheorems, NaturalsInduction, WellFoundedInduction, TLAPS

(* A set of numbers has a least one.                                        *)
LEMMA LeastNumber ==
    ASSUME NEW S \in SUBSET Nat, S # {}
    PROVE  \E x \in S : \A y \in S : x <= y
<1> DEFINE R == OpToRel(<, Nat)
<1>1. IsWellFoundedOn(R, Nat)
  BY NatLessThanWellFounded, Zenon
<1>2. \A x, y \in Nat : y < x => <<y, x>> \in R
  BY DEF OpToRel
<1> HIDE DEF R
<1>3. PICK x \in S : \A y \in S : ~(<<y, x>> \in R)
  BY <1>1, WFMin
<1>4. ASSUME NEW y \in S PROVE x <= y
  <2>1. x \in Nat /\ y \in Nat /\ ~(y < x)
    BY <1>2, <1>3
  <2> QED
    BY <2>1
<1> QED
  BY <1>3, <1>4

(* Induction up to a bound, with the numbers for which the claim holds as a *)
(* set.                                                                     *)
LEMMA Induction ==
    ASSUME NEW n \in Nat, NEW S, 0 \in S, \A k \in 0 .. n - 1 : k \in S => k + 1 \in S
    PROVE  \A k \in 0 .. n : k \in S
<1> DEFINE bad == {k \in 0..n : k \notin S}
<1>1. SUFFICES ASSUME bad # {} PROVE FALSE
  OBVIOUS
<1>2. bad \in SUBSET Nat
  OBVIOUS
<1>3. PICK k \in bad : \A j \in bad : k <= j
  BY <1>1, <1>2, LeastNumber
<1>4. k # 0 /\ k \in 0..n /\ k \notin S
  OBVIOUS
<1>5. k - 1 \in 0..(n - 1) /\ k - 1 \notin bad
  BY <1>3, <1>4
<1>6. k - 1 \in S
  BY <1>5
<1>7. (k - 1) + 1 \in S
  BY <1>5, <1>6
<1> QED
  BY <1>4, <1>7

\* The run of a loop that starts with base and takes n steps.
IsRun(f, n, A, base, step) ==
    /\ f \in [0 .. n -> A]
    /\ f[0] = base
    /\ \A k \in 1 .. n : f[k] = step[<<f[k - 1], k>>]

(* A loop that steps within a set has a run.                                *)
LEMMA Recursion ==
    ASSUME NEW n \in Nat, NEW A, NEW base \in A, NEW step \in [A \X (1..n) -> A]
    PROVE  \E f : IsRun(f, n, A, base, step)
<1> DEFINE Good(f, m) == /\ f \in [0..n -> A]
                         /\ f[0] = base
                         /\ \A k \in 1..m : f[k] = step[<<f[k - 1], k>>]
<1> DEFINE S == {m \in 0..n : \E f : Good(f, m)}
<1>1. 0 \in S
  <2>1. Good([k \in 0..n |-> base], 0)
    OBVIOUS
  <2> HIDE DEF Good
  <2> QED
    BY <2>1
<1>2. ASSUME NEW m \in 0..(n - 1), m \in S PROVE m + 1 \in S
  <2>1. PICK f : Good(f, m)
    BY <1>2
  <2>2. m \in 0..n /\ m + 1 \in 0..n /\ m + 1 \in 1..n /\ f[m] \in A
    BY <2>1
  <2>3. step[<<f[m], m + 1>>] \in A
    BY <2>2
  <2> DEFINE g == [f EXCEPT ![m + 1] = step[<<f[m], m + 1>>]]
  <2>4. g \in [0..n -> A]
    BY <2>1, <2>3
  <2>5. g[m + 1] = step[<<f[m], m + 1>>] /\ \A k \in 0..m : g[k] = f[k]
    BY <2>1, <2>2
  <2> HIDE DEF g
  <2>6. ASSUME NEW k \in 1..(m + 1) PROVE g[k] = step[<<g[k - 1], k>>]
    <3>1. CASE k = m + 1
      <4>1. k - 1 = m /\ m \in 0..m
        BY <3>1
      <4> QED
        BY <2>5, <3>1, <4>1
    <3>2. CASE k # m + 1
      <4>1. k \in 1..m /\ k - 1 \in 0..m /\ k \in 0..m
        BY <3>2
      <4> QED
        BY <2>1, <2>5, <4>1
    <3> QED
      BY <3>1, <3>2
  <2>7. g[0] = base
    BY <2>1, <2>5
  <2>8. Good(g, m + 1)
    BY <2>4, <2>6, <2>7
  <2> QED
    BY <2>2, <2>8
<1> HIDE DEF S
<1>3. n \in S
  BY <1>1, <1>2, Induction
<1> QED
  BY <1>3 DEF S, IsRun

-----------------------------------------------------------------------------
(* Sequences: the elements of a concatenation and of a part.                *)
LEMMA Joined ==
    ASSUME NEW T, NEW s \in Seq(T), NEW t \in Seq(T)
    PROVE  /\ s \o t \in Seq(T) /\ Len(s \o t) = Len(s) + Len(t)
           /\ \A i \in 1..Len(s) : (s \o t)[i] = s[i]
           /\ \A j \in 1..Len(t) : (s \o t)[Len(s) + j] = t[j]
<1>1. PICK m \in Nat : m = Len(s)
  OBVIOUS
<1>2. PICK n \in Nat : n = Len(t)
  OBVIOUS
<1>3. PICK u : u = s \o t
  OBVIOUS
<1>4. /\ u \in Seq(T) /\ Len(u) = m + n
      /\ \A i \in 1..(m + n) : u[i] = IF i <= m THEN s[i] ELSE t[i - m]
  BY <1>1, <1>2, <1>3, ConcatProperties
<1>5. ASSUME NEW i \in 1..m PROVE u[i] = s[i]
  <2>1. i \in 1..(m + n) /\ i <= m
    OBVIOUS
  <2> QED
    BY <1>4, <2>1
<1>6. ASSUME NEW j \in 1..n PROVE u[m + j] = t[j]
  <2>1. m + j \in 1..(m + n) /\ ~(m + j <= m) /\ (m + j) - m = j
    OBVIOUS
  <2> QED
    BY <1>4, <2>1
<1> QED
  BY <1>1, <1>2, <1>3, <1>4, <1>5, <1>6

LEMMA PartIs ==
    ASSUME NEW T, NEW s \in Seq(T), NEW t \in Seq(T), NEW p \in Nat, NEW n \in Nat,
           Len(t) = n, p + n <= Len(s), \A j \in 1..n : s[p + j] = t[j]
    PROVE  SubSeq(s, p + 1, p + n) = t
<1>1. PICK m \in Nat : m = Len(s)
  OBVIOUS
<1>2. PICK u : u = SubSeq(s, p + 1, p + n)
  BY Zenon
<1>3. p + 1 \in 1..(m + 1) /\ p + n \in (p + 1) - 1 .. m
  BY <1>1
<1>4. /\ u \in Seq(T)
      /\ Len(u) = IF p + 1 <= p + n THEN (p + n) - (p + 1) + 1 ELSE 0
      /\ \A i \in 1..((p + n) - (p + 1) + 1) : u[i] = s[(p + 1) + i - 1]
  BY <1>1, <1>2, <1>3, SubSeqProperties
<1>5. Len(u) = n /\ (p + n) - (p + 1) + 1 = n
  BY <1>4
<1>6. ASSUME NEW j \in 1..n PROVE u[j] = t[j]
  <2>1. (p + 1) + j - 1 = p + j
    OBVIOUS
  <2> QED
    BY <1>4, <1>5, <2>1
<1>7. u = t
  BY <1>4, <1>5, <1>6, SeqEqual
<1> QED
  BY <1>2, <1>7

-----------------------------------------------------------------------------
(* Attributes and the buffers that hold them *)

Attr == {a \in Seq(Byte) : IsValid(a)}

\* The attribute attrs[k] is in the buffer from pos[k - 1] + 1 to pos[k].
Layout(buf, attrs, pos) ==
    /\ pos \in [0 .. Len(attrs) -> Nat]
    /\ pos[0] = 0
    /\ pos[Len(attrs)] = Len(buf)
    /\ \A k \in 1 .. Len(attrs) : /\ pos[k] = pos[k - 1] + Len(attrs[k])
                               /\ 4 * k <= pos[k]
                               /\ pos[k] <= Len(buf)
    /\ \A k \in 1 .. Len(attrs) : \A j \in 1 .. Len(attrs[k]) : buf[pos[k - 1] + j] = attrs[k][j]

Holds(buf, attrs) ==
    /\ buf \in Seq(Byte)
    /\ attrs \in Seq(Attr)
    /\ \E pos : Layout(buf, attrs, pos)

LEMMA AttrIsAligned ==
    ASSUME NEW a \in Attr
    PROVE  /\ a \in Seq(Byte) /\ Len(a) \in Nat /\ Len(a) >= 4
           /\ a[1] \in Byte /\ a[2] \in Byte /\ a[3] \in Byte /\ a[4] \in Byte
           /\ nla_len(a, 1) \in Nat
           /\ NLA_ALIGN(nla_len(a, 1)) = Len(a)
           /\ nla_len(a, 1) <= Len(a) /\ nla_len(a, 1) >= 1
<1>1. /\ a \in Seq(Byte) /\ Len(a) \in Nat /\ Len(a) >= 4
      /\ NLA_ALIGN(nla_len(a, 1)) = Len(a)
  BY DEF Attr, IsValid, NLA_HDRLEN
<1>2. a[1] \in Byte /\ a[2] \in Byte /\ a[3] \in Byte /\ a[4] \in Byte
  BY <1>1
<1>3. nla_len(a, 1) \in Nat
  <2>1. PICK x \in 0..255, y \in 0..255 : x = a[1] /\ y = a[2]
    BY <1>2 DEF Byte
  <2>2. nla_len(a, 1) = x + 256 * y
    BY <2>1 DEF nla_len
  <2> QED
    BY <2>2
<1>4. nla_len(a, 1) <= Len(a) /\ nla_len(a, 1) >= 1
  BY <1>1, <1>3 DEF NLA_ALIGN
<1> QED
  BY <1>1, <1>2, <1>3, <1>4

LEMMA HoldsEmpty == Holds(<<>>, <<>>)
<1>1. Layout(<<>>, <<>>, [k \in 0..0 |-> 0])
  BY DEF Layout
<1> QED
  BY <1>1 DEF Holds

(* An attribute is added at the end.                                        *)
LEMMA HoldsAppend ==
    ASSUME NEW buf, NEW attrs, Holds(buf, attrs), NEW a \in Attr
    PROVE  Holds(buf \o a, Append(attrs, a))
<1> DEFINE n == Len(attrs)
<1> DEFINE new == buf \o a
<1> DEFINE bs == Append(attrs, a)
<1>1. PICK pos : Layout(buf, attrs, pos)
  BY DEF Holds
<1>2. buf \in Seq(Byte) /\ attrs \in Seq(Attr) /\ n \in Nat /\ Len(buf) \in Nat
  BY DEF Holds
<1>3. a \in Seq(Byte) /\ Len(a) \in Nat /\ Len(a) >= 4
  BY AttrIsAligned
<1>4. /\ new \in Seq(Byte) /\ Len(new) = Len(buf) + Len(a)
      /\ \A i \in 1..Len(buf) : new[i] = buf[i]
      /\ \A j \in 1..Len(a) : new[Len(buf) + j] = a[j]
  BY <1>2, <1>3, Joined
<1>5. /\ bs \in Seq(Attr) /\ Len(bs) = n + 1
      /\ \A k \in 1..n : bs[k] = attrs[k]
      /\ bs[n + 1] = a
  BY <1>2, AppendProperties
<1> HIDE DEF new, bs
<1> DEFINE p == [k \in 0..(n + 1) |-> IF k <= n THEN pos[k] ELSE Len(new)]
<1>6. /\ pos \in [0..n -> Nat] /\ pos[0] = 0 /\ pos[n] = Len(buf)
      /\ \A k \in 1..n : /\ pos[k] = pos[k - 1] + Len(attrs[k])
                         /\ 4 * k <= pos[k]
                         /\ pos[k] <= Len(buf)
      /\ \A k \in 1..n : \A j \in 1..Len(attrs[k]) : buf[pos[k - 1] + j] = attrs[k][j]
  BY <1>1 DEF Layout
<1>7. p \in [0..(n + 1) -> Nat] /\ p[0] = 0 /\ p[n + 1] = Len(new)
  BY <1>2, <1>3, <1>4, <1>6
<1>8. \A k \in 0..n : p[k] = pos[k]
  BY <1>2
<1> HIDE DEF p
<1>9. 4 * n <= pos[n]
  BY <1>2, <1>6
<1>10. ASSUME NEW k \in 1..(n + 1)
       PROVE  p[k] = p[k - 1] + Len(bs[k]) /\ 4 * k <= p[k] /\ p[k] <= Len(new)
  <2>1. CASE k = n + 1
    <3>1. k - 1 = n /\ n \in 0..n
      BY <1>2, <2>1
    <3>2. p[k - 1] = Len(buf) /\ p[k] = Len(buf) + Len(a) /\ bs[k] = a
      BY <1>4, <1>5, <1>6, <1>7, <1>8, <2>1, <3>1
    <3> QED
      BY <1>2, <1>3, <1>4, <1>6, <1>9, <2>1, <3>2
  <2>2. CASE k # n + 1
    <3>1. k \in 1..n /\ k \in 0..n /\ k - 1 \in 0..n
      BY <1>2, <2>2
    <3>2. p[k] = pos[k] /\ p[k - 1] = pos[k - 1] /\ bs[k] = attrs[k]
      BY <1>5, <1>8, <3>1
    <3>3. pos[k] = pos[k - 1] + Len(attrs[k]) /\ 4 * k <= pos[k] /\ pos[k] <= Len(buf)
      BY <1>6, <3>1, Zenon
    <3>4. Len(buf) <= Len(new) /\ Len(new) \in Nat
      BY <1>2, <1>3, <1>4
    <3>5. pos[k] \in Nat
      BY <1>6, <3>1
    <3>6. pos[k] <= Len(new)
      BY <1>2, <3>3, <3>4, <3>5
    <3> QED
      BY <3>2, <3>3, <3>6, Zenon
  <2> QED
    BY <2>1, <2>2
<1>11. ASSUME NEW k \in 1..(n + 1), NEW j, j \in 1..Len(bs[k])
       PROVE  new[p[k - 1] + j] = bs[k][j]
  <2>1. CASE k = n + 1
    <3>1. k - 1 = n /\ n \in 0..n
      BY <1>2, <2>1
    <3>2. p[k - 1] = Len(buf) /\ bs[k] = a
      BY <1>5, <1>6, <1>8, <2>1, <3>1
    <3> QED
      BY <1>4, <1>11, <3>2
  <2>2. CASE k # n + 1
    <3>1. k \in 1..n /\ k \in 0..n /\ k - 1 \in 0..n
      BY <1>2, <2>2
    <3>2. p[k - 1] = pos[k - 1] /\ bs[k] = attrs[k] /\ j \in 1..Len(attrs[k])
      BY <1>5, <1>8, <1>11, <3>1
    <3>3. attrs[k] \in Attr
      BY <1>2, <3>1
    <3>4. Len(attrs[k]) \in Nat
      BY <3>3, AttrIsAligned
    <3>5. /\ pos[k - 1] \in Nat /\ pos[k] = pos[k - 1] + Len(attrs[k]) /\ pos[k] <= Len(buf)
      BY <1>6, <3>1
    <3>6. pos[k - 1] + j \in 1..Len(buf)
      BY <1>2, <3>2, <3>5, <3>4
    <3>7. new[pos[k - 1] + j] = buf[pos[k - 1] + j]
      BY <1>4, <3>6
    <3>8. buf[pos[k - 1] + j] = attrs[k][j]
      BY <1>6, <3>1, <3>2
    <3> QED
      BY <3>2, <3>7, <3>8
  <2> QED
    BY <2>1, <2>2
<1>12. Layout(new, bs, p)
  BY <1>5, <1>7, <1>10, <1>11 DEF Layout
<1>13. new \in Seq(Byte)
  BY <1>4
<1> QED
  BY <1>5, <1>12, <1>13 DEF Holds, new, bs

LEMMA MinOfTwo ==
    ASSUME NEW x \in Int, NEW y \in Int, x <= y
    PROVE  Min({x, y}) = x
<1>1. \A z \in {x, y} : x <= z
  OBVIOUS
<1>2. \A w \in {x, y} : (\A z \in {x, y} : w <= z) => w = x
  OBVIOUS
<1> QED
  BY <1>1, <1>2 DEF Min

LEMMA MinIsLeast ==
    ASSUME NEW S \in SUBSET Nat, NEW x \in S, \A y \in S : x <= y
    PROVE  Min(S) = x
<1>1. \A w \in S : (\A y \in S : w <= y) => w = x
  OBVIOUS
<1> QED
  BY <1>1 DEF Min

(* The attribute at its place in the buffer.                                *)
LEMMA AttributeInPlace ==
    ASSUME NEW buf \in Seq(Byte), NEW a \in Attr, NEW p \in Nat,
           p + Len(a) <= Len(buf), \A j \in 1..Len(a) : buf[p + j] = a[j]
    PROVE  /\ nla_len(buf, p + 1) = nla_len(a, 1)
           /\ SubSeq(buf, p + 1, p + Len(a)) = a
<1>1. a \in Seq(Byte) /\ Len(a) \in Nat /\ Len(a) >= 4 /\ Len(buf) \in Nat
  BY AttrIsAligned
<1>2. nla_len(buf, p + 1) = nla_len(a, 1)
  <2>1. 1 \in 1..Len(a) /\ 2 \in 1..Len(a)
    BY <1>1
  <2>2. buf[p + 1] = a[1] /\ buf[p + 2] = a[2]
    BY <2>1
  <2>3. (p + 1) + 1 = p + 2 /\ 1 + 1 = 2
    OBVIOUS
  <2> QED
    BY <2>2, <2>3 DEF nla_len
<1>3. SubSeq(buf, p + 1, p + Len(a)) = a
  BY <1>1, PartIs
<1> QED
  BY <1>2, <1>3

(* One turn of the reading loop takes the next attribute.                   *)
LEMMA TurnReads ==
    ASSUME NEW buf \in Seq(Byte), NEW a \in Attr, NEW p \in Nat, NEW read,
           p + Len(a) <= Len(buf), \A j \in 1..Len(a) : buf[p + j] = a[j]
    PROVE  NextAttribute(buf, [at |-> p + 1, attrs |-> read])
             = [at |-> p + Len(a) + 1, attrs |-> Append(read, a)]
<1>1. PICK l \in Nat : l = Len(a)
  BY AttrIsAligned
<1>2. PICK size \in Nat : size = Len(buf)
  OBVIOUS
<1>3. l >= 4 /\ p + l <= size /\ NLA_ALIGN(nla_len(a, 1)) = l
  BY <1>1, <1>2, AttrIsAligned
<1>4. PICK s : s = [at |-> p + 1, attrs |-> read]
  OBVIOUS
<1>5. s.at = p + 1 /\ s.attrs = read
  BY <1>4
<1>6. nla_len(buf, s.at) = nla_len(a, 1) /\ SubSeq(buf, p + 1, p + l) = a
  BY <1>1, <1>5, AttributeInPlace, ZenonT(60)
<1>7. s.at + NLA_ALIGN(nla_len(buf, s.at)) = p + l + 1
  BY <1>3, <1>5, <1>6
<1>8. ~(s.at + NLA_HDRLEN - 1 > Len(buf))
  BY <1>2, <1>3, <1>5 DEF NLA_HDRLEN
<1>9. Min({(p + l + 1) - 1, Len(buf)}) = p + l
  <2>1. (p + l + 1) - 1 = p + l /\ p + l \in Int /\ size \in Int
    OBVIOUS
  <2> QED
    BY <1>2, <1>3, <2>1, MinOfTwo
<1>10. NextAttribute(buf, s)
         = [at |-> p + l + 1, attrs |-> Append(read, SubSeq(buf, p + 1, p + l))]
  BY <1>5, <1>7, <1>8, <1>9 DEF NextAttribute
<1> QED
  BY <1>1, <1>4, <1>6, <1>10

LEMMA TurnStops ==
    ASSUME NEW buf \in Seq(Byte), NEW read
    PROVE  NextAttribute(buf, [at |-> Len(buf) + 1, attrs |-> read])
             = [at |-> Len(buf) + 1, attrs |-> read]
<1>1. PICK size \in Nat : size = Len(buf)
  OBVIOUS
<1>2. PICK s : s = [at |-> size + 1, attrs |-> read]
  OBVIOUS
<1>3. s.at = size + 1
  BY <1>2
<1>4. s.at + NLA_HDRLEN - 1 > Len(buf)
  BY <1>1, <1>3 DEF NLA_HDRLEN
<1> QED
  BY <1>1, <1>2, <1>4 DEF NextAttribute

LEMMA PrefixGrows ==
    ASSUME NEW T, NEW s \in Seq(T), NEW k \in 1..Len(s)
    PROVE  Append([i \in 1..(k - 1) |-> s[i]], s[k]) = [i \in 1..k |-> s[i]]
<1> DEFINE P(j) == [i \in 1..j |-> s[i]]
<1>1. Len(s) \in Nat /\ k \in Nat /\ k - 1 \in Nat /\ s[k] \in T
  OBVIOUS
<1>2. \A j \in 0..Len(s) : P(j) \in Seq(T) /\ Len(P(j)) = j
  BY <1>1
<1>3. k - 1 \in 0..Len(s) /\ k \in 0..Len(s)
  BY <1>1
<1>4. PICK a \in Seq(T) : a = P(k - 1)
  BY <1>2, <1>3
<1>5. PICK b \in Seq(T) : b = P(k)
  BY <1>2, <1>3
<1>6. /\ Len(a) = k - 1 /\ \A i \in 1..(k - 1) : a[i] = s[i]
      /\ Len(b) = k /\ \A i \in 1..k : b[i] = s[i]
  BY <1>2, <1>3, <1>4, <1>5
<1>7. /\ Append(a, s[k]) \in Seq(T) /\ Len(Append(a, s[k])) = k
      /\ \A i \in 1..(k - 1) : Append(a, s[k])[i] = a[i]
      /\ Append(a, s[k])[k] = s[k]
  BY <1>1, <1>6, AppendProperties
<1>8. \A i \in 1..k : Append(a, s[k])[i] = b[i]
  <2>1. ASSUME NEW i \in 1..k PROVE Append(a, s[k])[i] = b[i]
    <3>1. i = k \/ i \in 1..(k - 1)
      BY <1>1
    <3> QED
      BY <1>6, <1>7, <3>1
  <2> QED
    BY <2>1
<1>9. Append(a, s[k]) = b
  BY <1>6, <1>7, <1>8, SeqEqual
<1> QED
  BY <1>4, <1>5, <1>9

(* What a buffer holds is what the loops over it read, in this order.       *)
LEMMA AttributesAreRead ==
    ASSUME NEW buf, NEW attrs, Holds(buf, attrs)
    PROVE  AttributesOf(buf) = attrs
<1>1. PICK pos : Layout(buf, attrs, pos)
  BY DEF Holds
<1>2. buf \in Seq(Byte) /\ attrs \in Seq(Attr)
  BY DEF Holds
<1>3. PICK n \in Nat : n = Len(attrs)
  BY <1>2
<1>4. PICK size \in Nat : size = Len(buf)
  BY <1>2
<1>5. /\ pos \in [0..n -> Nat] /\ pos[0] = 0 /\ pos[n] = size
      /\ \A k \in 1..n : /\ pos[k] = pos[k - 1] + Len(attrs[k])
                         /\ 4 * k <= pos[k]
                         /\ pos[k] <= size
      /\ \A k \in 1..n : \A j \in 1..Len(attrs[k]) : buf[pos[k - 1] + j] = attrs[k][j]
  BY <1>1, <1>3, <1>4 DEF Layout
<1>6. PICK turns \in Nat : turns = size \div 4
  OBVIOUS
<1>7. 4 * n <= size
  BY <1>5
<1>8. n <= turns
  BY <1>6, <1>7
<1> DEFINE Upto(k) == [i \in 1..k |-> attrs[i]]
<1> DEFINE Done(k) == IF k <= n THEN k ELSE n
<1> DEFINE State(j) == [at |-> pos[j] + 1, attrs |-> Upto(j)]
<1> DEFINE W == [k \in 0..turns |-> State(Done(k))]
<1> DEFINE Step(g) == [k \in 0..turns |->
                         IF k = 0 THEN [at |-> 1, attrs |-> <<>>]
                         ELSE NextAttribute(buf, g[k - 1])]
<1> DEFINE F == CHOOSE g : g = Step(g)
<1>9. AttributesOf(buf) = F[turns].attrs
  BY <1>4, <1>6 DEF AttributesOf, NLA_HDRLEN
<1>10. State(0) = [at |-> 1, attrs |-> <<>>]
  <2>1. Upto(0) = <<>>
    OBVIOUS
  <2> QED
    BY <1>5, <2>1
<1>11. ASSUME NEW k \in 1..n PROVE NextAttribute(buf, State(k - 1)) = State(k)
  <2>1. PICK a \in Attr : a = attrs[k]
    BY <1>2, <1>3
  <2>2. k - 1 \in 0..n /\ k \in 0..n
    OBVIOUS
  <2>3. PICK p \in Nat : p = pos[k - 1]
    BY <1>5, <2>2
  <2>4. pos[k] = p + Len(a) /\ pos[k] <= size
    BY <1>5, <2>1, <2>3
  <2>5. \A j \in 1..Len(a) : buf[p + j] = a[j]
    BY <1>5, <2>1, <2>3
  <2>6. NextAttribute(buf, [at |-> p + 1, attrs |-> Upto(k - 1)])
          = [at |-> p + Len(a) + 1, attrs |-> Append(Upto(k - 1), a)]
    <3>1. p + Len(a) <= Len(buf)
      BY <1>4, <2>4
    <3> QED
      BY <1>2, <2>5, <3>1, TurnReads
  <2>7. Append(Upto(k - 1), a) = Upto(k)
    BY <1>2, <1>3, <2>1, PrefixGrows
  <2> QED
    BY <2>3, <2>4, <2>6, <2>7
<1>12. NextAttribute(buf, State(n)) = State(n)
  BY <1>2, <1>4, <1>5, TurnStops
<1> HIDE DEF State
<1>13. ASSUME NEW k \in 1..turns PROVE NextAttribute(buf, W[k - 1]) = W[k]
  <2>1. k - 1 \in 0..turns /\ k \in 0..turns
    OBVIOUS
  <2>2. W[k - 1] = State(Done(k - 1)) /\ W[k] = State(Done(k))
    BY <2>1
  <2>3. CASE k <= n
    <3>1. k \in 1..n /\ Done(k - 1) = k - 1 /\ Done(k) = k
      BY <2>3
    <3> QED
      BY <1>11, <2>2, <3>1
  <2>4. CASE ~(k <= n)
    <3>1. Done(k - 1) = n /\ Done(k) = n
      BY <2>4
    <3> QED
      BY <1>12, <2>2, <3>1
  <2> QED
    BY <2>3, <2>4
<1>14. W[0] = [at |-> 1, attrs |-> <<>>]
  BY <1>6, <1>10
<1>15. W[turns] = State(n) /\ W = [k \in 0..turns |-> W[k]]
  BY <1>6, <1>8
<1> HIDE DEF W
<1>16. W = Step(W)
  <2>1. ASSUME NEW k \in 0..turns PROVE W[k] = Step(W)[k]
    <3>1. CASE k = 0
      BY <1>14, <3>1
    <3>2. CASE k # 0
      <4>1. k \in 1..turns
        BY <3>2
      <4> QED
        BY <1>13, <3>2, <4>1
    <3> QED
      BY <3>1, <3>2
  <2> QED
    BY <1>15, <2>1
<1>17. F = Step(F)
  <2> HIDE DEF Step
  <2> QED
    BY <1>16
<1> HIDE DEF F
<1>18. /\ F[0] = [at |-> 1, attrs |-> <<>>]
       /\ \A k \in 1..turns : F[k] = NextAttribute(buf, F[k - 1])
  BY <1>17
<1> DEFINE S == {k \in 0..turns : F[k] = W[k]}
<1>19. 0 \in S
  BY <1>14, <1>18
<1>20. ASSUME NEW k \in 0..(turns - 1), k \in S PROVE k + 1 \in S
  <2>1. k + 1 \in 1..turns /\ k + 1 \in 0..turns /\ (k + 1) - 1 = k
    OBVIOUS
  <2>2. F[k + 1] = NextAttribute(buf, F[k]) /\ W[k + 1] = NextAttribute(buf, W[k])
    BY <1>13, <1>18, <2>1
  <2> QED
    BY <1>20, <2>1, <2>2
<1> HIDE DEF S
<1>21. turns \in S
  BY <1>19, <1>20, Induction
<1>22. F[turns] = State(n)
  BY <1>15, <1>21 DEF S
<1>23. State(n).attrs = Upto(n)
  BY DEF State
<1>24. Upto(n) = attrs
  BY <1>2, <1>3
<1> QED
  BY <1>9, <1>22, <1>23, <1>24

(* The first attribute with the id is found.                                *)
LEMMA AttributeIsFound ==
    ASSUME NEW buf, NEW attrs, Holds(buf, attrs), NEW id, NEW k \in 1..Len(attrs),
           GetAttributeId(attrs[k]) = id,
           \A j \in 1..(k - 1) : GetAttributeId(attrs[j]) # id
    PROVE  GetAttributeImpl(buf, id) = <<attrs[k]>>
<1>1. attrs \in Seq(Attr) /\ AttributesOf(buf) = attrs
  BY AttributesAreRead DEF Holds
<1>2. PICK found : found = {i \in DOMAIN attrs : GetAttributeId(attrs[i]) = id}
  OBVIOUS
<1>3. DOMAIN attrs = 1..Len(attrs) /\ Len(attrs) \in Nat
  BY <1>1
<1>4. k \in found /\ found \in SUBSET Nat
  BY <1>2, <1>3
<1>5. \A j \in found : k <= j
  BY <1>2, <1>3
<1>6. Min(found) = k
  BY <1>4, <1>5, MinIsLeast
<1>7. IsValid(attrs[k])
  BY <1>1 DEF Attr
<1> QED
  BY <1>1, <1>2, <1>4, <1>6, <1>7 DEF GetAttributeImpl

LEMMA AttributeIsMissing ==
    ASSUME NEW buf, NEW attrs, Holds(buf, attrs), NEW id,
           \A j \in 1..Len(attrs) : GetAttributeId(attrs[j]) # id
    PROVE  GetAttributeImpl(buf, id) = <<>>
<1>1. attrs \in Seq(Attr) /\ AttributesOf(buf) = attrs
  BY AttributesAreRead DEF Holds
<1>2. {i \in DOMAIN attrs : GetAttributeId(attrs[i]) = id} = {}
  BY <1>1
<1> QED
  BY <1>1, <1>2 DEF GetAttributeImpl

-----------------------------------------------------------------------------
(* Construction *)

LEMMA BytesOfInt ==
    ASSUME NEW v \in Int, NEW width \in Nat
    PROVE  IntBytes(v, width) \in Seq(Byte) /\ Len(IntBytes(v, width)) = width
<1>1. ASSUME NEW i \in 1..width, i <= 4 PROVE (v \div Place[i]) % 256 \in 0..255
  <2>1. Place[i] \in Nat \ {0}
    BY <1>1 DEF Place
  <2>2. PICK d \in Nat \ {0} : d = Place[i]
    BY <2>1
  <2>3. v \div d \in Int
    OBVIOUS
  <2>4. (v \div d) % 256 \in 0..255
    BY <2>3
  <2> QED
    BY <2>2, <2>4
<1>2. \A i \in 1..width : IntBytes(v, width)[i] \in 0..255
  BY <1>1 DEF IntBytes
<1> QED
  BY <1>2 DEF IntBytes, Byte

\* One more than the largest id or length a header has room for.
Size16 == 65536

LEMMA TwoBytes ==
    ASSUME NEW v \in Nat, v < Size16
    PROVE  \E x, y \in 0..255 :
              IntBytes(v, 2)[1] = x /\ IntBytes(v, 2)[2] = y /\ x + 256 * y = v
<1>1. IntBytes(v, 2)[1] = (v \div 1) % 256 /\ IntBytes(v, 2)[2] = (v \div 256) % 256
  BY DEF IntBytes, Place
<1>2. (v \div 1) % 256 \in 0..255 /\ (v \div 256) % 256 \in 0..255
  OBVIOUS
<1>3. ((v \div 1) % 256) + 256 * ((v \div 256) % 256) = v
  BY DEF Size16
<1>4. PICK x \in 0..255 : x = (v \div 1) % 256
  BY <1>2
<1>5. PICK y \in 0..255 : y = (v \div 256) % 256
  BY <1>2
<1>6. x + 256 * y = v
  BY <1>3, <1>4, <1>5
<1>7. IntBytes(v, 2)[1] = x /\ IntBytes(v, 2)[2] = y
  BY <1>1, <1>4, <1>5
<1> QED
  BY <1>6, <1>7, Zenon

LEMMA Aligned ==
    ASSUME NEW n \in Nat
    PROVE  \E m \in Nat : /\ m = NLA_ALIGN(n) /\ m >= n /\ m <= n + 3
                          /\ NLA_ALIGN(4 + n) = 4 + m
BY DEF NLA_ALIGN

(* A header, then a value.                                                  *)
LEMMA HeaderJoined ==
    ASSUME NEW h1 \in Seq(Byte), NEW h2 \in Seq(Byte)
    PROVE  Len(h1) = 2 /\ Len(h2) = 2 =>
             /\ h1 \o h2 \in Seq(Byte) /\ Len(h1 \o h2) = 4
             /\ (h1 \o h2)[1] = h1[1] /\ (h1 \o h2)[2] = h1[2]
             /\ (h1 \o h2)[3] = h2[1] /\ (h1 \o h2)[4] = h2[2]
<1> DEFINE h == h1 \o h2
<1>1. /\ h \in Seq(Byte) /\ Len(h) = Len(h1) + Len(h2)
      /\ \A i \in 1..Len(h1) : h[i] = h1[i]
      /\ \A j \in 1..Len(h2) : h[Len(h1) + j] = h2[j]
  BY Joined
<1> HIDE DEF h
<1>2. SUFFICES ASSUME Len(h1) = 2, Len(h2) = 2
               PROVE  /\ h \in Seq(Byte) /\ Len(h) = 4
                      /\ h[1] = h1[1] /\ h[2] = h1[2] /\ h[3] = h2[1] /\ h[4] = h2[2]
  BY DEF h
<1>3. /\ h \in Seq(Byte) /\ Len(h) = 2 + 2
      /\ \A i \in 1..2 : h[i] = h1[i]
      /\ \A j \in 1..2 : h[2 + j] = h2[j]
  BY <1>1, <1>2, Zenon
<1>4. 1 \in 1..2 /\ 2 \in 1..2 /\ 2 + 1 = 3 /\ 2 + 2 = 4
  OBVIOUS
<1>5. h[1] = h1[1] /\ h[2] = h1[2] /\ h[2 + 1] = h2[1] /\ h[2 + 2] = h2[2]
  BY <1>3, <1>4, Zenon
<1> QED
  BY <1>3, <1>4, <1>5, Zenon

LEMMA ValueJoined ==
    ASSUME NEW h \in Seq(Byte), NEW raw \in Seq(Byte)
    PROVE  Len(h) = 4 =>
             /\ h \o raw \in Seq(Byte) /\ Len(h \o raw) = 4 + Len(raw)
             /\ (h \o raw)[1] = h[1] /\ (h \o raw)[2] = h[2]
             /\ (h \o raw)[3] = h[3] /\ (h \o raw)[4] = h[4]
             /\ \A j \in 1..Len(raw) : (h \o raw)[4 + j] = raw[j]
<1> DEFINE b == h \o raw
<1>1. /\ b \in Seq(Byte) /\ Len(b) = Len(h) + Len(raw)
      /\ \A i \in 1..Len(h) : b[i] = h[i]
      /\ \A j \in 1..Len(raw) : b[Len(h) + j] = raw[j]
  BY Joined
<1> HIDE DEF b
<1>2. 1 \in 1..4 /\ 2 \in 1..4 /\ 3 \in 1..4 /\ 4 \in 1..4
  OBVIOUS
<1>3. Len(h) = 4 =>
        /\ b \in Seq(Byte) /\ Len(b) = 4 + Len(raw)
        /\ b[1] = h[1] /\ b[2] = h[2] /\ b[3] = h[3] /\ b[4] = h[4]
        /\ \A j \in 1..Len(raw) : b[4 + j] = raw[j]
  BY <1>1, <1>2, Zenon
<1> QED
  BY <1>3 DEF b

(* An attribute has the id and the value it was made of.                    *)
LEMMA AttributeIsBuilt ==
    ASSUME NEW id \in Nat, id < Size16, NEW raw \in Seq(Byte), NEW n \in Nat,
           n = Len(raw), 4 + n < Size16
    PROVE  \E a \in Attr :
              /\ a = BaseNL80211Attr(id, raw)
              /\ GetAttributeId(a) = id
              /\ RawValue(a) = raw
              /\ nla_len(a, 1) = 4 + n
              /\ Len(a) = 4 + NLA_ALIGN(n)
<1>1. PICK l \in Nat : l = 4 + n /\ l < Size16
  OBVIOUS
<1>2. PICK full \in Nat : /\ full = NLA_ALIGN(n) /\ full >= n
                          /\ NLA_ALIGN(4 + n) = 4 + full
  BY Aligned
<1>3. PICK pad \in Nat : pad = full - n
  BY <1>2
<1>4. /\ IntBytes(l, 2) \in Seq(Byte) /\ Len(IntBytes(l, 2)) = 2
       /\ IntBytes(id, 2) \in Seq(Byte) /\ Len(IntBytes(id, 2)) = 2
  <2>1. l \in Int /\ id \in Int /\ 2 \in Nat
    OBVIOUS
  <2> QED
    BY <2>1, BytesOfInt
<1>5. PICK h1 \in Seq(Byte) : h1 = IntBytes(l, 2) /\ Len(h1) = 2
  BY <1>4, Zenon
<1>6. PICK h2 \in Seq(Byte) : h2 = IntBytes(id, 2) /\ Len(h2) = 2
  BY <1>4, Zenon
<1>7. Zeros(pad) \in Seq(Byte) /\ Len(Zeros(pad)) = pad
  BY DEF Zeros, Byte
<1>8. PICK z \in Seq(Byte) : z = Zeros(pad) /\ Len(z) = pad
  BY <1>7, Zenon
<1>9. PICK a : a = ((h1 \o h2) \o raw) \o z
  BY Zenon
<1>10. a = BaseNL80211Attr(id, raw)
  BY <1>1, <1>2, <1>3, <1>5, <1>6, <1>8, <1>9, Zenon DEF BaseNL80211Attr, NLA_HDRLEN
<1>11. /\ a \in Seq(Byte) /\ Len(a) = 4 + n + pad
      /\ a[1] = h1[1] /\ a[2] = h1[2] /\ a[3] = h2[1] /\ a[4] = h2[2]
      /\ \A j \in 1..n : a[4 + j] = raw[j]
  <2>1. PICK h : h = h1 \o h2
    BY Zenon
  <2>2. PICK b : b = h \o raw
    BY Zenon
  <2>3. a = b \o z
    BY <1>9, <2>1, <2>2, Zenon
  <2>4. /\ h \in Seq(Byte) /\ Len(h) = 4
        /\ h[1] = h1[1] /\ h[2] = h1[2] /\ h[3] = h2[1] /\ h[4] = h2[2]
    <3>1. Len(h1) = 2 /\ Len(h2) = 2 =>
            /\ h \in Seq(Byte) /\ Len(h) = 4
            /\ h[1] = h1[1] /\ h[2] = h1[2] /\ h[3] = h2[1] /\ h[4] = h2[2]
      BY <2>1, HeaderJoined
    <3> QED
      BY <1>5, <1>6, <3>1, Zenon
  <2>5. Len(raw) = n
    BY Zenon
  <2>6. /\ b \in Seq(Byte) /\ Len(b) = 4 + n
        /\ b[1] = h[1] /\ b[2] = h[2] /\ b[3] = h[3] /\ b[4] = h[4]
        /\ \A j \in 1..n : b[4 + j] = raw[j]
    <3>1. h \in Seq(Byte)
      BY <2>4, Zenon
    <3>2. Len(h) = 4 =>
            /\ b \in Seq(Byte) /\ Len(b) = 4 + Len(raw)
            /\ b[1] = h[1] /\ b[2] = h[2] /\ b[3] = h[3] /\ b[4] = h[4]
            /\ \A j \in 1..Len(raw) : b[4 + j] = raw[j]
      BY <2>2, <3>1, ValueJoined
    <3> QED
      BY <2>4, <2>5, <3>2, Zenon
  <2>7. /\ a \in Seq(Byte) /\ Len(a) = 4 + n + pad
        /\ a[1] = b[1] /\ a[2] = b[2] /\ a[3] = b[3] /\ a[4] = b[4]
        /\ \A j \in 1..n : a[4 + j] = b[4 + j]
    <3>1. b \in Seq(Byte)
      BY <2>6, Zenon
    <3>2. /\ a \in Seq(Byte) /\ Len(a) = Len(b) + Len(z)
          /\ \A i \in 1..Len(b) : a[i] = b[i]
      BY <2>3, <3>1, Joined
    <3>3. /\ 1 \in 1..(4 + n) /\ 2 \in 1..(4 + n) /\ 3 \in 1..(4 + n) /\ 4 \in 1..(4 + n)
          /\ \A j \in 1..n : 4 + j \in 1..(4 + n)
      OBVIOUS
    <3>4. Len(a) = 4 + n + pad /\ \A i \in 1..(4 + n) : a[i] = b[i]
      BY <1>8, <2>6, <3>2, Zenon
    <3> QED
      BY <3>2, <3>3, <3>4, Zenon
  <2> QED
    BY <2>4, <2>6, <2>7, Zenon
<1>12. nla_len(a, 1) = l
  <2>1. PICK x, y \in 0..255 : h1[1] = x /\ h1[2] = y /\ x + 256 * y = l
    <3>1. l \in Nat /\ l < Size16
      BY <1>1, Zenon
    <3> QED
      BY <1>5, <3>1, TwoBytes, Zenon
  <2>2. nla_len(a, 1) = x + 256 * y
    BY <1>11, <2>1 DEF nla_len
  <2> QED
    BY <2>1, <2>2
<1>13. GetAttributeId(a) = id
  <2>1. PICK x, y \in 0..255 : h2[1] = x /\ h2[2] = y /\ x + 256 * y = id
    BY <1>6, TwoBytes, Zenon
  <2>2. GetAttributeId(a) = x + 256 * y
    BY <1>11, <2>1 DEF GetAttributeId, nla_type
  <2> QED
    BY <2>1, <2>2
<1>14. Len(a) = 4 + NLA_ALIGN(n) /\ NLA_ALIGN(l) = Len(a)
  <2>1. 4 + n + pad = 4 + full
    BY <1>2, <1>3
  <2> QED
    BY <1>1, <1>2, <1>11, <2>1, Zenon
<1>15. IsValid(a)
  <2>1. Len(a) >= 4
    BY <1>11
  <2> QED
    BY <1>12, <1>14, <2>1 DEF IsValid, NLA_HDRLEN
<1>16. RawValue(a) = raw
  <2>1. 4 + n <= Len(a)
    BY <1>11
  <2>2. SubSeq(a, 4 + 1, 4 + n) = raw
    BY <1>11, <2>1, PartIs
  <2> QED
    BY <1>1, <1>12, <2>2 DEF RawValue, NLA_HDRLEN
<1>17. a \in Attr
  BY <1>11, <1>15 DEF Attr
<1> QED
  BY <1>1, <1>10, <1>12, <1>13, <1>14, <1>16, <1>17

(* What is left of an attribute without its header.                         *)
LEMMA ContentIs ==
    ASSUME NEW a \in Seq(Byte), NEW m \in Nat
    PROVE  Len(a) = 4 + m =>
             /\ Content(a) \in Seq(Byte) /\ Len(Content(a)) = m
             /\ \A j \in 1..m : Content(a)[j] = a[4 + j]
<1>1. SUFFICES ASSUME Len(a) = 4 + m
               PROVE  /\ Content(a) \in Seq(Byte) /\ Len(Content(a)) = m
                      /\ \A j \in 1..m : Content(a)[j] = a[4 + j]
  OBVIOUS
<1>2. PICK u : u = SubSeq(a, 5, 4 + m)
  BY Zenon
<1>3. Content(a) = u
  BY <1>1, <1>2 DEF Content, NLA_HDRLEN
<1>4. 5 \in 1..(4 + m + 1) /\ 4 + m \in 4..(4 + m)
  OBVIOUS
<1>5. /\ u \in Seq(Byte)
      /\ Len(u) = IF 5 <= 4 + m THEN (4 + m) - 5 + 1 ELSE 0
      /\ \A i \in 1..((4 + m) - 5 + 1) : u[i] = a[5 + i - 1]
  BY <1>1, <1>2, <1>4, SubSeqProperties
<1>6. Len(u) = m
  BY <1>5
<1>7. ASSUME NEW j \in 1..m PROVE u[j] = a[4 + j]
  <2>1. j \in 1..((4 + m) - 5 + 1) /\ 5 + j - 1 = 4 + j
    OBVIOUS
  <2> QED
    BY <1>5, <2>1
<1> QED
  BY <1>3, <1>5, <1>6, <1>7

(* Only the length in the header is replaced.                               *)
LEMMA LengthIsReplaced ==
    ASSUME NEW a \in Seq(Byte), NEW n \in Nat, Len(a) = n, n >= 4,
           NEW l \in Nat, l < Size16
    PROVE  \E w \in Seq(Byte) :
              /\ w = WithLength(a, l)
              /\ Len(w) = n
              /\ nla_len(w, 1) = l
              /\ \A i \in 3..n : w[i] = a[i]
<1>1. IntBytes(l, 2) \in Seq(Byte) /\ Len(IntBytes(l, 2)) = 2
  <2>1. l \in Int /\ 2 \in Nat
    OBVIOUS
  <2> QED
    BY <2>1, BytesOfInt
<1>2. PICK h \in Seq(Byte) : h = IntBytes(l, 2) /\ Len(h) = 2
  BY <1>1, Zenon
<1>3. PICK m \in Nat : m = n - 2
  OBVIOUS
<1>4. /\ SubSeq(a, 3, n) \in Seq(Byte)
      /\ Len(SubSeq(a, 3, n)) = m
      /\ \A i \in 1..m : SubSeq(a, 3, n)[i] = a[2 + i]
  <2>1. PICK u : u = SubSeq(a, 3, n)
    BY Zenon
  <2>2. 3 \in 1..(n + 1) /\ n \in 2..n
    OBVIOUS
  <2>3. /\ u \in Seq(Byte)
        /\ Len(u) = IF 3 <= n THEN n - 3 + 1 ELSE 0
        /\ \A i \in 1..(n - 3 + 1) : u[i] = a[3 + i - 1]
    BY <2>1, <2>2, SubSeqProperties
  <2>4. Len(u) = m
    BY <1>3, <2>3
  <2>5. ASSUME NEW i \in 1..m PROVE u[i] = a[2 + i]
    <3>1. i \in 1..(n - 3 + 1) /\ 3 + i - 1 = 2 + i
      BY <1>3
    <3> QED
      BY <2>3, <3>1
  <2> QED
    BY <2>1, <2>3, <2>4, <2>5
<1>5. PICK t \in Seq(Byte) : /\ t = SubSeq(a, 3, n) /\ Len(t) = m
                             /\ \A i \in 1..m : t[i] = a[2 + i]
  BY <1>4, Zenon
<1>6. PICK w : w = h \o t
  BY Zenon
<1>7. w = WithLength(a, l)
  BY <1>2, <1>5, <1>6, Zenon DEF WithLength
<1>8. /\ w \in Seq(Byte) /\ Len(w) = Len(h) + Len(t)
      /\ \A i \in 1..Len(h) : w[i] = h[i]
      /\ \A j \in 1..Len(t) : w[Len(h) + j] = t[j]
  BY <1>6, Joined
<1>9. /\ Len(w) = 2 + m
      /\ \A i \in 1..2 : w[i] = h[i]
      /\ \A j \in 1..m : w[2 + j] = t[j]
  BY <1>2, <1>5, <1>8, Zenon
<1>10. Len(w) = n /\ w[1] = h[1] /\ w[2] = h[2]
  BY <1>3, <1>9
<1>11. nla_len(w, 1) = l
  <2>1. PICK x, y \in 0..255 : h[1] = x /\ h[2] = y /\ x + 256 * y = l
    BY <1>2, TwoBytes, Zenon
  <2>2. nla_len(w, 1) = x + 256 * y
    BY <1>10, <2>1 DEF nla_len
  <2> QED
    BY <2>1, <2>2
<1>12. ASSUME NEW i \in 3..n PROVE w[i] = a[i]
  <2>1. PICK j \in 1..m : i = 2 + j
    <3>1. i - 2 \in 1..m /\ i = 2 + (i - 2)
      BY <1>3
    <3> QED
      BY <3>1
  <2> QED
    BY <1>5, <1>9, <2>1
<1> QED
  BY <1>7, <1>8, <1>10, <1>11, <1>12

(* A nested attribute with these sub-attributes.                            *)
IsNest(a, id, attrs) ==
    /\ a \in Attr
    /\ GetAttributeId(a) = id
    /\ nla_len(a, 1) = Len(a)
    /\ Holds(Content(a), attrs)

LEMMA NestedIsEmpty ==
    ASSUME NEW id \in Nat, id < Size16
    PROVE  IsNest(NestedAttr(id), id, <<>>) /\ Len(NestedAttr(id)) = 4
<1>1. <<>> \in Seq(Byte) /\ 0 \in Nat /\ Len(<<>>) = 0
  OBVIOUS
<1>2. PICK raw \in Seq(Byte) : raw = <<>>
  BY <1>1, Zenon
<1>3. PICK n \in Nat : n = 0 /\ n = Len(raw)
  BY <1>1, <1>2, Zenon
<1>4. 4 + n = 4 /\ NLA_ALIGN(n) = 0 /\ 4 + n < Size16
  BY <1>3 DEF Size16, NLA_ALIGN
<1>5. PICK a \in Attr : /\ a = BaseNL80211Attr(id, raw)
                        /\ GetAttributeId(a) = id
                        /\ RawValue(a) = raw
                        /\ nla_len(a, 1) = 4 + n
                        /\ Len(a) = 4 + NLA_ALIGN(n)
  <2>1. n = Len(raw) /\ 4 + n < Size16
    BY <1>3, <1>4, Zenon
  <2> QED
    BY <2>1, AttributeIsBuilt, Zenon
<1>6. Len(a) = 4 /\ nla_len(a, 1) = 4
  <2>1. 4 + 0 = 4
    OBVIOUS
  <2> QED
    BY <1>4, <1>5, <2>1, Zenon
<1>7. Content(a) = <<>>
  <2>1. Content(a) = RawValue(a)
    BY <1>6, Zenon DEF Content, RawValue
  <2> QED
    BY <1>2, <1>5, <2>1, Zenon
<1>8. IsNest(a, id, <<>>)
  BY <1>5, <1>6, <1>7, HoldsEmpty, Zenon DEF IsNest
<1> QED
  BY <1>2, <1>5, <1>6, <1>8, Zenon DEF NestedAttr

LEMMA AlignedSum ==
    ASSUME NEW x \in Nat, NEW y \in Nat, NEW z \in Nat,
           NLA_ALIGN(x) = x, NLA_ALIGN(z) = y
    PROVE  NLA_ALIGN(x + y) = x + y
BY DEF NLA_ALIGN

(* The header and the length stay right when an attribute is added.         *)
LEMMA AttributeIsAdded ==
    ASSUME NEW a, NEW id, NEW attrs, IsNest(a, id, attrs), NEW b \in Attr,
           NEW l \in Nat, l = Len(a) + Len(b), l < Size16
    PROVE  IsNest(AddAttribute(a, b), id, Append(attrs, b)) /\ Len(AddAttribute(a, b)) = l
<1>1. /\ a \in Seq(Byte) /\ a \in Attr /\ GetAttributeId(a) = id /\ nla_len(a, 1) = Len(a)
      /\ Holds(Content(a), attrs) /\ Len(a) \in Nat /\ Len(a) >= 4
      /\ NLA_ALIGN(Len(a)) = Len(a)
  BY AttrIsAligned DEF IsNest
<1>2. /\ b \in Seq(Byte) /\ Len(b) \in Nat /\ Len(b) >= 4
      /\ NLA_ALIGN(nla_len(b, 1)) = Len(b) /\ nla_len(b, 1) \in Nat
  BY AttrIsAligned
<1>3. PICK n \in Nat : n = Len(a)
  BY <1>1, Zenon
<1>4. PICK k \in Nat : k = Len(b)
  BY <1>2, Zenon
<1>5. l = n + k /\ n >= 4 /\ k >= 4
  BY <1>1, <1>2, <1>3, <1>4
<1>6. PICK w \in Seq(Byte) : /\ w = WithLength(a, l)
                             /\ Len(w) = n
                             /\ nla_len(w, 1) = l
                             /\ \A i \in 3..n : w[i] = a[i]
  BY <1>1, <1>3, <1>5, LengthIsReplaced
<1>7. PICK r : r = w \o b
  BY Zenon
<1>8. r = AddAttribute(a, b)
  BY <1>1, <1>6, <1>7, Zenon DEF AddAttribute
<1>9. /\ r \in Seq(Byte) /\ Len(r) = Len(w) + Len(b)
      /\ \A i \in 1..Len(w) : r[i] = w[i]
      /\ \A j \in 1..Len(b) : r[Len(w) + j] = b[j]
  BY <1>2, <1>7, Joined
<1>10. /\ Len(r) = n + k
       /\ \A i \in 1..n : r[i] = w[i]
       /\ \A j \in 1..k : r[n + j] = b[j]
  BY <1>4, <1>6, <1>9, Zenon
<1>11. Len(r) = l
  BY <1>5, <1>10
<1>12. nla_len(r, 1) = l
  <2>1. r[1] = w[1] /\ r[2] = w[2]
    BY <1>5, <1>10
  <2> QED
    BY <1>6, <2>1 DEF nla_len
<1>13. GetAttributeId(r) = id
  <2>1. r[3] = a[3] /\ r[4] = a[4]
    BY <1>5, <1>6, <1>10, SMTT(30)
  <2> QED
    BY <1>1, <2>1 DEF GetAttributeId, nla_type
<1>14. NLA_ALIGN(l) = l
  BY <1>1, <1>2, <1>3, <1>4, <1>5, AlignedSum
<1>15. IsValid(r)
  BY <1>5, <1>11, <1>12, <1>14 DEF IsValid, NLA_HDRLEN
<1>16. r \in Attr
  BY <1>9, <1>15 DEF Attr
<1>17. PICK m \in Nat : n = 4 + m
  <2>1. n - 4 \in Nat /\ n = 4 + (n - 4)
    BY <1>5
  <2> QED
    BY <2>1
<1>18. /\ Content(a) \in Seq(Byte) /\ Len(Content(a)) = m
       /\ \A j \in 1..m : Content(a)[j] = a[4 + j]
  BY <1>1, <1>3, <1>17, ContentIs
<1>19. PICK c \in Seq(Byte) : /\ c = Content(a) /\ Len(c) = m
                              /\ \A j \in 1..m : c[j] = a[4 + j]
  BY <1>18, Zenon
<1>20. PICK t : t = c \o b
  BY Zenon
<1>21. /\ t \in Seq(Byte) /\ Len(t) = Len(c) + Len(b)
       /\ \A i \in 1..Len(c) : t[i] = c[i]
       /\ \A j \in 1..Len(b) : t[Len(c) + j] = b[j]
  BY <1>2, <1>20, Joined
<1>22. /\ Len(t) = m + k
       /\ \A i \in 1..m : t[i] = c[i]
       /\ \A j \in 1..k : t[m + j] = b[j]
  BY <1>4, <1>19, <1>21, Zenon
<1>23. ASSUME NEW j \in 1..(m + k) PROVE r[4 + j] = t[j]
  <2>1. CASE j <= m
    <3>1. j \in 1..m /\ 4 + j \in 1..n /\ 4 + j \in 3..n
      BY <1>17, <2>1
    <3>2. r[4 + j] = a[4 + j]
      BY <1>6, <1>10, <3>1, Zenon
    <3>3. t[j] = a[4 + j]
      BY <1>19, <1>22, <3>1, Zenon
    <3> QED
      BY <3>2, <3>3, Zenon
  <2>2. CASE ~(j <= m)
    <3>1. PICK i \in 1..k : j = m + i
      <4>1. j - m \in 1..k /\ j = m + (j - m)
        BY <2>2
      <4> QED
        BY <4>1
    <3>2. 4 + j = n + i
      BY <1>17, <3>1
    <3> QED
      BY <1>10, <1>22, <3>1, <3>2
  <2> QED
    BY <2>1, <2>2
<1>24. Content(r) = t
  <2>1. PICK q \in Nat : q = m + k
    OBVIOUS
  <2>2. 4 + q = l /\ 4 + q <= Len(r) /\ Len(t) = q
    BY <1>5, <1>11, <1>17, <1>22, <2>1, SMTT(30)
  <2>3. \A j \in 1..q : r[4 + j] = t[j]
    BY <1>23, <2>1
  <2>4. SubSeq(r, 4 + 1, 4 + q) = t
    BY <1>9, <1>21, <2>2, <2>3, PartIs
  <2> QED
    BY <1>11, <2>2, <2>4 DEF Content, NLA_HDRLEN
<1>25. Holds(t, Append(attrs, b))
  BY <1>1, <1>19, <1>20, HoldsAppend
<1> QED
  BY <1>8, <1>11, <1>12, <1>13, <1>16, <1>24, <1>25 DEF IsNest

(* Whatever it is added to: bytes with room for a header.                   *)
LEMMA AddingKeepsHeader ==
    ASSUME NEW x \in Seq(Byte), NEW b \in Seq(Byte), Len(x) >= 4
    PROVE  AddAttribute(x, b) \in Seq(Byte) /\ Len(AddAttribute(x, b)) >= 4
<1>1. PICK n \in Nat : n = Len(x) /\ n >= 4
  OBVIOUS
<1>2. nla_len(x, 1) + Len(b) \in Int
  <2>1. x[1] \in 0..255 /\ x[2] \in 0..255
    <3>1. 1 \in 1..Len(x) /\ 2 \in 1..Len(x)
      BY <1>1
    <3>2. x[1] \in Byte /\ x[2] \in Byte
      BY <3>1
    <3> QED
      BY <3>2 DEF Byte
  <2>2. PICK c \in 0..255 : c = x[1]
    BY <2>1
  <2>3. PICK d \in 0..255 : d = x[2]
    BY <2>1
  <2>4. nla_len(x, 1) = c + 256 * d
    BY <2>2, <2>3 DEF nla_len
  <2>5. PICK k \in Nat : k = Len(b)
    OBVIOUS
  <2> QED
    BY <2>4, <2>5
<1>3. PICK l \in Int : l = nla_len(x, 1) + Len(b)
  BY <1>2
<1>4. IntBytes(l, 2) \in Seq(Byte) /\ Len(IntBytes(l, 2)) = 2
  <2>1. 2 \in Nat
    OBVIOUS
  <2> QED
    BY <2>1, BytesOfInt
<1>5. PICK h \in Seq(Byte) : h = IntBytes(l, 2) /\ Len(h) = 2
  BY <1>4, Zenon
<1>6. SubSeq(x, 3, n) \in Seq(Byte) /\ Len(SubSeq(x, 3, n)) >= 2
  <2>1. PICK u : u = SubSeq(x, 3, n)
    BY Zenon
  <2>2. 3 \in 1..(n + 1) /\ n \in 2..n
    BY <1>1
  <2>3. u \in Seq(Byte) /\ Len(u) = IF 3 <= n THEN n - 3 + 1 ELSE 0
    BY <1>1, <2>1, <2>2, SubSeqProperties
  <2> QED
    BY <1>1, <2>1, <2>3
<1>7. PICK t \in Seq(Byte) : t = SubSeq(x, 3, n) /\ Len(t) >= 2
  BY <1>6, Zenon
<1>8. AddAttribute(x, b) = (h \o t) \o b
  BY <1>1, <1>3, <1>5, <1>7, Zenon DEF AddAttribute, WithLength
<1>9. h \o t \in Seq(Byte) /\ Len(h \o t) = Len(h) + Len(t)
  BY Joined
<1>10. PICK w \in Seq(Byte) : w = h \o t /\ Len(w) = Len(h) + Len(t)
  BY <1>9, Zenon
<1>11. w \o b \in Seq(Byte) /\ Len(w \o b) = Len(w) + Len(b)
  BY Joined
<1>12. Len(w) >= 4 /\ Len(w) \in Nat /\ Len(b) \in Nat
  <2>1. Len(t) \in Nat /\ Len(b) \in Nat
    OBVIOUS
  <2>2. Len(w) >= 4 /\ Len(w) \in Nat
    <3>1. PICK q \in Nat : q = Len(t)
      BY <2>1, Zenon
    <3>2. Len(w) = 2 + q /\ q >= 2
      BY <1>5, <1>7, <1>10, <3>1, Zenon
    <3> QED
      BY <3>2
  <2> QED
    BY <2>1, <2>2, Zenon
<1>13. Len(w \o b) >= 4
  BY <1>11, <1>12
<1> QED
  BY <1>8, <1>10, <1>11, <1>13, Zenon

(* Adding attributes one after the other, with a bound for each length.     *)
LEMMA NestHolds ==
    ASSUME NEW id \in Nat, id < Size16, NEW attrs \in Seq(Attr),
           NEW n \in Nat, n = Len(attrs), NEW top \in [0..n -> Nat], top[0] >= 4,
           \A i \in 1..n : top[i - 1] + Len(attrs[i]) <= top[i],
           \A i \in 0..n : top[i] < Size16
    PROVE  IsNest(Nest(id, attrs), id, attrs) /\ Len(Nest(id, attrs)) <= top[n]
<1> DEFINE A == {x \in Seq(Byte) : Len(x) >= 4}
<1> DEFINE Step(g) == [k \in 0..n |-> IF k = 0 THEN NestedAttr(id)
                                      ELSE AddAttribute(g[k - 1], attrs[k])]
<1> DEFINE F == CHOOSE g : g = Step(g)
<1>1. Nest(id, attrs) = F[n]
  BY DEF Nest
<1>2. \A i \in 1..n : attrs[i] \in Attr
  OBVIOUS
<1>3. \A i \in 1..n : attrs[i] \in Seq(Byte) /\ Len(attrs[i]) \in Nat
  BY <1>2, AttrIsAligned
<1>4. NestedAttr(id) \in A /\ IsNest(NestedAttr(id), id, <<>>) /\ Len(NestedAttr(id)) = 4
  <2>1. IsNest(NestedAttr(id), id, <<>>) /\ Len(NestedAttr(id)) = 4
    BY NestedIsEmpty
  <2>2. NestedAttr(id) \in Seq(Byte)
    BY <2>1 DEF IsNest, Attr
  <2>3. 4 >= 4
    OBVIOUS
  <2>4. NestedAttr(id) \in A
    BY <2>1, <2>2, <2>3, Zenon
  <2> QED
    BY <2>1, <2>4, Zenon
<1>5. ASSUME NEW x \in A, NEW k \in 1..n PROVE AddAttribute(x, attrs[k]) \in A
  BY <1>3, AddingKeepsHeader
<1> DEFINE step == [p \in A \X (1..n) |-> AddAttribute(p[1], attrs[p[2]])]
<1>6. step \in [A \X (1..n) -> A] /\ \A x \in A, k \in 1..n : step[<<x, k>>] = AddAttribute(x, attrs[k])
  BY <1>5
<1> HIDE DEF A, step
<1>7. PICK f : IsRun(f, n, A, NestedAttr(id), step)
  BY <1>4, <1>6, Recursion
<1>8. f = Step(f)
  <2>1. ASSUME NEW k \in 1..n PROVE f[k] = AddAttribute(f[k - 1], attrs[k])
    <3>1. f[k - 1] \in A
      BY <1>7 DEF IsRun
    <3> QED
      BY <1>6, <1>7, <3>1 DEF IsRun
  <2> QED
    BY <1>7, <2>1 DEF IsRun
<1>9. F = Step(F)
  <2> HIDE DEF Step
  <2> QED
    BY <1>8
<1> HIDE DEF F
<1>10. F[0] = NestedAttr(id) /\ \A k \in 1..n : F[k] = AddAttribute(F[k - 1], attrs[k])
  BY <1>9
<1> DEFINE Upto(k) == [i \in 1..k |-> attrs[i]]
<1> DEFINE S == {k \in 0..n : IsNest(F[k], id, Upto(k)) /\ Len(F[k]) <= top[k]}
<1>11. 0 \in S
  <2>1. Upto(0) = <<>>
    OBVIOUS
  <2>2. Len(F[0]) <= top[0]
    BY <1>4, <1>10
  <2> QED
    BY <1>4, <1>10, <2>1, <2>2
<1>12. ASSUME NEW k \in 0..(n - 1), k \in S PROVE k + 1 \in S
  <2>1. PICK j \in 1..n : j = k + 1 /\ j - 1 = k
    OBVIOUS
  <2>2. PICK b \in Attr : b = attrs[j]
    BY <1>2
  <2>3. PICK x : x = F[k]
    OBVIOUS
  <2>4. IsNest(x, id, Upto(k)) /\ Len(x) <= top[k]
    BY <1>12, <2>3
  <2>5. F[j] = AddAttribute(x, b)
    BY <1>10, <2>1, <2>2, <2>3
  <2>6. Len(x) \in Nat /\ Len(b) \in Nat
    <3>1. x \in Attr
      BY <2>4 DEF IsNest
    <3> QED
      BY <2>2, <3>1, AttrIsAligned
  <2>7. PICK l \in Nat : l = Len(x) + Len(b)
    BY <2>6
  <2>8. top[k] + Len(b) <= top[j] /\ top[k] \in Nat /\ top[j] \in Nat /\ top[j] < Size16
    <3>1. j \in 0..n /\ k \in 0..n
      OBVIOUS
    <3> QED
      BY <2>1, <2>2, <3>1
  <2>9. l <= top[j]
    BY <2>4, <2>6, <2>7, <2>8, SMTT(30)
  <2>10. l < Size16
    <3>1. PICK z \in Nat : z = Size16
      BY DEF Size16
    <3> QED
      BY <2>8, <2>9, <3>1
  <2>11. IsNest(AddAttribute(x, b), id, Append(Upto(k), b)) /\ Len(AddAttribute(x, b)) = l
    BY <2>4, <2>7, <2>10, AttributeIsAdded
  <2>12. Append(Upto(k), b) = Upto(j)
    BY <2>1, <2>2, PrefixGrows
  <2>13. IsNest(F[j], id, Upto(j)) /\ Len(F[j]) <= top[j]
    BY <2>5, <2>7, <2>9, <2>11, <2>12
  <2> QED
    BY <2>1, <2>13
<1> HIDE DEF S
<1>13. n \in S
  <2>1. \A k \in 0..n : k \in S
    BY <1>11, <1>12, Induction, Zenon
  <2> QED
    BY <2>1
<1>14. Upto(n) = attrs
  OBVIOUS
<1> QED
  BY <1>1, <1>13, <1>14 DEF S

-----------------------------------------------------------------------------
(* Integers *)

LEMMA FourBytesAreRead ==
    ASSUME NEW b \in Seq(Byte)
    PROVE  Len(b) = 4 => Unsigned(b) = b[1] + 256 * (b[2] + 256 * (b[3] + 256 * b[4]))
<1>1. SUFFICES ASSUME Len(b) = 4
               PROVE  Unsigned(b) = b[1] + 256 * (b[2] + 256 * (b[3] + 256 * b[4]))
  OBVIOUS
<1> DEFINE Up(d, r) == d + 256 * r
<1> DEFINE Step(g) == [i \in 1..5 |-> IF i > 4 THEN 0 ELSE Up(b[i], g[i + 1])]
<1> DEFINE F == CHOOSE g : g = Step(g)
<1>2. Unsigned(b) = F[1]
  BY <1>1 DEF Unsigned
<1>3. b[1] \in 0..255 /\ b[2] \in 0..255 /\ b[3] \in 0..255 /\ b[4] \in 0..255
  <2>1. 1 \in 1..4 /\ 2 \in 1..4 /\ 3 \in 1..4 /\ 4 \in 1..4
    OBVIOUS
  <2>2. \A i \in 1..Len(b) : b[i] \in Byte
    OBVIOUS
  <2>3. b[1] \in Byte /\ b[2] \in Byte /\ b[3] \in Byte /\ b[4] \in Byte
    BY <1>1, <2>1, <2>2, Zenon
  <2> QED
    BY <2>3 DEF Byte
<1>4. PICK x1 \in 0..255 : x1 = b[1]
  BY <1>3
<1>5. PICK x2 \in 0..255 : x2 = b[2]
  BY <1>3
<1>6. PICK x3 \in 0..255 : x3 = b[3]
  BY <1>3
<1>7. PICK x4 \in 0..255 : x4 = b[4]
  BY <1>3
<1>8. Up(x1, Up(x2, Up(x3, Up(x4, 0)))) = x1 + 256 * (x2 + 256 * (x3 + 256 * x4))
  OBVIOUS
<1> HIDE DEF Up
<1>9. PICK r4 : r4 = Up(x4, 0)
  OBVIOUS
<1>10. PICK r3 : r3 = Up(x3, r4)
  OBVIOUS
<1>11. PICK r2 : r2 = Up(x2, r3)
  OBVIOUS
<1>12. PICK r1 : r1 = Up(x1, r2)
  OBVIOUS
<1> DEFINE f == [i \in 1..5 |-> IF i = 1 THEN r1 ELSE IF i = 2 THEN r2 ELSE IF i = 3 THEN r3
                                ELSE IF i = 4 THEN r4 ELSE 0]
<1>13. f = Step(f)
  <2>1. f[1] = r1 /\ f[2] = r2 /\ f[3] = r3 /\ f[4] = r4 /\ f[5] = 0
    OBVIOUS
  <2>2. f = [i \in 1..5 |-> f[i]]
    OBVIOUS
  <2> HIDE DEF f
  <2>3. ASSUME NEW i \in 1..5 PROVE f[i] = IF i > 4 THEN 0 ELSE Up(b[i], f[i + 1])
    <3>1. i = 1 \/ i = 2 \/ i = 3 \/ i = 4 \/ i = 5
      OBVIOUS
    <3> QED
      BY <1>4, <1>5, <1>6, <1>7, <1>9, <1>10, <1>11, <1>12, <2>1, <3>1
  <2> QED
    BY <2>2, <2>3, Zenon
<1>14. F = Step(F)
  <2> HIDE DEF Step, f
  <2> QED
    BY <1>13
<1> HIDE DEF F, f
<1>15. \A i \in 1..5 : F[i] = IF i > 4 THEN 0 ELSE Up(b[i], F[i + 1])
  BY <1>14, Zenon
<1>16. /\ F[5] = 0 /\ F[4] = Up(x4, F[5]) /\ F[3] = Up(x3, F[4])
       /\ F[2] = Up(x2, F[3]) /\ F[1] = Up(x1, F[2])
  BY <1>4, <1>5, <1>6, <1>7, <1>15
<1>17. F[1] = Up(x1, Up(x2, Up(x3, Up(x4, 0))))
  BY <1>16, Zenon
<1> QED
  BY <1>2, <1>4, <1>5, <1>6, <1>7, <1>8, <1>17

\* The numbers of 32 bits.
Fits32(v) == v \in Nat /\ v \div Size16 < Size16

LEMMA Quotients ==
    ASSUME NEW v \in Nat, NEW a \in Nat, NEW b \in Nat, NEW c \in Nat,
           a = v \div 256, b = a \div 256, c = b \div 256
    PROVE  b = v \div 65536 /\ c = v \div 16777216
<1>1. b = v \div 65536
  OBVIOUS
<1>2. c = v \div 16777216
  OBVIOUS
<1> QED
  BY <1>1, <1>2

(* What is written into four bytes is read from them.                       *)
LEMMA IntIsRead ==
    ASSUME NEW v \in Nat, Fits32(v)
    PROVE  Unsigned(IntBytes(v, 4)) = v
<1>1. PICK a \in Nat : a = v \div 256
  OBVIOUS
<1>2. PICK b \in Nat : b = a \div 256
  OBVIOUS
<1>3. PICK c \in Nat : c = b \div 256
  OBVIOUS
<1>4. b = v \div 65536 /\ c = v \div 16777216
  BY <1>1, <1>2, <1>3, Quotients
<1>5. c < 256
  BY <1>3, <1>4 DEF Fits32, Size16
<1>6. PICK u \in Seq(Byte) : u = IntBytes(v, 4) /\ Len(u) = 4
  <2>1. v \in Int /\ 4 \in Nat
    OBVIOUS
  <2> QED
    BY <2>1, BytesOfInt
<1>7. u[1] = v % 256 /\ u[2] = a % 256 /\ u[3] = b % 256 /\ u[4] = c % 256
  <2>1. /\ u[1] = (v \div 1) % 256 /\ u[2] = (v \div 256) % 256
        /\ u[3] = (v \div 65536) % 256 /\ u[4] = (v \div 16777216) % 256
    BY <1>6 DEF IntBytes, Place
  <2>2. v \div 1 = v
    OBVIOUS
  <2> QED
    BY <1>1, <1>4, <2>1, <2>2
<1>8. Unsigned(u) = u[1] + 256 * (u[2] + 256 * (u[3] + 256 * u[4]))
  BY <1>6, FourBytesAreRead
<1>9. c % 256 = c
  BY <1>5
<1>10. /\ v = (v % 256) + 256 * a
       /\ a = (a % 256) + 256 * b
       /\ b = (b % 256) + 256 * c
  BY <1>1, <1>2, <1>3
<1>11. Unsigned(u) = (v % 256) + 256 * ((a % 256) + 256 * ((b % 256) + 256 * c))
  BY <1>7, <1>8, <1>9
<1>12. Unsigned(u) = v
  BY <1>10, <1>11
<1> QED
  BY <1>6, <1>12, Zenon

-----------------------------------------------------------------------------
(* Buffers of attributes, read by id *)

WellFormed(buf) == \E attrs : Holds(buf, attrs)

LEMMA EmptyBuffer ==
    WellFormed(<<>>) /\ \A id : GetAttributeImpl(<<>>, id) = <<>>
<1>1. ASSUME NEW id PROVE GetAttributeImpl(<<>>, id) = <<>>
  <2>1. PICK none : none = <<>> /\ Len(none) = 0
    OBVIOUS
  <2>2. Holds(<<>>, none)
    BY <2>1, HoldsEmpty, Zenon
  <2>3. \A j \in 1..Len(none) : GetAttributeId(none[j]) # id
    BY <2>1
  <2> QED
    BY <2>2, <2>3, AttributeIsMissing
<1> QED
  BY <1>1, HoldsEmpty, Zenon DEF WellFormed

(* An attribute added to a buffer is found unless there was one of its id,  *)
(* and every other is found as before.                                      *)
LEMMA BufferGrows ==
    ASSUME NEW buf, WellFormed(buf), NEW a \in Attr
    PROVE  /\ WellFormed(buf \o a)
           /\ \A id : GetAttributeImpl(buf \o a, id) =
                        IF GetAttributeImpl(buf, id) # <<>> THEN GetAttributeImpl(buf, id)
                        ELSE IF GetAttributeId(a) = id THEN <<a>> ELSE <<>>
<1>1. PICK attrs : Holds(buf, attrs)
  BY DEF WellFormed
<1>2. attrs \in Seq(Attr)
  BY <1>1 DEF Holds
<1>3. PICK n \in Nat : n = Len(attrs)
  BY <1>2
<1>4. PICK more : more = Append(attrs, a)
  OBVIOUS
<1>5. /\ more \in Seq(Attr) /\ Len(more) = n + 1
      /\ \A k \in 1..n : more[k] = attrs[k]
      /\ more[n + 1] = a
  BY <1>2, <1>3, <1>4, AppendProperties
<1>6. PICK new : new = buf \o a
  BY Zenon
<1>7. Holds(new, more)
  BY <1>1, <1>4, <1>6, HoldsAppend
<1>8. ASSUME NEW id
      PROVE  GetAttributeImpl(new, id) =
               IF GetAttributeImpl(buf, id) # <<>> THEN GetAttributeImpl(buf, id)
               ELSE IF GetAttributeId(a) = id THEN <<a>> ELSE <<>>
  <2> DEFINE found == {k \in 1..n : GetAttributeId(attrs[k]) = id}
  <2>1. CASE found # {}
    <3>1. found \in SUBSET Nat
      OBVIOUS
    <3>2. PICK k \in found : \A j \in found : k <= j
      BY <2>1, <3>1, LeastNumber
    <3>3. k \in 1..n /\ GetAttributeId(attrs[k]) = id
      OBVIOUS
    <3>4. \A j \in 1..(k - 1) : j \in 1..n /\ GetAttributeId(attrs[j]) # id
      BY <3>2, <3>3
    <3>5. GetAttributeImpl(buf, id) = <<attrs[k]>>
      BY <1>1, <1>3, <3>3, <3>4, AttributeIsFound
    <3>6. k \in 1..(n + 1) /\ more[k] = attrs[k]
      BY <1>5, <3>3
    <3>7. \A j \in 1..(k - 1) : GetAttributeId(more[j]) # id
      BY <1>5, <3>4
    <3>8. GetAttributeImpl(new, id) = <<more[k]>>
      BY <1>5, <1>7, <3>3, <3>6, <3>7, AttributeIsFound
    <3>9. <<attrs[k]>> # <<>>
      OBVIOUS
    <3> QED
      BY <3>5, <3>6, <3>8, <3>9, Zenon
  <2>2. CASE found = {}
    <3>1. \A j \in 1..n : GetAttributeId(attrs[j]) # id
      BY <2>2
    <3>2. GetAttributeImpl(buf, id) = <<>>
      BY <1>1, <1>3, <3>1, AttributeIsMissing
    <3>3. CASE GetAttributeId(a) = id
      <4>1. PICK k \in 1..(n + 1) : k = n + 1 /\ k - 1 = n
        OBVIOUS
      <4>2. \A j \in 1..(k - 1) : GetAttributeId(more[j]) # id
        BY <1>5, <3>1, <4>1
      <4>3. k \in 1..Len(more) /\ GetAttributeId(more[k]) = id
        BY <1>5, <3>3, <4>1, Zenon
      <4>4. GetAttributeImpl(new, id) = <<more[k]>>
        BY <1>7, <4>2, <4>3, AttributeIsFound
      <4> QED
        BY <1>5, <3>2, <3>3, <4>1, <4>4, Zenon
    <3>4. CASE GetAttributeId(a) # id
      <4>1. \A j \in 1..(n + 1) : GetAttributeId(more[j]) # id
        <5>1. \A j \in 1..(n + 1) : j \in 1..n \/ j = n + 1
          OBVIOUS
        <5> QED
          BY <1>5, <3>1, <3>4, <5>1, Zenon
      <4>2. GetAttributeImpl(new, id) = <<>>
        BY <1>5, <1>7, <4>1, AttributeIsMissing
      <4> QED
        BY <3>2, <3>4, <4>2, Zenon
    <3> QED
      BY <3>3, <3>4, Zenon
  <2> QED
    BY <2>1, <2>2, Zenon
<1> QED
  BY <1>6, <1>7, <1>8, Zenon DEF WellFormed

LEMMA FourByteAttribute ==
    ASSUME NEW id \in Nat, id < Size16, NEW v \in Int
    PROVE  \E a \in Attr : /\ a = IntAttr(id, v, 4)
                           /\ GetAttributeId(a) = id
                           /\ RawValue(a) = IntBytes(v, 4)
                           /\ Len(a) = 8
                           /\ IsValidInt(a, 4)
<1>1. 4 \in Nat
  OBVIOUS
<1>2. IntBytes(v, 4) \in Seq(Byte) /\ Len(IntBytes(v, 4)) = 4
  BY <1>1, BytesOfInt
<1>3. PICK raw \in Seq(Byte) : raw = IntBytes(v, 4)
  BY <1>2, Zenon
<1>4. PICK n \in Nat : n = 4 /\ n = Len(raw)
  BY <1>1, <1>2, <1>3, Zenon
<1>5. 4 + n = 8 /\ NLA_ALIGN(n) = 4 /\ 4 + NLA_ALIGN(n) = 8
  BY <1>4 DEF NLA_ALIGN
<1>6. 4 + n < Size16
  BY <1>4 DEF Size16
<1>7. PICK a \in Attr : /\ a = BaseNL80211Attr(id, raw)
                        /\ GetAttributeId(a) = id
                        /\ RawValue(a) = raw
                        /\ nla_len(a, 1) = 4 + n
                        /\ Len(a) = 4 + NLA_ALIGN(n)
  <2>1. n = Len(raw)
    BY <1>4, Zenon
  <2> QED
    BY <1>6, <2>1, AttributeIsBuilt, Zenon
<1>8. Len(a) = 8 /\ nla_len(a, 1) = 8
  BY <1>5, <1>7, Zenon
<1>9. NLA_ALIGN(4) + 4 = 8 /\ 4 + 4 = 8
  BY DEF NLA_ALIGN
<1>10. IsValid(a)
  BY DEF Attr
<1>11. IsValidInt(a, 4)
  BY <1>8, <1>9, <1>10, Zenon DEF IsValidInt, NLA_HDRLEN
<1>12. a = IntAttr(id, v, 4)
  BY <1>3, <1>7, Zenon DEF IntAttr
<1> QED
  BY <1>3, <1>7, <1>8, <1>11, <1>12, Zenon

LEMMA IntIsFound ==
    ASSUME NEW buf, NEW id \in Nat, id < Size16, NEW v \in Nat, Fits32(v),
           GetAttributeImpl(buf, id) = <<IntAttr(id, v, 4)>>
    PROVE  GetInt(buf, id, 4) = <<v>>
<1>1. v \in Int
  OBVIOUS
<1>2. PICK a \in Attr : /\ a = IntAttr(id, v, 4)
                        /\ RawValue(a) = IntBytes(v, 4)
                        /\ IsValidInt(a, 4)
  BY <1>1, FourByteAttribute, Zenon
<1>3. Unsigned(RawValue(a)) = v
  BY <1>2, IntIsRead, Zenon
<1>4. GetAttributeImpl(buf, id) = <<a>> /\ <<a>> # <<>> /\ <<a>>[1] = a
  BY <1>2
<1> QED
  BY <1>2, <1>3, <1>4 DEF GetInt, IfFound

LEMMA NothingIsFound ==
    ASSUME NEW buf, NEW id, GetAttributeImpl(buf, id) = <<>>
    PROVE  /\ \A width : GetInt(buf, id, width) = <<>>
           /\ IfFound(GetNested(buf, id), AttributesOf) = <<>>
<1>1. \A width : GetInt(buf, id, width) = <<>>
  BY DEF GetInt, IfFound
<1>2. GetNested(buf, id) = <<>>
  BY DEF GetNested, IfFound
<1>3. IfFound(GetNested(buf, id), AttributesOf) = <<>>
  BY <1>2 DEF IfFound
<1> QED
  BY <1>1, <1>3

LEMMA NestIsFound ==
    ASSUME NEW buf, NEW id, NEW a, NEW attrs, IsNest(a, id, attrs),
           GetAttributeImpl(buf, id) = <<a>>
    PROVE  IfFound(GetNested(buf, id), AttributesOf) = attrs
<1>1. AttributesOf(Content(a)) = attrs
  BY AttributesAreRead DEF IsNest
<1>2. GetNested(buf, id) = <<Content(a)>>
  BY DEF GetNested, IfFound
<1>3. PICK c : c = Content(a)
  OBVIOUS
<1>4. GetNested(buf, id) = <<c>> /\ <<c>> # <<>> /\ <<c>>[1] = c
  BY <1>2, <1>3
<1> QED
  BY <1>1, <1>3, <1>4 DEF IfFound

(* The value of a nested attribute is what it holds.                        *)
LEMMA NestValue ==
    ASSUME NEW a, NEW id, NEW attrs, IsNest(a, id, attrs)
    PROVE  Holds(RawValue(a), attrs) /\ WellFormed(RawValue(a))
BY DEF IsNest, Content, RawValue, WellFormed

-----------------------------------------------------------------------------
(* Integers of other widths, with and without a sign *)

LEMMA IntAttribute ==
    ASSUME NEW id \in Nat, id < Size16, NEW v \in Int, NEW width \in 1..8
    PROVE  \E a \in Attr : /\ a = IntAttr(id, v, width)
                           /\ GetAttributeId(a) = id
                           /\ RawValue(a) = IntBytes(v, width)
                           /\ Len(a) <= 12
                           /\ IsValidInt(a, width)
<1>1. IntBytes(v, width) \in Seq(Byte) /\ Len(IntBytes(v, width)) = width
  BY BytesOfInt
<1>2. PICK raw \in Seq(Byte) : raw = IntBytes(v, width)
  BY <1>1, Zenon
<1>3. PICK n \in Nat : n = width /\ n = Len(raw)
  <2>1. width \in Nat
    OBVIOUS
  <2> QED
    BY <1>1, <1>2, <2>1, Zenon
<1>4. n = width
  BY <1>3, Zenon
<1>5. n <= 8 /\ 4 + n < Size16
  BY <1>4 DEF Size16
<1>6. PICK a \in Attr : /\ a = BaseNL80211Attr(id, raw)
                        /\ GetAttributeId(a) = id
                        /\ RawValue(a) = raw
                        /\ nla_len(a, 1) = 4 + n
                        /\ Len(a) = 4 + NLA_ALIGN(n)
  <2>1. n = Len(raw)
    BY <1>3, Zenon
  <2> QED
    BY <1>5, <2>1, AttributeIsBuilt, Zenon
<1>7. NLA_ALIGN(n) \in Nat /\ NLA_ALIGN(n) <= 8 /\ NLA_ALIGN(width) = NLA_ALIGN(n)
  <2>1. NLA_ALIGN(n) \in Nat /\ NLA_ALIGN(n) <= 8
    BY <1>5 DEF NLA_ALIGN
  <2> QED
    BY <1>4, <2>1, Zenon
<1>8. Len(a) <= 12 /\ Len(a) = NLA_ALIGN(width) + 4 /\ nla_len(a, 1) = width + 4
  BY <1>4, <1>6, <1>7
<1>9. IsValid(a)
  BY DEF Attr
<1>10. IsValidInt(a, width)
  BY <1>8, <1>9, Zenon DEF IsValidInt, NLA_HDRLEN
<1>11. a = IntAttr(id, v, width)
  BY <1>2, <1>6, Zenon DEF IntAttr
<1> QED
  BY <1>2, <1>6, <1>8, <1>10, <1>11, Zenon

\* The low half and the bounds of an int32_t, as multiples the provers can use.
Int32 == {v \in Int : -32768 <= v \div Size16 /\ v \div Size16 < 32768}

(* The bytes of a number below zero are the complements of those of its      *)
(* complement.                                                              *)
LEMMA ComplementOfBytes ==
    ASSUME NEW v \in Int, NEW d \in Nat \ {0}
    PROVE  (v \div d) % 256 = 255 - (((-1 - v) \div d) % 256)
<1>1. PICK q \in Int : q = v \div d
  OBVIOUS
<1>2. PICK r \in 0..(d - 1) : v = d * q + r
  BY <1>1
<1>3. PICK s \in 0..(d - 1) : s = d - 1 - r
  OBVIOUS
<1>4. -1 - v = d * (-1 - q) + s
  BY <1>2, <1>3
<1>5. (-1 - v) \div d = -1 - q
  BY <1>4
<1>6. q % 256 = 255 - ((-1 - q) % 256)
  OBVIOUS
<1> QED
  BY <1>1, <1>5, <1>6

LEMMA SignedIsRead ==
    ASSUME NEW v \in Int32
    PROVE  Signed(IntBytes(v, 4)) = v
<1>1. PICK b \in Seq(Byte) : b = IntBytes(v, 4) /\ Len(b) = 4
  <2>1. v \in Int /\ 4 \in Nat
    BY DEF Int32
  <2> QED
    BY <2>1, BytesOfInt
<1>2. b[4] = (v \div 16777216) % 256
  BY <1>1 DEF IntBytes, Place
<1>3. v \in Int /\ v \div 16777216 = (v \div 65536) \div 256
  BY DEF Int32
<1>4. CASE v >= 0
  <2>1. v \in Nat /\ Fits32(v)
    BY <1>3, <1>4 DEF Int32, Fits32, Size16
  <2>2. Unsigned(b) = v
    BY <1>1, <2>1, IntIsRead
  <2>3. b[4] < 128
    BY <1>2, <1>3, <1>4 DEF Int32, Size16
  <2> QED
    BY <1>1, <2>2, <2>3 DEF Signed
<1>5. CASE v < 0
  <2>1. PICK w \in Nat : w = -1 - v
    BY <1>3, <1>5
  <2>2. Fits32(w)
    <3>1. v \div 65536 >= -32768
      BY DEF Int32, Size16
    <3> QED
      BY <1>3, <2>1, <3>1 DEF Fits32, Size16
  <2>3. Unsigned(IntBytes(w, 4)) = w
    BY <2>2, IntIsRead
  <2>4. ASSUME NEW i \in 1..4 PROVE IntBytes(w, 4)[i] = 255 - b[i]
    <3>1. PICK d \in Nat \ {0} : d = Place[i]
      BY DEF Place
    <3>2. IntBytes(w, 4)[i] = (w \div d) % 256 /\ b[i] = (v \div d) % 256
      BY <1>1, <3>1 DEF IntBytes
    <3>3. (v \div d) % 256 = 255 - ((w \div d) % 256)
      BY <1>3, <2>1, ComplementOfBytes
    <3>4. PICK x \in Int : x = (w \div d) % 256
      OBVIOUS
    <3>5. IntBytes(w, 4)[i] = x /\ b[i] = 255 - x
      BY <3>2, <3>3, <3>4
    <3> QED
      BY <3>5
  <2>5. [i \in DOMAIN b |-> 255 - b[i]] = IntBytes(w, 4)
    <3>1. IntBytes(w, 4) = [i \in 1..4 |-> IntBytes(w, 4)[i]]
      BY DEF IntBytes
    <3>2. DOMAIN b = 1..4
      BY <1>1
    <3> QED
      BY <2>4, <3>1, <3>2, Zenon
  <2>6. ~(b[4] < 128)
    <3>1. PICK q \in Int : q = v \div 16777216
      BY <1>3
    <3>2. -128 <= q /\ q < 0
      BY <1>3, <1>5, <3>1 DEF Int32, Size16
    <3>3. q % 256 = q + 256
      BY <3>2
    <3> QED
      BY <1>2, <3>1, <3>2, <3>3
  <2>7. Signed(b) = -1 - Unsigned([i \in DOMAIN b |-> 255 - b[i]])
    BY <1>1, <2>6 DEF Signed
  <2>8. Signed(b) = -1 - w
    BY <2>3, <2>5, <2>7
  <2> QED
    BY <1>1, <1>3, <2>1, <2>8
<1> QED
  BY <1>3, <1>4, <1>5

(* Reading an integer goes from its highest byte to its lowest.             *)
LEMMA BytesAreSummed ==
    ASSUME NEW b \in Seq(Byte), NEW n \in Nat, n = Len(b)
    PROVE  \E r \in [1..(n + 1) -> Nat] :
              /\ Unsigned(b) = r[1]
              /\ r[n + 1] = 0
              /\ \A i \in 1..n : r[i] = b[i] + 256 * r[i + 1]
<1> DEFINE Up(d, x) == d + 256 * x
<1> DEFINE Step(g) == [i \in 1..(n + 1) |-> IF i > n THEN 0 ELSE Up(b[i], g[i + 1])]
<1> DEFINE F == CHOOSE g : g = Step(g)
<1>1. Unsigned(b) = F[1]
  BY DEF Unsigned
<1>2. \A i \in 1..n : b[i] \in 0..255
  <2>1. \A i \in 1..n : b[i] \in Byte
    OBVIOUS
  <2> QED
    BY <2>1 DEF Byte
<1>3. ASSUME NEW i \in 1..n, NEW x \in Nat PROVE Up(b[i], x) \in Nat
  <2>1. PICK d \in 0..255 : d = b[i]
    BY <1>2
  <2>2. d + 256 * x \in Nat
    OBVIOUS
  <2> QED
    BY <2>1, <2>2, Zenon
<1> HIDE DEF Up
<1> DEFINE step == [p \in Nat \X (1..n) |-> Up(b[n + 1 - p[2]], p[1])]
<1>4. step \in [Nat \X (1..n) -> Nat]
  <2>1. \A x \in Nat, k \in 1..n : Up(b[n + 1 - k], x) \in Nat
    <3>1. \A k \in 1..n : n + 1 - k \in 1..n
      OBVIOUS
    <3> QED
      BY <1>3, <3>1
  <2> QED
    BY <2>1
<1>5. \A x \in Nat, k \in 1..n : step[<<x, k>>] = Up(b[n + 1 - k], x)
  OBVIOUS
<1> HIDE DEF step
<1>6. PICK f : IsRun(f, n, Nat, 0, step)
  <2>1. 0 \in Nat
    OBVIOUS
  <2> QED
    BY <1>4, <2>1, Recursion
<1> DEFINE r == [i \in 1..(n + 1) |-> f[n + 1 - i]]
<1>7. r \in [1..(n + 1) -> Nat]
  BY <1>6 DEF IsRun
<1>8. ASSUME NEW i \in 1..n PROVE r[i] = Up(b[i], r[i + 1])
  <2>1. PICK k \in 1..n : k = n + 1 - i
    OBVIOUS
  <2>2. r[i] = f[k] /\ r[i + 1] = f[k - 1] /\ n + 1 - k = i
    BY <2>1
  <2>3. f[k] = step[<<f[k - 1], k>>]
    BY <1>6, Zenon DEF IsRun
  <2>4. f[k - 1] \in Nat
    <3>1. k - 1 \in 0..n /\ f \in [0..n -> Nat]
      BY <1>6 DEF IsRun
    <3> QED
      BY <3>1
  <2>5. f[k] = Up(b[n + 1 - k], f[k - 1])
    BY <1>5, <2>3, <2>4, Zenon
  <2> QED
    BY <2>2, <2>5, Zenon
<1>9. r[n + 1] = 0
  BY <1>6 DEF IsRun
<1> HIDE DEF r
<1>10. r = Step(r)
  <2>1. r = [i \in 1..(n + 1) |-> r[i]]
    BY <1>7
  <2>2. ASSUME NEW i \in 1..(n + 1) PROVE r[i] = IF i > n THEN 0 ELSE Up(b[i], r[i + 1])
    <3>1. i \in 1..n \/ i = n + 1
      OBVIOUS
    <3> QED
      BY <1>8, <1>9, <3>1
  <2> QED
    BY <2>1, <2>2, Zenon
<1>11. F = Step(F)
  <2> HIDE DEF Step
  <2> QED
    BY <1>10
<1> HIDE DEF F
<1>12. /\ F[n + 1] = 0
       /\ \A i \in 1..n : F[i] = Up(b[i], F[i + 1])
  <2>1. \A i \in 1..(n + 1) : F[i] = IF i > n THEN 0 ELSE Up(b[i], F[i + 1])
    BY <1>11, Zenon
  <2> QED
    BY <2>1
<1> DEFINE S == {k \in 0..n : F[n + 1 - k] = r[n + 1 - k]}
<1>13. 0 \in S
  BY <1>9, <1>12
<1>14. ASSUME NEW k \in 0..(n - 1), k \in S PROVE k + 1 \in S
  <2>1. PICK i \in 1..n : i = n + 1 - (k + 1) /\ i + 1 = n + 1 - k
    OBVIOUS
  <2>2. F[i + 1] = r[i + 1]
    BY <1>14, <2>1
  <2>3. F[i] = r[i]
    BY <1>8, <1>12, <2>2
  <2> QED
    BY <2>1, <2>3
<1> HIDE DEF S
<1>15. n \in S
  <2>1. \A k \in 0..n : k \in S
    BY <1>13, <1>14, Induction, Zenon
  <2> QED
    BY <2>1
<1>16. F[1] = r[1]
  BY <1>15 DEF S
<1>17. \A i \in 1..n : r[i] = b[i] + 256 * r[i + 1]
  BY <1>8 DEF Up
<1> QED
  BY <1>1, <1>7, <1>9, <1>16, <1>17

LEMMA OneByteIsRead ==
    ASSUME NEW v \in 0..255
    PROVE  Unsigned(IntBytes(v, 1)) = v
<1>1. PICK b \in Seq(Byte) : b = IntBytes(v, 1) /\ Len(b) = 1
  <2>1. v \in Int /\ 1 \in Nat
    OBVIOUS
  <2> QED
    BY <2>1, BytesOfInt
<1>2. b[1] = v
  <2>1. b[1] = (v \div 1) % 256
    BY <1>1 DEF IntBytes, Place
  <2> QED
    BY <2>1
<1>3. PICK n \in Nat : n = 1 /\ n = Len(b)
  BY <1>1
<1>4. PICK r \in [1..(n + 1) -> Nat] : /\ Unsigned(b) = r[1]
                                       /\ r[n + 1] = 0
                                       /\ \A i \in 1..n : r[i] = b[i] + 256 * r[i + 1]
  BY <1>3, BytesAreSummed, Zenon
<1>5. r[2] = 0 /\ r[1] = b[1] + 256 * r[2]
  BY <1>3, <1>4
<1> QED
  BY <1>1, <1>2, <1>4, <1>5

LEMMA TwoBytesAreRead ==
    ASSUME NEW v \in Nat, v < Size16
    PROVE  Unsigned(IntBytes(v, 2)) = v
<1>1. PICK b \in Seq(Byte) : b = IntBytes(v, 2) /\ Len(b) = 2
  <2>1. v \in Int /\ 2 \in Nat
    OBVIOUS
  <2> QED
    BY <2>1, BytesOfInt
<1>2. PICK x, y \in 0..255 : b[1] = x /\ b[2] = y /\ x + 256 * y = v
  BY <1>1, TwoBytes, Zenon
<1>3. PICK n \in Nat : n = 2 /\ n = Len(b)
  BY <1>1
<1>4. PICK r \in [1..(n + 1) -> Nat] : /\ Unsigned(b) = r[1]
                                       /\ r[n + 1] = 0
                                       /\ \A i \in 1..n : r[i] = b[i] + 256 * r[i + 1]
  BY <1>3, BytesAreSummed, Zenon
<1>5. r[3] = 0 /\ r[2] = b[2] + 256 * r[3] /\ r[1] = b[1] + 256 * r[2]
  BY <1>3, <1>4
<1> QED
  BY <1>1, <1>2, <1>4, <1>5

(* Eight bytes of which the upper four are zero.                            *)
LEMMA EightBytesAreRead ==
    ASSUME NEW v \in Nat, Fits32(v)
    PROVE  Unsigned(IntBytes(v, 8)) = v
<1>1. PICK b \in Seq(Byte) : b = IntBytes(v, 8) /\ Len(b) = 8
  <2>1. v \in Int /\ 8 \in Nat
    OBVIOUS
  <2> QED
    BY <2>1, BytesOfInt
<1>2. PICK c \in Seq(Byte) : c = IntBytes(v, 4) /\ Len(c) = 4
  <2>1. v \in Int /\ 4 \in Nat
    OBVIOUS
  <2> QED
    BY <2>1, BytesOfInt
<1>3. b[1] = c[1] /\ b[2] = c[2] /\ b[3] = c[3] /\ b[4] = c[4]
  BY <1>1, <1>2 DEF IntBytes
<1>4. b[5] = 0 /\ b[6] = 0 /\ b[7] = 0 /\ b[8] = 0
  BY <1>1 DEF IntBytes
<1>5. PICK n \in Nat : n = 8 /\ n = Len(b)
  BY <1>1
<1>6. PICK r \in [1..(n + 1) -> Nat] : /\ Unsigned(b) = r[1]
                                       /\ r[n + 1] = 0
                                       /\ \A i \in 1..n : r[i] = b[i] + 256 * r[i + 1]
  BY <1>5, BytesAreSummed, ZenonT(60)
<1>7. n = 8
  BY <1>5, Zenon
<1>8. /\ r[9] = 0 /\ r[8] = b[8] + 256 * r[9] /\ r[7] = b[7] + 256 * r[8]
      /\ r[6] = b[6] + 256 * r[7] /\ r[5] = b[5] + 256 * r[6]
  BY <1>6, <1>7
<1>9. r[5] = 0
  BY <1>4, <1>8
<1>10. /\ r[4] = c[4] + 256 * r[5] /\ r[3] = c[3] + 256 * r[4]
       /\ r[2] = c[2] + 256 * r[3] /\ r[1] = c[1] + 256 * r[2]
  BY <1>3, <1>6, <1>7
<1>11. c[1] \in 0..255 /\ c[2] \in 0..255 /\ c[3] \in 0..255 /\ c[4] \in 0..255
  <2>1. \A i \in 1..Len(c) : c[i] \in Byte
    OBVIOUS
  <2>2. 1 \in 1..4 /\ 2 \in 1..4 /\ 3 \in 1..4 /\ 4 \in 1..4
    OBVIOUS
  <2>3. c[1] \in Byte /\ c[2] \in Byte /\ c[3] \in Byte /\ c[4] \in Byte
    BY <1>2, <2>1, <2>2, Zenon
  <2> QED
    BY <2>3 DEF Byte
<1>12. Unsigned(c) = c[1] + 256 * (c[2] + 256 * (c[3] + 256 * c[4]))
  BY <1>2, FourBytesAreRead
<1>13. Unsigned(c) = v
  BY <1>2, IntIsRead
<1>14. r[1] = c[1] + 256 * (c[2] + 256 * (c[3] + 256 * c[4]))
  <2>1. PICK x \in 0..255 : x = c[4]
    BY <1>11, Zenon
  <2>2. r[4] = x + 256 * 0
    BY <1>9, <1>10, <2>1, Zenon
  <2>3. x + 256 * 0 = x
    OBVIOUS
  <2>4. r[4] = c[4]
    BY <2>1, <2>2, <2>3, Zenon
  <2>5. r[3] = c[3] + 256 * c[4]
    BY <1>10, <2>4, Zenon
  <2>6. r[2] = c[2] + 256 * (c[3] + 256 * c[4])
    BY <1>10, <2>5, Zenon
  <2> QED
    BY <1>10, <2>6, Zenon
<1> QED
  BY <1>1, <1>6, <1>12, <1>13, <1>14, Zenon

LEMMA SignedByteIsRead ==
    ASSUME NEW v \in -128..127
    PROVE  Signed(IntBytes(v, 1)) = v
<1>1. PICK b \in Seq(Byte) : b = IntBytes(v, 1) /\ Len(b) = 1
  <2>1. v \in Int /\ 1 \in Nat
    OBVIOUS
  <2> QED
    BY <2>1, BytesOfInt
<1>2. b[1] = v % 256
  <2>1. b[1] = (v \div 1) % 256
    BY <1>1 DEF IntBytes, Place
  <2> QED
    BY <2>1
<1>3. CASE v >= 0
  <2>1. b[1] = v /\ v \in 0..255
    BY <1>2, <1>3
  <2>2. Unsigned(b) = v
    BY <1>1, <2>1, OneByteIsRead
  <2> QED
    BY <1>1, <1>3, <2>1, <2>2 DEF Signed
<1>4. CASE v < 0
  <2>1. b[1] = v + 256
    BY <1>2, <1>4
  <2>2. PICK w \in 0..255 : w = -1 - v
    BY <1>4
  <2>3. PICK c \in Seq(Byte) : c = IntBytes(w, 1) /\ Len(c) = 1
    <3>1. w \in Int /\ 1 \in Nat
      OBVIOUS
    <3> QED
      BY <3>1, BytesOfInt
  <2>4. c[1] = w
    <3>1. c[1] = (w \div 1) % 256
      BY <2>3 DEF IntBytes, Place
    <3> QED
      BY <3>1
  <2>5. 255 - b[1] = w
    BY <2>1, <2>2
  <2>6. [i \in DOMAIN b |-> 255 - b[i]] = c
    <3>1. DOMAIN b = {1}
      BY <1>1
    <3>2. c = [i \in {1} |-> c[i]]
      BY <2>3
    <3>3. \A i \in {1} : 255 - b[i] = c[i]
      BY <2>4, <2>5
    <3> QED
      BY <3>1, <3>2, <3>3, Zenon
  <2>7. Unsigned(c) = w
    BY <2>3, OneByteIsRead, ZenonT(60)
  <2>8. Signed(b) = -1 - Unsigned([i \in DOMAIN b |-> 255 - b[i]])
    BY <1>1, <1>4, <2>1 DEF Signed
  <2> QED
    BY <1>1, <2>2, <2>6, <2>7, <2>8
<1> QED
  BY <1>3, <1>4

-----------------------------------------------------------------------------
(* What the kernel says in a packet *)

\* Values that leave room for others in an attribute.
SizeOfValue == 3000
SizeOfAttr == 4000
Bytes == {b \in Seq(Byte) : Len(b) <= SizeOfValue}

LEMMA BytesAttribute ==
    ASSUME NEW id \in Nat, id < Size16, NEW raw \in Bytes
    PROVE  \E a \in Attr : /\ a = BaseNL80211Attr(id, raw)
                           /\ GetAttributeId(a) = id
                           /\ RawValue(a) = raw
                           /\ Len(a) <= SizeOfAttr
<1>1. raw \in Seq(Byte) /\ Len(raw) <= SizeOfValue /\ Len(raw) \in Nat
  BY DEF Bytes
<1>2. PICK n \in Nat : n = Len(raw)
  BY <1>1
<1>3. n <= SizeOfValue
  BY <1>1, <1>2, Zenon
<1>4. 4 + n < Size16
  BY <1>3 DEF Size16, SizeOfValue
<1>5. PICK a \in Attr : /\ a = BaseNL80211Attr(id, raw)
                        /\ GetAttributeId(a) = id
                        /\ RawValue(a) = raw
                        /\ nla_len(a, 1) = 4 + n
                        /\ Len(a) = 4 + NLA_ALIGN(n)
  BY <1>1, <1>2, <1>4, AttributeIsBuilt, Zenon
<1>6. NLA_ALIGN(n) \in Nat /\ 4 + NLA_ALIGN(n) <= SizeOfAttr
  BY <1>3 DEF NLA_ALIGN, SizeOfValue, SizeOfAttr
<1>7. Len(a) <= SizeOfAttr
  BY <1>5, <1>6, Zenon
<1> QED
  BY <1>5, <1>7, Zenon

LEMMA UnsignedIsFound ==
    ASSUME NEW buf, NEW id \in Nat, id < Size16, NEW v \in Int, NEW width \in 1..8,
           Unsigned(IntBytes(v, width)) = v,
           GetAttributeImpl(buf, id) = <<IntAttr(id, v, width)>>
    PROVE  GetInt(buf, id, width) = <<v>>
<1>1. PICK a \in Attr : /\ a = IntAttr(id, v, width)
                        /\ RawValue(a) = IntBytes(v, width)
                        /\ IsValidInt(a, width)
  BY IntAttribute, Zenon
<1>2. GetAttributeImpl(buf, id) = <<a>> /\ <<a>> # <<>> /\ <<a>>[1] = a
  BY <1>1
<1>3. Unsigned(RawValue(a)) = v
  BY <1>1, Zenon
<1> QED
  BY <1>1, <1>2, <1>3 DEF GetInt, IfFound

LEMMA SignedIsFound ==
    ASSUME NEW buf, NEW id \in Nat, id < Size16, NEW v \in Int, NEW width \in 1..8,
           Signed(IntBytes(v, width)) = v,
           GetAttributeImpl(buf, id) = <<IntAttr(id, v, width)>>
    PROVE  GetSigned(buf, id, width) = <<v>>
<1>1. PICK a \in Attr : /\ a = IntAttr(id, v, width)
                        /\ RawValue(a) = IntBytes(v, width)
                        /\ IsValidInt(a, width)
  BY IntAttribute, Zenon
<1>2. GetAttributeImpl(buf, id) = <<a>> /\ <<a>> # <<>> /\ <<a>>[1] = a
  BY <1>1
<1>3. Signed(RawValue(a)) = v
  BY <1>1, Zenon
<1> QED
  BY <1>1, <1>2, <1>3 DEF GetSigned, IfFound

LEMMA BytesAreFound ==
    ASSUME NEW buf, NEW id \in Nat, id < Size16, NEW raw \in Bytes,
           GetAttributeImpl(buf, id) = <<BaseNL80211Attr(id, raw)>>
    PROVE  GetBytes(buf, id) = <<raw>>
<1>1. PICK a \in Attr : a = BaseNL80211Attr(id, raw) /\ RawValue(a) = raw
  BY BytesAttribute, Zenon
<1>2. GetAttributeImpl(buf, id) = <<a>> /\ <<a>> # <<>> /\ <<a>>[1] = a
  BY <1>1
<1> QED
  BY <1>1, <1>2 DEF GetBytes, IfFound

\* A name ends where its bytes do: it has no zero in it.
Name == {s \in Bytes : Len(s) < SizeOfValue /\ \A i \in 1..Len(s) : s[i] # 0}

LEMMA NameIsFound ==
    ASSUME NEW buf, NEW id \in Nat, id < Size16, NEW str \in Name,
           GetAttributeImpl(buf, id) = <<StringAttr(id, str)>>
    PROVE  GetString(buf, id) = <<str>>
<1>1. str \in Seq(Byte) /\ Len(str) < SizeOfValue /\ \A i \in 1..Len(str) : str[i] # 0
  BY DEF Name, Bytes
<1>2. PICK n \in Nat : n = Len(str)
  BY <1>1
<1>3. PICK raw : raw = Append(str, 0)
  OBVIOUS
<1>4. /\ raw \in Seq(Byte) /\ Len(raw) = n + 1
      /\ \A i \in 1..n : raw[i] = str[i]
      /\ raw[n + 1] = 0
  <2>1. 0 \in Byte
    BY DEF Byte
  <2> QED
    BY <1>1, <1>2, <1>3, <2>1, AppendProperties
<1>5. raw \in Bytes
  BY <1>1, <1>2, <1>4 DEF Bytes, SizeOfValue
<1>6. PICK a \in Attr : a = BaseNL80211Attr(id, raw) /\ RawValue(a) = raw
  BY <1>5, BytesAttribute, Zenon
<1>7. GetAttributeImpl(buf, id) = <<a>> /\ <<a>> # <<>> /\ <<a>>[1] = a
  <2>1. a = StringAttr(id, str)
    BY <1>3, <1>6, Zenon DEF StringAttr
  <2> QED
    BY <2>1
<1>8. {0} \cup {i \in DOMAIN raw : raw[i] # 0} = 0..n
  <2>1. DOMAIN raw = 1..(n + 1)
    BY <1>4
  <2>2. \A i \in 1..(n + 1) : raw[i] # 0 <=> i \in 1..n
    BY <1>1, <1>2, <1>4
  <2> QED
    BY <2>1, <2>2
<1>9. Max(0..n) = n
  BY DEF Max
<1>10. SubSeq(raw, 1, n) = str
  <2>1. 0 \in Nat /\ 0 + n <= Len(raw) /\ 0 + 1 = 1 /\ 0 + n = n
    BY <1>4
  <2>2. \A j \in 1..n : raw[0 + j] = str[j]
    BY <1>4
  <2> QED
    BY <1>1, <1>2, <1>4, <2>1, <2>2, PartIs
<1>11. StringValue(a) = str
  BY <1>6, <1>8, <1>9, <1>10, Zenon DEF StringValue
<1> QED
  BY <1>7, <1>11 DEF GetString, IfFound

(* Short lists of attributes fit into an attribute.                         *)
LEMMA ShortNest ==
    ASSUME NEW id \in Nat, id < Size16, NEW attrs \in Seq(Attr), NEW n \in Nat,
           n = Len(attrs), n <= 15, \A i \in 1..n : Len(attrs[i]) <= SizeOfAttr
    PROVE  IsNest(Nest(id, attrs), id, attrs)
<1> DEFINE top == [k \in 0..n |-> 4 + SizeOfAttr * k]
<1>1. top \in [0..n -> Nat] /\ top[0] >= 4
  BY DEF SizeOfAttr
<1>2. ASSUME NEW i \in 1..n PROVE top[i - 1] + Len(attrs[i]) <= top[i]
  <2>1. i - 1 \in 0..n /\ i \in 0..n
    OBVIOUS
  <2>2. top[i - 1] = 4 + SizeOfAttr * (i - 1) /\ top[i] = 4 + SizeOfAttr * i
    BY <2>1
  <2>3. Len(attrs[i]) \in Nat /\ Len(attrs[i]) <= SizeOfAttr
    BY AttrIsAligned
  <2> HIDE DEF top
  <2>4. PICK t \in Int : t = top[i - 1] /\ t = 4 + SizeOfAttr * (i - 1)
    BY <2>2 DEF SizeOfAttr
  <2>5. PICK u \in Int : u = top[i] /\ u = 4 + SizeOfAttr * i
    BY <2>2 DEF SizeOfAttr
  <2>6. PICK l \in Nat : l = Len(attrs[i]) /\ l <= SizeOfAttr
    BY <2>3, Zenon
  <2>7. t + l <= u
    <3>1. t = 4 + SizeOfAttr * (i - 1) /\ u = 4 + SizeOfAttr * i /\ l <= SizeOfAttr
      BY <2>4, <2>5, <2>6, Zenon
    <3> QED
      BY <3>1 DEF SizeOfAttr
  <2> QED
    BY <2>4, <2>5, <2>6, <2>7, Zenon
<1>3. \A i \in 0..n : top[i] < Size16
  BY DEF Size16, SizeOfAttr
<1> HIDE DEF top
<1> QED
  BY <1>1, <1>2, <1>3, NestHolds

LEMMA NestOfInts ==
    ASSUME NEW id \in Nat, id < Size16, NEW attrs \in Seq(Attr), NEW n \in Nat,
           n = Len(attrs), n <= 256, \A i \in 1..n : Len(attrs[i]) <= 12
    PROVE  IsNest(Nest(id, attrs), id, attrs) /\ Len(Nest(id, attrs)) <= SizeOfAttr
<1> DEFINE top == [k \in 0..n |-> 4 + 12 * k]
<1>1. top \in [0..n -> Nat] /\ top[0] >= 4
  OBVIOUS
<1>2. ASSUME NEW i \in 1..n PROVE top[i - 1] + Len(attrs[i]) <= top[i]
  <2>1. i - 1 \in 0..n /\ i \in 0..n
    OBVIOUS
  <2>2. top[i - 1] = 4 + 12 * (i - 1) /\ top[i] = 4 + 12 * i
    BY <2>1
  <2>3. Len(attrs[i]) \in Nat /\ Len(attrs[i]) <= 12
    BY AttrIsAligned
  <2> HIDE DEF top
  <2>4. PICK t \in Int : t = top[i - 1] /\ t = 4 + 12 * (i - 1)
    BY <2>2
  <2>5. PICK u \in Int : u = top[i] /\ u = 4 + 12 * i
    BY <2>2
  <2>6. PICK l \in Nat : l = Len(attrs[i]) /\ l <= 12
    BY <2>3, Zenon
  <2>7. t + l <= u
    <3>1. t = 4 + 12 * (i - 1) /\ u = 4 + 12 * i /\ l <= 12
      BY <2>4, <2>5, <2>6, Zenon
    <3> QED
      BY <3>1
  <2> QED
    BY <2>4, <2>5, <2>6, <2>7, Zenon
<1>3. \A i \in 0..n : top[i] < Size16
  BY DEF Size16
<1>4. top[n] <= SizeOfAttr /\ top[n] \in Nat
  BY DEF SizeOfAttr
<1> HIDE DEF top
<1>5. IsNest(Nest(id, attrs), id, attrs) /\ Len(Nest(id, attrs)) <= top[n]
  BY <1>1, <1>2, <1>3, NestHolds
<1>6. Len(Nest(id, attrs)) \in Nat
  BY <1>5, AttrIsAligned DEF IsNest
<1> QED
  BY <1>4, <1>5, <1>6 DEF SizeOfAttr

\* A packet of the kernel about nl80211.
IsReply(p, command, attrs) ==
    /\ p.type = FamilyId
    /\ p.command = command
    /\ Holds(p.body, attrs)

LEMMA BodyIsReplaced ==
    ASSUME NEW t, NEW c, NEW f, NEW b, NEW d, NEW p,
           p = [type |-> t, command |-> c, flags |-> f, body |-> b]
    PROVE  [p EXCEPT !.body = d] = [type |-> t, command |-> c, flags |-> f, body |-> d]
OBVIOUS

(* A reply holds the attributes put into it.                                *)
LEMMA ReplyHolds ==
    ASSUME NEW command, NEW attrs \in Seq(Attr)
    PROVE  IsReply(Reply(command, attrs), command, attrs)
<1>1. PICK n \in Nat : n = Len(attrs)
  OBVIOUS
<1> DEFINE Packet(b) == [type |-> FamilyId, command |-> command,
                         flags |-> {"NLM_F_REQUEST"}, body |-> b]
<1> DEFINE first == NL80211Packet(FamilyId, command)
<1> DEFINE Step(g) == [k \in 0..n |-> IF k = 0 THEN first ELSE PacketAdd(g[k - 1], attrs[k])]
<1> DEFINE F == CHOOSE g : g = Step(g)
<1>2. Reply(command, attrs) = F[n]
  BY <1>1 DEF Reply
<1>3. \A i \in 1..n : attrs[i] \in Attr
  BY <1>1
<1>4. PICK none : none = <<>> /\ none \in Seq(Byte) /\ Holds(none, <<>>)
  BY HoldsEmpty, Zenon DEF Holds
<1>5. first = Packet(none)
  BY <1>4 DEF NL80211Packet
<1>6. ASSUME NEW b, NEW a PROVE PacketAdd(Packet(b), a) = Packet(b \o a)
  <2>1. PICK c : c = b \o a
    BY Zenon
  <2>2. PICK p : p = Packet(b)
    OBVIOUS
  <2>3. p.body \o a = c
    BY <2>1, <2>2
  <2>4. [p EXCEPT !.body = c] = Packet(c)
    <3>1. PICK f : f = {"NLM_F_REQUEST"}
      OBVIOUS
    <3>2. PICK t : t = FamilyId
      OBVIOUS
    <3>3. p = [type |-> t, command |-> command, flags |-> f, body |-> b]
      BY <2>2, <3>1, <3>2, Zenon
    <3>4. [p EXCEPT !.body = c] = [type |-> t, command |-> command, flags |-> f, body |-> c]
      BY <3>3, BodyIsReplaced
    <3> QED
      BY <3>1, <3>2, <3>4, Zenon
  <2> QED
    BY <2>1, <2>2, <2>3, <2>4, Zenon DEF PacketAdd
<1>7. \A b : Packet(b).type = FamilyId /\ Packet(b).command = command /\ Packet(b).body = b
  OBVIOUS
<1> DEFINE A == {Packet(b) : b \in Seq(Byte)}
<1> HIDE DEF Packet, first
<1>8. first \in A
  BY <1>4, <1>5
<1>9. ASSUME NEW p \in A, NEW k \in 1..n PROVE PacketAdd(p, attrs[k]) \in A
  <2>1. PICK b \in Seq(Byte) : p = Packet(b)
    OBVIOUS
  <2>2. PICK a \in Seq(Byte) : a = attrs[k]
    BY <1>3, AttrIsAligned
  <2>3. PICK c \in Seq(Byte) : c = b \o a
    <3>1. b \o a \in Seq(Byte)
      BY Joined, Zenon
    <3> QED
      BY <3>1, Zenon
  <2>4. PacketAdd(p, attrs[k]) = Packet(c)
    BY <1>6, <2>1, <2>2, <2>3, Zenon
  <2> QED
    BY <2>4
<1> DEFINE step == [p \in A \X (1..n) |-> PacketAdd(p[1], attrs[p[2]])]
<1> HIDE DEF A
<1>10. /\ step \in [A \X (1..n) -> A]
       /\ \A x \in A, k \in 1..n : step[<<x, k>>] = PacketAdd(x, attrs[k])
  BY <1>9
<1> HIDE DEF step
<1>11. PICK f : IsRun(f, n, A, first, step)
  BY <1>8, <1>10, Recursion
<1>12. f = Step(f)
  <2>1. ASSUME NEW k \in 1..n PROVE f[k] = PacketAdd(f[k - 1], attrs[k])
    <3>1. f[k - 1] \in A
      BY <1>11 DEF IsRun
    <3> QED
      BY <1>10, <1>11, <3>1 DEF IsRun
  <2> QED
    BY <1>11, <2>1 DEF IsRun
<1>13. F = Step(F)
  <2> HIDE DEF Step
  <2> QED
    BY <1>12
<1> HIDE DEF F
<1>14. F[0] = first /\ \A k \in 1..n : F[k] = PacketAdd(F[k - 1], attrs[k])
  BY <1>13
<1> DEFINE Upto(k) == [i \in 1..k |-> attrs[i]]
<1> DEFINE S == {k \in 0..n : \E b : F[k] = Packet(b) /\ Holds(b, Upto(k))}
<1>15. 0 \in S
  <2>1. Upto(0) = <<>>
    OBVIOUS
  <2>2. F[0] = Packet(none) /\ Holds(none, Upto(0))
    BY <1>4, <1>5, <1>14, <2>1
  <2> HIDE DEF Upto
  <2> QED
    BY <2>2
<1>16. ASSUME NEW k \in 0..(n - 1), k \in S PROVE k + 1 \in S
  <2>1. PICK j \in 1..n : j = k + 1 /\ j - 1 = k
    OBVIOUS
  <2>2. PICK a \in Attr : a = attrs[j]
    BY <1>3
  <2>3. PICK b : F[k] = Packet(b) /\ Holds(b, Upto(k))
    BY <1>16
  <2>4. PICK c : c = b \o a
    BY Zenon
  <2>5. F[j] = Packet(c)
    BY <1>6, <1>14, <2>1, <2>2, <2>3, <2>4
  <2>6. Append(Upto(k), a) = Upto(j)
    BY <1>1, <2>1, <2>2, PrefixGrows
  <2> HIDE DEF Upto
  <2>7. Holds(c, Upto(j))
    BY <2>3, <2>4, <2>6, HoldsAppend
  <2>8. j \in 0..n
    OBVIOUS
  <2> QED
    BY <2>1, <2>5, <2>7, <2>8
<1> HIDE DEF S
<1>17. n \in S
  <2>1. \A k \in 0..n : k \in S
    BY <1>15, <1>16, Induction, Zenon
  <2> QED
    BY <2>1
<1>18. Upto(n) = attrs
  BY <1>1
<1> HIDE DEF Upto
<1>19. PICK b : F[n] = Packet(b) /\ Holds(b, attrs)
  BY <1>17, <1>18 DEF S
<1> QED
  BY <1>2, <1>7, <1>19, Zenon DEF IsReply

LEMMA NestContent ==
    ASSUME NEW buf, NEW id, NEW a, NEW attrs, IsNest(a, id, attrs),
           GetAttributeImpl(buf, id) = <<a>>
    PROVE  \E c : GetNested(buf, id) = <<c>> /\ Holds(c, attrs)
<1>1. PICK c : c = Content(a)
  OBVIOUS
<1>2. GetNested(buf, id) = <<c>>
  BY <1>1 DEF GetNested, IfFound
<1> QED
  BY <1>1, <1>2 DEF IsNest

-----------------------------------------------------------------------------
(* Stations *)

\* What the kernel may know of a station: counters that an int32_t holds, a
\* signal of one byte with its sign.
Station == [mac : Bytes, packets : Int32 \cap Nat, failed : Int32 \cap Nat,
            rssi : -128 .. 127, bitrate : {n \in Nat : Fits32(n)}]

LEMMA OptionalAttribute ==
    ASSUME NEW c \in BOOLEAN, NEW a \in Attr
    PROVE  /\ Optional(c, a) \in Seq(Attr)
           /\ Len(Optional(c, a)) = IF c THEN 1 ELSE 0
           /\ c => Optional(c, a)[1] = a
<1>1. CASE c
  BY <1>1 DEF Optional
<1>2. CASE ~c
  BY <1>2 DEF Optional
<1> QED
  BY <1>1, <1>2

(* The rate is found in its nest, unless it is zero.                        *)
LEMMA RateIsRead ==
    ASSUME NEW rate \in Nat, Fits32(rate), NEW id \in Nat, id < Size16, NEW nest,
           nest = Nest(id, Optional(rate > 0, IntAttr(RATE_INFO.BITRATE32, rate, 4)))
    PROVE  \E attrs : /\ IsNest(nest, id, attrs)
                      /\ Len(nest) <= SizeOfAttr
                      /\ \A c : Holds(c, attrs) =>
                            GetInt(c, RATE_INFO.BITRATE32, 4) =
                               IF rate > 0 THEN <<rate>> ELSE <<>>
<1>1. PICK k \in Nat : k = RATE_INFO.BITRATE32 /\ k < Size16
  BY DEF RATE_INFO, Size16
<1>2. PICK a \in Attr : /\ a = IntAttr(k, rate, 4)
                        /\ GetAttributeId(a) = k
                        /\ Len(a) <= 12
  <2>1. 4 \in 1..8 /\ rate \in Int
    OBVIOUS
  <2> QED
    BY <1>1, <2>1, IntAttribute, Zenon
<1>3. PICK some \in BOOLEAN : some <=> rate > 0
  OBVIOUS
<1>4. PICK attrs : attrs = Optional(some, a)
  OBVIOUS
<1>5. /\ attrs \in Seq(Attr) /\ Len(attrs) = (IF some THEN 1 ELSE 0)
      /\ some => attrs[1] = a
  BY <1>4, OptionalAttribute, Zenon
<1>6. PICK n \in Nat : n = Len(attrs) /\ n <= 256 /\ n <= 1 /\ (some <=> n = 1)
  BY <1>5
<1>7. \A i \in 1..n : Len(attrs[i]) <= 12
  <2>1. \A i \in 1..n : i = 1 /\ some
    BY <1>6
  <2> QED
    BY <1>2, <1>5, <2>1, Zenon
<1>8. nest = Nest(id, attrs)
  <2>1. rate > 0 <=> some
    BY <1>3
  <2>2. Optional(rate > 0, IntAttr(RATE_INFO.BITRATE32, rate, 4)) = attrs
    BY <1>1, <1>2, <1>4, <2>1, Zenon DEF Optional
  <2> QED
    BY <2>2, Zenon
<1>9. IsNest(nest, id, attrs) /\ Len(nest) <= SizeOfAttr
  BY <1>5, <1>6, <1>7, <1>8, NestOfInts, Zenon
<1>10. ASSUME NEW c, Holds(c, attrs)
       PROVE  GetInt(c, k, 4) = IF rate > 0 THEN <<rate>> ELSE <<>>
  <2>1. CASE some
    <3>1. PICK i \in 1..Len(attrs) : i = 1 /\ i - 1 = 0
      BY <1>6, <2>1
    <3>2. GetAttributeId(attrs[i]) = k /\ \A j \in 1..(i - 1) : GetAttributeId(attrs[j]) # k
      <4>1. \A j \in 1..(i - 1) : FALSE
        BY <3>1
      <4> QED
        BY <1>2, <1>5, <2>1, <3>1, <4>1, Zenon
    <3>3. GetAttributeImpl(c, k) = <<attrs[i]>>
      BY <1>10, <3>2, AttributeIsFound
    <3>4. GetAttributeImpl(c, k) = <<IntAttr(k, rate, 4)>>
      BY <1>2, <1>5, <2>1, <3>1, <3>3, Zenon
    <3>5. GetInt(c, k, 4) = <<rate>>
      BY <1>1, <3>4, IntIsFound
    <3> QED
      BY <1>3, <2>1, <3>5, Zenon
  <2>2. CASE ~some
    <3>1. \A j \in 1..Len(attrs) : GetAttributeId(attrs[j]) # k
      <4>1. \A j \in 1..Len(attrs) : FALSE
        BY <1>5, <1>6, <2>2
      <4> QED
        BY <4>1, Zenon
    <3>2. GetAttributeImpl(c, k) = <<>>
      BY <1>10, <3>1, AttributeIsMissing, Zenon
    <3>3. GetInt(c, k, 4) = <<>>
      BY <3>2, NothingIsFound, Zenon
    <3> QED
      BY <1>3, <2>2, <3>3, Zenon
  <2> QED
    BY <2>1, <2>2
<1> QED
  BY <1>1, <1>9, <1>10, Zenon

\* No two attributes have the same id.
IdsDiffer(attrs) ==
    \A i, j \in 1..Len(attrs) : i < j => GetAttributeId(attrs[i]) # GetAttributeId(attrs[j])

LEMMA OnlyOfItsId ==
    ASSUME NEW buf, NEW attrs, Holds(buf, attrs), IdsDiffer(attrs), NEW k \in 1..Len(attrs)
    PROVE  GetAttributeImpl(buf, GetAttributeId(attrs[k])) = <<attrs[k]>>
<1>1. Len(attrs) \in Nat
  BY DEF Holds
<1>2. PICK id : id = GetAttributeId(attrs[k])
  OBVIOUS
<1>3. ASSUME NEW j \in 1..(k - 1) PROVE GetAttributeId(attrs[j]) # id
  <2>1. j \in 1..Len(attrs) /\ j < k
    BY <1>1
  <2> QED
    BY <1>2, <2>1 DEF IdsDiffer
<1>4. GetAttributeImpl(buf, id) = <<attrs[k]>>
  BY <1>2, <1>3, AttributeIsFound
<1> QED
  BY <1>2, <1>4, Zenon

LEMMA FourInANest ==
    ASSUME NEW a1 \in Attr, NEW a2 \in Attr, NEW a3 \in Attr, NEW a4 \in Attr,
           GetAttributeId(a1) # GetAttributeId(a2), GetAttributeId(a1) # GetAttributeId(a3),
           GetAttributeId(a1) # GetAttributeId(a4), GetAttributeId(a2) # GetAttributeId(a3),
           GetAttributeId(a2) # GetAttributeId(a4), GetAttributeId(a3) # GetAttributeId(a4),
           Len(a1) <= SizeOfAttr, Len(a2) <= SizeOfAttr,
           Len(a3) <= SizeOfAttr, Len(a4) <= SizeOfAttr,
           NEW id \in Nat, id < Size16
    PROVE  /\ IsNest(Nest(id, <<a1, a2, a3, a4>>), id, <<a1, a2, a3, a4>>)
           /\ \A c : Holds(c, <<a1, a2, a3, a4>>) =>
                 /\ GetAttributeImpl(c, GetAttributeId(a1)) = <<a1>>
                 /\ GetAttributeImpl(c, GetAttributeId(a2)) = <<a2>>
                 /\ GetAttributeImpl(c, GetAttributeId(a3)) = <<a3>>
                 /\ GetAttributeImpl(c, GetAttributeId(a4)) = <<a4>>
<1>1. PICK attrs : attrs = <<a1, a2, a3, a4>>
  OBVIOUS
<1>2. /\ attrs \in Seq(Attr) /\ Len(attrs) = 4
      /\ attrs[1] = a1 /\ attrs[2] = a2 /\ attrs[3] = a3 /\ attrs[4] = a4
  BY <1>1
<1>3. \A i \in 1..4 : i = 1 \/ i = 2 \/ i = 3 \/ i = 4
  OBVIOUS
<1>4. IdsDiffer(attrs)
  BY <1>2, <1>3 DEF IdsDiffer
<1>5. IsNest(Nest(id, attrs), id, attrs)
  <2>1. 4 \in Nat /\ 4 <= 15
    OBVIOUS
  <2>2. \A i \in 1..4 : Len(attrs[i]) <= SizeOfAttr
    BY <1>2, <1>3, Zenon
  <2> QED
    BY <1>2, <2>1, <2>2, ShortNest
<1>6. ASSUME NEW c, Holds(c, attrs), NEW k \in 1..4
      PROVE  GetAttributeImpl(c, GetAttributeId(attrs[k])) = <<attrs[k]>>
  BY <1>2, <1>4, <1>6, OnlyOfItsId
<1>7. 1 \in 1..4 /\ 2 \in 1..4 /\ 3 \in 1..4 /\ 4 \in 1..4
  OBVIOUS
<1>8. ASSUME NEW c, Holds(c, attrs)
      PROVE  /\ GetAttributeImpl(c, GetAttributeId(a1)) = <<a1>>
             /\ GetAttributeImpl(c, GetAttributeId(a2)) = <<a2>>
             /\ GetAttributeImpl(c, GetAttributeId(a3)) = <<a3>>
             /\ GetAttributeImpl(c, GetAttributeId(a4)) = <<a4>>
  BY <1>2, <1>6, <1>7, <1>8, Zenon
<1> QED
  BY <1>1, <1>5, <1>8, Zenon

LEMMA StationIds ==
    /\ ATTR.MAC = 6 /\ ATTR.STA_INFO = 21
    /\ STA_INFO.SIGNAL = 7 /\ STA_INFO.TX_BITRATE = 8
    /\ STA_INFO.TX_PACKETS = 10 /\ STA_INFO.TX_FAILED = 12
BY DEF ATTR, STA_INFO

LEMMA SmallIds == \A id \in 0..255 : id \in Nat /\ id < Size16
BY DEF Size16

(* GetStationInfo reads of the kernel's answer what the kernel wrote, for   *)
(* every signal, counter and rate; a rate of zero, which the kernel leaves  *)
(* out, makes it fail.  It is what StationAnswersAreExact of Queries says   *)
(* of the data.                                                             *)
THEOREM StationIsReadAsWritten ==
    ASSUME NEW station \in Station
    PROVE  GetStationInfo(<<StationMessage(station)>>) =
             IF station.bitrate > 0
             THEN <<StationInfo(station.packets, station.failed, station.bitrate, station.rssi)>>
             ELSE <<>>
<1>1. PICK packets \in Int32 : packets = station.packets
  BY DEF Station
<1>2. PICK failed \in Int32 : failed = station.failed
  BY DEF Station
<1>3. PICK rssi \in -128..127 : rssi = station.rssi
  BY DEF Station
<1>4. PICK rate \in Nat : rate = station.bitrate /\ Fits32(rate)
  BY DEF Station
<1>5. PICK mac \in Bytes : mac = station.mac
  BY DEF Station
<1>6. PICK i1 \in Nat : i1 = STA_INFO.SIGNAL /\ i1 = 7 /\ i1 < Size16
  BY StationIds, SmallIds
<1>7. PICK i2 \in Nat : i2 = STA_INFO.TX_BITRATE /\ i2 = 8 /\ i2 < Size16
  BY StationIds, SmallIds
<1>8. PICK i3 \in Nat : i3 = STA_INFO.TX_PACKETS /\ i3 = 10 /\ i3 < Size16
  BY StationIds, SmallIds
<1>9. PICK i4 \in Nat : i4 = STA_INFO.TX_FAILED /\ i4 = 12 /\ i4 < Size16
  BY StationIds, SmallIds
<1>10. PICK j1 \in Nat : j1 = ATTR.MAC /\ j1 = 6 /\ j1 < Size16
  BY StationIds, SmallIds
<1>11. PICK j2 \in Nat : j2 = ATTR.STA_INFO /\ j2 = 21 /\ j2 < Size16
  BY StationIds, SmallIds
<1>12. /\ i1 # i2 /\ i1 # i3 /\ i1 # i4 /\ i2 # i3 /\ i2 # i4 /\ i3 # i4 /\ j1 # j2
  BY <1>6, <1>7, <1>8, <1>9, <1>10, <1>11
<1>13. 1 \in 1..8 /\ 4 \in 1..8 /\ rssi \in Int /\ packets \in Int /\ failed \in Int
  BY DEF Int32
<1>14. PICK a1 \in Attr : a1 = IntAttr(i1, rssi, 1) /\ GetAttributeId(a1) = i1 /\ Len(a1) <= 12
  BY <1>6, <1>13, IntAttribute, Zenon
<1>15. PICK a3 \in Attr : a3 = IntAttr(i3, packets, 4) /\ GetAttributeId(a3) = i3 /\ Len(a3) <= 12
  BY <1>8, <1>13, IntAttribute, Zenon
<1>16. PICK a4 \in Attr : a4 = IntAttr(i4, failed, 4) /\ GetAttributeId(a4) = i4 /\ Len(a4) <= 12
  BY <1>9, <1>13, IntAttribute, Zenon
<1>17. PICK a2 : a2 = Nest(i2, Optional(rate > 0, IntAttr(RATE_INFO.BITRATE32, rate, 4)))
  OBVIOUS
<1>18. PICK rates : /\ IsNest(a2, i2, rates)
                    /\ Len(a2) <= SizeOfAttr
                    /\ \A c : Holds(c, rates) => GetInt(c, RATE_INFO.BITRATE32, 4) =
                                                   IF rate > 0 THEN <<rate>> ELSE <<>>
  BY <1>4, <1>7, <1>17, RateIsRead
<1>19. a2 \in Attr /\ GetAttributeId(a2) = i2
  BY <1>18, Zenon DEF IsNest
<1>20. Len(a1) <= SizeOfAttr /\ Len(a3) <= SizeOfAttr /\ Len(a4) <= SizeOfAttr
  <2>1. Len(a1) \in Nat /\ Len(a3) \in Nat /\ Len(a4) \in Nat
    BY AttrIsAligned
  <2> QED
    BY <1>14, <1>15, <1>16, <2>1 DEF SizeOfAttr
<1>21. PICK attrs : attrs = <<a1, a2, a3, a4>>
  OBVIOUS
<1>22. PICK nest : nest = Nest(j2, attrs)
  OBVIOUS
<1>23. /\ IsNest(nest, j2, attrs)
       /\ \A c : Holds(c, attrs) =>
             /\ GetAttributeImpl(c, i1) = <<a1>> /\ GetAttributeImpl(c, i2) = <<a2>>
             /\ GetAttributeImpl(c, i3) = <<a3>> /\ GetAttributeImpl(c, i4) = <<a4>>
  BY <1>11, <1>12, <1>14, <1>15, <1>16, <1>18, <1>19, <1>20, <1>21, <1>22, FourInANest
<1>24. PICK m \in Attr : m = BaseNL80211Attr(j1, mac) /\ GetAttributeId(m) = j1
  BY <1>10, BytesAttribute, Zenon
<1>25. PICK both : both = <<m, nest>>
  OBVIOUS
<1>26. both \in Seq(Attr) /\ Len(both) = 2 /\ both[1] = m /\ both[2] = nest /\ nest \in Attr
  BY <1>23, <1>25 DEF IsNest
<1>27. PICK p : p = Reply("NEW_STATION", both)
  OBVIOUS
<1>28. StationMessage(station) = p
  BY <1>1, <1>2, <1>3, <1>4, <1>5, <1>6, <1>7, <1>8, <1>9, <1>10, <1>11,
     <1>14, <1>15, <1>16, <1>17, <1>21, <1>22, <1>24, <1>25, <1>27, Zenon DEF StationMessage
<1>29. IsReply(p, "NEW_STATION", both)
  BY <1>26, <1>27, ReplyHolds
<1>30. GetAttributeImpl(p.body, j2) = <<nest>>
  <2>1. GetAttributeId(nest) = j2
    BY <1>23, Zenon DEF IsNest
  <2>2. 2 \in 1..Len(both) /\ \A j \in 1..(2 - 1) : j = 1
    BY <1>26
  <2>3. \A j \in 1..(2 - 1) : GetAttributeId(both[j]) # j2
    BY <1>12, <1>24, <1>26, <2>2, Zenon
  <2>4. Holds(p.body, both)
    BY <1>29 DEF IsReply
  <2>5. GetAttributeImpl(p.body, j2) = <<both[2]>>
    BY <1>26, <2>1, <2>2, <2>3, <2>4, AttributeIsFound
  <2> QED
    BY <1>26, <2>5, Zenon
<1>31. PICK c : GetNested(p.body, j2) = <<c>> /\ Holds(c, attrs)
  BY <1>23, <1>30, NestContent, Zenon
<1>32. /\ GetAttributeImpl(c, i1) = <<a1>> /\ GetAttributeImpl(c, i2) = <<a2>>
       /\ GetAttributeImpl(c, i3) = <<a3>> /\ GetAttributeImpl(c, i4) = <<a4>>
  BY <1>23, <1>31, Zenon
<1>33. GetSigned(c, i1, 1) = <<rssi>>
  <2>1. Signed(IntBytes(rssi, 1)) = rssi
    BY SignedByteIsRead, Zenon
  <2> QED
    BY <1>6, <1>13, <1>14, <1>32, <2>1, SignedIsFound
<1>34. GetSigned(c, i3, 4) = <<packets>>
  <2>1. Signed(IntBytes(packets, 4)) = packets
    BY SignedIsRead, Zenon
  <2> QED
    BY <1>8, <1>13, <1>15, <1>32, <2>1, SignedIsFound
<1>35. GetSigned(c, i4, 4) = <<failed>>
  <2>1. Signed(IntBytes(failed, 4)) = failed
    BY SignedIsRead, Zenon
  <2> QED
    BY <1>9, <1>13, <1>16, <1>32, <2>1, SignedIsFound
<1>36. PICK d : GetNested(c, i2) = <<d>> /\ Holds(d, rates)
  BY <1>18, <1>32, NestContent, Zenon
<1>37. PICK found : found = GetInt(d, RATE_INFO.BITRATE32, 4)
  OBVIOUS
<1>38. found = IF rate > 0 THEN <<rate>> ELSE <<>>
  BY <1>18, <1>36, <1>37, Zenon
<1>39. IfFound(GetNested(c, i2), LAMBDA r : GetInt(r, RATE_INFO.BITRATE32, 4)) = found
  <2>1. <<d>> # <<>> /\ <<d>>[1] = d
    OBVIOUS
  <2> QED
    BY <1>36, <1>37, <2>1 DEF IfFound
<1>40. SingleResponse(<<p>>) # <<>> /\ <<p>>[1] = p
  BY <1>29 DEF SingleResponse, IsReply
<1>41. PICK result : result =
          IF <<>> \in {<<packets>>, <<failed>>, <<rssi>>, found} THEN <<>>
          ELSE <<StationInfo(packets, failed, found[1], rssi)>>
  OBVIOUS
<1>42. GetStationInfo(<<p>>) = result
  <2>1. <<c>> # <<>> /\ <<c>>[1] = c
    OBVIOUS
  <2>2. <<packets>>[1] = packets /\ <<failed>>[1] = failed /\ <<rssi>>[1] = rssi
    OBVIOUS
  <2>3. p.command = "NEW_STATION"
    BY <1>29 DEF IsReply
  <2> QED
    BY <1>6, <1>7, <1>8, <1>9, <1>11, <1>31, <1>33, <1>34, <1>35, <1>39, <1>40, <1>41,
       <2>1, <2>2, <2>3, ZenonT(60) DEF GetStationInfo, IfFound
<1>43. result = IF rate > 0 THEN <<StationInfo(packets, failed, rate, rssi)>> ELSE <<>>
  <2>1. CASE rate > 0
    <3>1. found = <<rate>> /\ found[1] = rate
      BY <1>38, <2>1
    <3>2. <<>> \notin {<<packets>>, <<failed>>, <<rssi>>, found}
      BY <3>1
    <3> QED
      BY <1>41, <2>1, <3>1, <3>2, Zenon
  <2>2. CASE ~(rate > 0)
    <3>1. found = <<>>
      BY <1>38, <2>2, Zenon
    <3> QED
      BY <1>41, <2>2, <3>1, Zenon
  <2> QED
    BY <2>1, <2>2, Zenon
<1> QED
  BY <1>1, <1>2, <1>3, <1>4, <1>28, <1>42, <1>43, Zenon

-----------------------------------------------------------------------------
(* Flattened sequences *)

\* The sequence seqs[k] is in flat from pos[k - 1] + 1 to pos[k].
Flattened(flat, seqs, pos) ==
    /\ pos \in [0 .. Len(seqs) -> Nat]
    /\ pos[0] = 0
    /\ Len(flat) = pos[Len(seqs)]
    /\ \A k \in 1 .. Len(seqs) :
          /\ pos[k] = pos[k - 1] + Len(seqs[k])
          /\ pos[k] <= Len(flat)
          /\ \A j \in 1 .. Len(seqs[k]) : flat[pos[k - 1] + j] = seqs[k][j]

(* The loop of FlattenSeq, as a run from the empty sequence.                *)
LEMMA FlattenRuns ==
    ASSUME NEW T, NEW seqs \in Seq(Seq(T)), NEW n \in Nat, n = Len(seqs)
    PROVE  \E f \in [0..n -> Seq(T)] : /\ f[0] = <<>>
                                       /\ \A k \in 1..n : f[k] = f[k - 1] \o seqs[k]
                                       /\ FlattenSeq(seqs) = f[n]
<1>1. PICK none \in Seq(T) : none = <<>>
  <2>1. <<>> \in Seq(T)
    BY EmptySeq
  <2> QED
    BY <2>1, Zenon
<1>2. \A k \in 1..n : seqs[k] \in Seq(T)
  OBVIOUS
<1> DEFINE step == [p \in Seq(T) \X (1..n) |-> p[1] \o seqs[p[2]]]
<1>3. ASSUME NEW x \in Seq(T), NEW k \in 1..n PROVE x \o seqs[k] \in Seq(T)
  BY <1>2, Joined, Zenon
<1>4. /\ step \in [Seq(T) \X (1..n) -> Seq(T)]
      /\ \A x \in Seq(T), k \in 1..n : step[<<x, k>>] = x \o seqs[k]
  BY <1>3
<1> HIDE DEF step
<1>5. PICK f : IsRun(f, n, Seq(T), none, step)
  BY <1>4, Recursion, Zenon
<1>6. f \in [0..n -> Seq(T)] /\ f[0] = none
  BY <1>5, Zenon DEF IsRun
<1>7. ASSUME NEW k \in 1..n PROVE f[k] = f[k - 1] \o seqs[k]
  <2>1. k - 1 \in 0..n
    OBVIOUS
  <2>2. f[k - 1] \in Seq(T)
    BY <1>6, <2>1
  <2>3. f[k] = step[<<f[k - 1], k>>]
    BY <1>5, Zenon DEF IsRun
  <2> QED
    BY <1>4, <2>2, <2>3, Zenon
<1>8. FlattenSeq(seqs) = f[n]
  <2>1. CASE n = 0
    <3>1. seqs = none
      BY <1>1, <2>1, EmptySeq
    <3> QED
      BY <1>6, <2>1, <3>1, Zenon DEF FlattenSeq
  <2>2. CASE n # 0
    <3> DEFINE Step(g) == [i \in 1..n |-> IF i = 1 THEN seqs[i] ELSE g[i - 1] \o seqs[i]]
    <3> DEFINE F == CHOOSE g : g = Step(g)
    <3>1. FlattenSeq(seqs) = F[n]
      BY <2>2 DEF FlattenSeq
    <3> DEFINE h == [i \in 1..n |-> f[i]]
    <3>2. f[1] = seqs[1]
      <4>1. 1 \in 1..n /\ 1 - 1 = 0
        BY <2>2
      <4>2. f[1] = none \o seqs[1]
        BY <1>6, <1>7, <4>1
      <4> QED
        BY <1>1, <1>2, <4>1, <4>2
    <3>3. h = Step(h)
      <4>1. ASSUME NEW i \in 1..n
            PROVE  f[i] = IF i = 1 THEN seqs[i] ELSE h[i - 1] \o seqs[i]
        <5>1. CASE i = 1
          BY <3>2, <5>1
        <5>2. CASE i # 1
          <6>1. i - 1 \in 1..n
            BY <5>2
          <6>2. h[i - 1] = f[i - 1]
            BY <6>1
          <6> QED
            BY <1>7, <5>2, <6>2, Zenon
        <5> QED
          BY <5>1, <5>2
      <4> QED
        BY <4>1
    <3>4. F = Step(F)
      <4> HIDE DEF Step, h
      <4> QED
        BY <3>3
    <3>5. \A i \in 1..n : h[i] = f[i]
      OBVIOUS
    <3> HIDE DEF F, h
    <3>6. \A i \in 1..n : F[i] = IF i = 1 THEN seqs[i] ELSE F[i - 1] \o seqs[i]
      BY <3>4
    <3> DEFINE S == {k \in 0..n : k # 0 => F[k] = f[k]}
    <3>7. 0 \in S
      OBVIOUS
    <3>8. ASSUME NEW k \in 0..(n - 1), k \in S PROVE k + 1 \in S
      <4>1. PICK j \in 1..n : j = k + 1 /\ j - 1 = k
        OBVIOUS
      <4>2. F[j] = f[j]
        <5>1. CASE k = 0
          <6>1. j = 1
            BY <4>1, <5>1
          <6> QED
            BY <3>2, <3>6, <6>1, Zenon
        <5>2. CASE k # 0
          <6>1. F[j] = F[k] \o seqs[j]
            <7>1. j # 1
              BY <4>1, <5>2
            <7>2. F[j] = F[j - 1] \o seqs[j]
              BY <3>6, <7>1, Zenon
            <7> QED
              BY <4>1, <7>2, Zenon
          <6>2. F[k] = f[k]
            BY <3>8, <5>2
          <6>3. f[j] = f[k] \o seqs[j]
            BY <1>7, <4>1
          <6> QED
            BY <6>1, <6>2, <6>3, Zenon
        <5> QED
          BY <5>1, <5>2
      <4> QED
        BY <4>1, <4>2
    <3> HIDE DEF S
    <3>9. \A k \in 0..n : k \in S
      BY <3>7, <3>8, Induction, Zenon
    <3>10. F[n] = f[n]
      BY <2>2, <3>9 DEF S
    <3> QED
      BY <3>1, <3>10, Zenon
  <2> QED
    BY <2>1, <2>2
<1> QED
  BY <1>1, <1>6, <1>7, <1>8

LEMMA FlattenIs ==
    ASSUME NEW T, NEW seqs \in Seq(Seq(T))
    PROVE  FlattenSeq(seqs) \in Seq(T) /\ \E pos : Flattened(FlattenSeq(seqs), seqs, pos)
<1>1. PICK n \in Nat : n = Len(seqs)
  OBVIOUS
<1>2. PICK f \in [0..n -> Seq(T)] : /\ f[0] = <<>>
                                    /\ \A k \in 1..n : f[k] = f[k - 1] \o seqs[k]
                                    /\ FlattenSeq(seqs) = f[n]
  BY <1>1, FlattenRuns
<1>3. \A k \in 1..n : seqs[k] \in Seq(T)
  BY <1>1
<1> DEFINE pos == [k \in 0..n |-> Len(f[k])]
<1>4. pos \in [0..n -> Nat] /\ \A k \in 0..n : pos[k] = Len(f[k])
  BY <1>2
<1> HIDE DEF pos
<1>5. pos[0] = 0
  BY <1>2, <1>4
<1>6. ASSUME NEW k \in 1..n
      PROVE  /\ pos[k] = pos[k - 1] + Len(seqs[k])
             /\ \A i \in 1..pos[k - 1] : f[k][i] = f[k - 1][i]
             /\ \A j \in 1..Len(seqs[k]) : f[k][pos[k - 1] + j] = seqs[k][j]
  <2>1. k - 1 \in 0..n /\ k \in 0..n
    OBVIOUS
  <2>2. PICK s \in Seq(T) : s = f[k - 1]
    BY <1>2, <2>1
  <2>3. PICK t \in Seq(T) : t = seqs[k]
    BY <1>3
  <2>4. f[k] = s \o t
    BY <1>2, <2>2, <2>3, Zenon
  <2>5. pos[k - 1] = Len(s) /\ pos[k] = Len(s \o t)
    BY <1>4, <2>1, <2>2, <2>4, Zenon
  <2>6. /\ Len(s \o t) = Len(s) + Len(t)
        /\ \A i \in 1..Len(s) : (s \o t)[i] = s[i]
        /\ \A j \in 1..Len(t) : (s \o t)[Len(s) + j] = t[j]
    BY Joined
  <2> QED
    BY <2>2, <2>3, <2>4, <2>5, <2>6, Zenon
<1> DEFINE S == {m \in 0..n : \A k \in 1..m :
                    /\ pos[k] <= pos[m]
                    /\ \A j \in 1..Len(seqs[k]) : f[m][pos[k - 1] + j] = seqs[k][j]}
<1>7. 0 \in S
  OBVIOUS
<1>8. ASSUME NEW m \in 0..(n - 1), m \in S PROVE m + 1 \in S
  <2>1. PICK q \in 1..n : q = m + 1 /\ q - 1 = m
    OBVIOUS
  <2>2. ASSUME NEW k \in 1..q
        PROVE  /\ pos[k] <= pos[q]
               /\ \A j \in 1..Len(seqs[k]) : f[q][pos[k - 1] + j] = seqs[k][j]
    <3>1. CASE k = q
      <4>1. pos[q] \in Nat
        BY <1>4
      <4>2. pos[k] <= pos[q]
        BY <3>1, <4>1
      <4>3. k \in 1..n
        BY <3>1
      <4>4. \A j \in 1..Len(seqs[k]) : f[k][pos[k - 1] + j] = seqs[k][j]
        BY <1>6, <4>3, Zenon
      <4> QED
        BY <3>1, <4>2, <4>4, Zenon
    <3>2. CASE k # q
      <4>1. k \in 1..m /\ k \in 1..n /\ k - 1 \in 0..n /\ m \in 0..n /\ k \in 0..n /\ q \in 0..n
        BY <2>1, <3>2
      <4>2. pos[k] <= pos[m] /\ \A j \in 1..Len(seqs[k]) : f[m][pos[k - 1] + j] = seqs[k][j]
        BY <1>8, <4>1
      <4>3. pos[k] = pos[k - 1] + Len(seqs[k])
        BY <1>6, <4>1
      <4>4. pos[q] = pos[m] + Len(seqs[q])
        BY <1>6, <2>1
      <4>5. pos[k - 1] \in Nat /\ pos[k] \in Nat /\ pos[m] \in Nat /\ pos[q] \in Nat
        BY <1>4, <4>1
      <4>6. Len(seqs[q]) \in Nat /\ Len(seqs[k]) \in Nat
        BY <1>3, <4>1
      <4>7. pos[k] <= pos[q]
        <5>1. PICK c \in Nat, d \in Nat, e \in Nat, l \in Nat :
                 c = pos[k] /\ d = pos[m] /\ e = pos[q] /\ l = Len(seqs[q])
          BY <4>5, <4>6, Zenon
        <5>2. c <= d /\ e = d + l
          BY <4>2, <4>4, <5>1, Zenon
        <5>3. c <= e
          BY <5>2
        <5> QED
          BY <5>1, <5>3, Zenon
      <4>8. ASSUME NEW j \in 1..Len(seqs[k]) PROVE f[q][pos[k - 1] + j] = seqs[k][j]
        <5>1. PICK b \in Nat, c \in Nat, d \in Nat, l \in Nat :
                 b = pos[k - 1] /\ c = pos[k] /\ d = pos[m] /\ l = Len(seqs[k])
          BY <4>5, <4>6
        <5>2. c = b + l /\ c <= d /\ j \in 1..l
          BY <4>2, <4>3, <5>1, Zenon
        <5>3. b + j \in 1..d
          BY <5>2
        <5>4. \A i \in 1..pos[q - 1] : f[q][i] = f[q - 1][i]
          BY <1>6, Zenon
        <5>5. f[q][pos[k - 1] + j] = f[m][pos[k - 1] + j]
          BY <2>1, <5>1, <5>3, <5>4, Zenon
        <5> QED
          BY <4>2, <5>5, Zenon
      <4> QED
        BY <4>7, <4>8
    <3> QED
      BY <3>1, <3>2
  <2>3. q \in 0..n
    OBVIOUS
  <2> QED
    BY <2>1, <2>2, <2>3
<1> HIDE DEF S
<1>9. \A m \in 0..n : m \in S
  BY <1>7, <1>8, Induction, Zenon
<1>10. \A k \in 1..n :
          /\ pos[k] <= pos[n]
          /\ \A j \in 1..Len(seqs[k]) : f[n][pos[k - 1] + j] = seqs[k][j]
  <2>1. n \in S
    BY <1>9
  <2> QED
    BY <2>1 DEF S
<1>11. n \in 0..n
  OBVIOUS
<1>12. Len(FlattenSeq(seqs)) = pos[n] /\ FlattenSeq(seqs) \in Seq(T)
  BY <1>2, <1>4, <1>11, Zenon
<1>13. Flattened(FlattenSeq(seqs), seqs, pos)
  BY <1>1, <1>2, <1>4, <1>5, <1>6, <1>10, <1>12, Zenon DEF Flattened
<1> QED
  BY <1>12, <1>13

LEMMA FlattenOne ==
    ASSUME NEW T, NEW s \in Seq(T)
    PROVE  FlattenSeq(<<s>>) = s
<1>1. PICK seqs \in Seq(Seq(T)) : seqs = <<s>> /\ Len(seqs) = 1 /\ seqs[1] = s
  <2>1. PICK S : S = Seq(T) /\ s \in S
    OBVIOUS
  <2>2. <<s>> \in Seq(S) /\ Len(<<s>>) = 1 /\ <<s>>[1] = s
    BY <2>1
  <2> QED
    BY <2>1, <2>2, Zenon
<1>2. PICK flat \in Seq(T) : flat = FlattenSeq(seqs) /\ \E pos : Flattened(flat, seqs, pos)
  BY FlattenIs, Zenon
<1>3. PICK pos : Flattened(flat, seqs, pos)
  BY <1>2
<1>4. 1 \in 1..Len(seqs) /\ 1 - 1 = 0 /\ Len(s) \in Nat
  BY <1>1
<1>5. Len(flat) = pos[1] /\ pos[0] = 0
  BY <1>1, <1>3 DEF Flattened
<1>6. pos[1] = pos[0] + Len(s)
  BY <1>1, <1>3, <1>4 DEF Flattened
<1>7. \A j \in 1..Len(s) : flat[pos[0] + j] = s[j]
  BY <1>1, <1>3, <1>4 DEF Flattened
<1>8. Len(flat) = Len(s)
  BY <1>4, <1>5, <1>6
<1>9. \A j \in 1..Len(s) : flat[j] = s[j]
  <2>1. ASSUME NEW j \in 1..Len(s) PROVE flat[j] = s[j]
    <3>1. flat[0 + j] = s[j]
      BY <1>5, <1>7, Zenon
    <3>2. 0 + j = j
      BY <1>4
    <3> QED
      BY <3>1, <3>2, Zenon
  <2> QED
    BY <2>1
<1>10. flat = s
  BY <1>8, <1>9, SeqEqual
<1> QED
  BY <1>1, <1>2, <1>10, Zenon

-----------------------------------------------------------------------------
(* Information elements *)

Element == [id : Byte, body : {b \in Seq(Byte) : Len(b) <= 255}]

LEMMA ElementBytes ==
    ASSUME NEW e \in Element
    PROVE  \E l \in Nat, body \in Seq(Byte), b \in Seq(Byte) :
              /\ body = e.body /\ l = Len(body)
              /\ b = <<e.id, Len(e.body)>> \o e.body
              /\ Len(b) = 2 + l /\ b[1] = e.id /\ b[2] = l
              /\ \A j \in 1..l : b[2 + j] = body[j]
<1>1. PICK body \in Seq(Byte) : body = e.body /\ Len(body) <= 255
  BY DEF Element
<1>2. PICK l \in Byte : l = Len(body)
  <2>1. PICK n \in Nat : n = Len(body)
    OBVIOUS
  <2>2. n <= 255
    BY <1>1, <2>1, Zenon
  <2>3. n \in 0..255
    BY <2>2
  <2> QED
    BY <2>1, <2>3, Zenon DEF Byte
<1>3. PICK id \in Byte : id = e.id
  BY DEF Element
<1>4. PICK h \in Seq(Byte) : h = <<id, l>> /\ Len(h) = 2 /\ h[1] = id /\ h[2] = l
  <2>1. <<id, l>> \in Seq(Byte) /\ Len(<<id, l>>) = 2 /\ <<id, l>>[1] = id /\ <<id, l>>[2] = l
    OBVIOUS
  <2> QED
    BY <2>1, Zenon
<1>5. PICK b : b = h \o body
  OBVIOUS
<1>6. /\ b \in Seq(Byte) /\ Len(b) = Len(h) + Len(body)
      /\ \A i \in 1..Len(h) : b[i] = h[i]
      /\ \A j \in 1..Len(body) : b[Len(h) + j] = body[j]
  BY <1>5, Joined
<1>7. Len(b) = 2 + l
  BY <1>2, <1>4, <1>6, Zenon
<1>8. b[1] = id /\ b[2] = l
  <2>1. 1 \in 1..2 /\ 2 \in 1..2
    OBVIOUS
  <2> QED
    BY <1>4, <1>6, <2>1, Zenon
<1>9. \A j \in 1..l : b[2 + j] = body[j]
  BY <1>2, <1>4, <1>6, Zenon
<1>10. l \in Nat
  BY <1>2 DEF Byte
<1>11. b = <<e.id, Len(e.body)>> \o e.body
  BY <1>1, <1>2, <1>3, <1>4, <1>5, Zenon
<1>12. b \in Seq(Byte)
  BY <1>6, Zenon
<1>13. /\ body = e.body /\ l = Len(body)
       /\ b = <<e.id, Len(e.body)>> \o e.body
       /\ Len(b) = 2 + l /\ b[1] = e.id /\ b[2] = l
       /\ \A j \in 1..l : b[2 + j] = body[j]
  BY <1>1, <1>2, <1>3, <1>7, <1>8, <1>9, <1>11, Zenon
<1> QED
  BY <1>10, <1>12, <1>13

\* The element elements[k] is in ie from pos[k - 1] + 1 to pos[k].
ElementsIn(ie, elements, pos) ==
    /\ pos \in [0 .. Len(elements) -> Nat]
    /\ pos[0] = 0
    /\ pos[Len(elements)] = Len(ie)
    /\ \A k \in 1 .. Len(elements) :
          /\ pos[k] = pos[k - 1] + 2 + Len(elements[k].body)
          /\ pos[k] <= Len(ie)
          /\ ie[pos[k - 1] + 1] = elements[k].id
          /\ ie[pos[k - 1] + 2] = Len(elements[k].body)
          /\ \A j \in 1 .. Len(elements[k].body) :
                ie[pos[k - 1] + 2 + j] = elements[k].body[j]

LEMMA ElementsAreThere ==
    ASSUME NEW elements \in Seq(Element)
    PROVE  /\ InfoElements(elements) \in Seq(Byte)
           /\ \E pos : ElementsIn(InfoElements(elements), elements, pos)
<1>1. PICK n \in Nat : n = Len(elements) /\ DOMAIN elements = 1..n
  OBVIOUS
<1>2. \A k \in 1..n : elements[k] \in Element
  BY <1>1
<1> DEFINE parts == [i \in DOMAIN elements |->
                       <<elements[i].id, Len(elements[i].body)>> \o elements[i].body]
<1>3. InfoElements(elements) = FlattenSeq(parts)
  BY DEF InfoElements
<1>4. \A k \in 1..n : parts[k] = <<elements[k].id, Len(elements[k].body)>> \o elements[k].body
  BY <1>1
<1>5. parts = [i \in 1..n |-> parts[i]]
  BY <1>1
<1> HIDE DEF parts
<1>6. ASSUME NEW k \in 1..n
      PROVE  \E l \in Nat, body \in Seq(Byte), b \in Seq(Byte) :
                /\ body = elements[k].body /\ l = Len(body)
                /\ b = parts[k]
                /\ Len(b) = 2 + l /\ b[1] = elements[k].id /\ b[2] = l
                /\ \A j \in 1..l : b[2 + j] = body[j]
  <2>1. PICK e \in Element : e = elements[k]
    BY <1>2, Zenon
  <2>2. parts[k] = <<e.id, Len(e.body)>> \o e.body
    BY <1>4, <2>1, Zenon
  <2>3. PICK l \in Nat, body \in Seq(Byte), b \in Seq(Byte) :
           /\ body = e.body /\ l = Len(body)
           /\ b = <<e.id, Len(e.body)>> \o e.body
           /\ Len(b) = 2 + l /\ b[1] = e.id /\ b[2] = l
           /\ \A j \in 1..l : b[2 + j] = body[j]
    BY ElementBytes, Zenon
  <2>4. b = parts[k]
    BY <2>2, <2>3, Zenon
  <2> QED
    BY <2>1, <2>3, <2>4, Zenon
<1>7. \A k \in 1..n : parts[k] \in Seq(Byte)
  BY <1>6
<1>8. PICK S : S = Seq(Byte)
  OBVIOUS
<1>9. parts \in Seq(S) /\ Len(parts) = n
  BY <1>5, <1>7, <1>8
<1>10. PICK flat \in Seq(Byte) : flat = FlattenSeq(parts) /\ \E pos : Flattened(flat, parts, pos)
  <2>1. parts \in Seq(Seq(Byte))
    BY <1>8, <1>9, Zenon
  <2> QED
    BY <2>1, FlattenIs, Zenon
<1>11. PICK pos : Flattened(flat, parts, pos)
  BY <1>10
<1>12. /\ pos \in [0..n -> Nat] /\ pos[0] = 0 /\ Len(flat) = pos[n]
       /\ \A k \in 1..n :
             /\ pos[k] = pos[k - 1] + Len(parts[k])
             /\ pos[k] <= Len(flat)
             /\ \A j \in 1..Len(parts[k]) : flat[pos[k - 1] + j] = parts[k][j]
  BY <1>9, <1>11 DEF Flattened
<1>13. ASSUME NEW k \in 1..n
       PROVE  /\ pos[k] = pos[k - 1] + 2 + Len(elements[k].body)
              /\ pos[k] <= Len(flat)
              /\ flat[pos[k - 1] + 1] = elements[k].id
              /\ flat[pos[k - 1] + 2] = Len(elements[k].body)
              /\ \A j \in 1..Len(elements[k].body) :
                    flat[pos[k - 1] + 2 + j] = elements[k].body[j]
  <2>1. PICK l \in Nat, body \in Seq(Byte), b \in Seq(Byte) :
           /\ body = elements[k].body /\ l = Len(body)
           /\ b = parts[k]
           /\ Len(b) = 2 + l /\ b[1] = elements[k].id /\ b[2] = l
           /\ \A j \in 1..l : b[2 + j] = body[j]
    BY <1>6
  <2>2. PICK p \in Nat : p = pos[k - 1]
    <3>1. k - 1 \in 0..n
      OBVIOUS
    <3> QED
      BY <1>12, <3>1
  <2>3. /\ pos[k] = p + (2 + l)
        /\ pos[k] <= Len(flat)
        /\ \A j \in 1..(2 + l) : flat[p + j] = b[j]
    BY <1>12, <2>1, <2>2, Zenon
  <2>4. 1 \in 1..(2 + l) /\ 2 \in 1..(2 + l) /\ p + (2 + l) = p + 2 + l
    OBVIOUS
  <2>5. ASSUME NEW j \in 1..l PROVE flat[p + 2 + j] = body[j]
    <3>1. 2 + j \in 1..(2 + l) /\ p + (2 + j) = p + 2 + j
      OBVIOUS
    <3>2. flat[p + (2 + j)] = b[2 + j]
      BY <2>3, <3>1, Zenon
    <3> QED
      BY <2>1, <3>1, <3>2, Zenon
  <2> QED
    BY <2>1, <2>2, <2>3, <2>4, <2>5, Zenon
<1>14. ElementsIn(flat, elements, pos)
  BY <1>1, <1>12, <1>13, Zenon DEF ElementsIn
<1> QED
  BY <1>3, <1>10, <1>14, Zenon

(* A turn at an element takes its body if it is the SSID, else steps over it. *)
LEMMA ElementIsRead ==
    ASSUME NEW ie \in Seq(Byte), NEW body \in Seq(Byte), NEW id, NEW p \in Nat,
           p + 2 + Len(body) <= Len(ie), ie[p + 1] = id, ie[p + 2] = Len(body),
           \A j \in 1..Len(body) : ie[p + 2 + j] = body[j]
    PROVE  NextElement(ie, [at |-> p + 1, ssid |-> <<>>]) =
             IF id = kElemIdSsid THEN [at |-> p + 1, ssid |-> <<body>>]
             ELSE [at |-> p + 2 + Len(body) + 1, ssid |-> <<>>]
<1>1. PICK l \in Nat : l = Len(body)
  OBVIOUS
<1>2. PICK size \in Nat : size = Len(ie)
  OBVIOUS
<1>3. PICK s : s = [at |-> p + 1, ssid |-> <<>>]
  OBVIOUS
<1>4. s.at = p + 1 /\ s.ssid = <<>>
  BY <1>3
<1>5. (p + 1) + 1 = p + 2 /\ (p + 1) + 2 = (p + 2) + 1 /\ (p + 1) + 1 + l = (p + 2) + l
  OBVIOUS
<1>6. ~((p + 1) + 1 > size) /\ ~((p + 1) + 1 + l > size)
  BY <1>1, <1>2
<1>7. SubSeq(ie, (p + 2) + 1, (p + 2) + l) = body
  <2>1. p + 2 \in Nat
    OBVIOUS
  <2> QED
    BY <1>1, <2>1, PartIs
<1>8. CASE id = kElemIdSsid
  <2>1. NextElement(ie, s) = [s EXCEPT !.ssid = <<body>>]
    BY <1>1, <1>2, <1>4, <1>5, <1>6, <1>7, <1>8, Zenon DEF NextElement
  <2>2. [s EXCEPT !.ssid = <<body>>] = [at |-> p + 1, ssid |-> <<body>>]
    BY <1>3
  <2> QED
    BY <1>3, <1>8, <2>1, <2>2, Zenon
<1>9. CASE id # kElemIdSsid
  <2>1. NextElement(ie, s) = [s EXCEPT !.at = (p + 1) + 2 + l]
    BY <1>1, <1>2, <1>4, <1>5, <1>6, <1>9, Zenon DEF NextElement
  <2>2. (p + 1) + 2 + l = p + 2 + l + 1
    OBVIOUS
  <2>3. [s EXCEPT !.at = (p + 1) + 2 + l] = [at |-> p + 2 + l + 1, ssid |-> <<>>]
    BY <1>3, <2>2
  <2> QED
    BY <1>1, <1>3, <1>9, <2>1, <2>3, Zenon
<1> QED
  BY <1>8, <1>9

LEMMA ElementsEnd ==
    ASSUME NEW ie \in Seq(Byte)
    PROVE  /\ NextElement(ie, [at |-> Len(ie) + 1, ssid |-> <<>>])
                = [at |-> Len(ie) + 1, ssid |-> <<>>]
           /\ \A at, body : NextElement(ie, [at |-> at, ssid |-> <<body>>])
                              = [at |-> at, ssid |-> <<body>>]
<1>1. (Len(ie) + 1) + 1 > Len(ie)
  OBVIOUS
<1>2. NextElement(ie, [at |-> Len(ie) + 1, ssid |-> <<>>]) = [at |-> Len(ie) + 1, ssid |-> <<>>]
  BY <1>1 DEF NextElement
<1>3. ASSUME NEW at, NEW body
      PROVE  NextElement(ie, [at |-> at, ssid |-> <<body>>]) = [at |-> at, ssid |-> <<body>>]
  <2>1. <<body>> # <<>> /\ [at |-> at, ssid |-> <<body>>].ssid = <<body>>
    OBVIOUS
  <2> QED
    BY <2>1, Zenon DEF NextElement
<1> QED
  BY <1>2, <1>3

LEMMA BodyIsBytes ==
    ASSUME NEW elements \in Seq(Element), NEW k \in 1..Len(elements)
    PROVE  elements[k].body \in Seq(Byte)
<1>1. PICK e \in Element : e = elements[k]
  OBVIOUS
<1>2. e.body \in Seq(Byte)
  BY DEF Element
<1> QED
  BY <1>1, <1>2, Zenon

LEMMA ElementsAreSpread ==
    ASSUME NEW elements \in Seq(Element), NEW ie, NEW pos, ElementsIn(ie, elements, pos),
           NEW m \in 0..Len(elements)
    PROVE  pos[m] \in Nat /\ 2 * m <= pos[m]
<1>1. PICK n \in Nat : n = Len(elements)
  OBVIOUS
<1>2. pos \in [0..n -> Nat] /\ pos[0] = 0
  BY <1>1 DEF ElementsIn
<1> DEFINE S == {j \in 0..n : 2 * j <= pos[j]}
<1>3. 0 \in S
  BY <1>2
<1>4. ASSUME NEW j \in 0..(n - 1), j \in S PROVE j + 1 \in S
  <2>1. PICK i \in 1..n : i = j + 1 /\ i - 1 = j
    OBVIOUS
  <2>2. PICK body \in Seq(Byte) : body = elements[i].body
    BY <1>1, BodyIsBytes
  <2>3. pos[i] = pos[j] + 2 + Len(body)
    BY <1>1, <2>1, <2>2, Zenon DEF ElementsIn
  <2>4. pos[j] \in Nat /\ Len(body) \in Nat /\ 2 * j <= pos[j]
    BY <1>2, <1>4
  <2>5. 2 * i <= pos[i]
    BY <2>1, <2>3, <2>4
  <2>6. i \in 0..n
    OBVIOUS
  <2> QED
    BY <2>1, <2>5, <2>6
<1> HIDE DEF S
<1>5. \A j \in 0..n : j \in S
  BY <1>3, <1>4, Induction, Zenon
<1>6. m \in S
  BY <1>1, <1>5, Zenon
<1> QED
  BY <1>1, <1>2, <1>6 DEF S

(* The loop steps over m elements that are no SSID, and then ends.           *)
LEMMA SsidLoop ==
    ASSUME NEW elements \in Seq(Element), NEW ie \in Seq(Byte), NEW pos,
           ElementsIn(ie, elements, pos), NEW m \in 0..Len(elements),
           \A k \in 1..m : elements[k].id # kElemIdSsid, NEW final,
           NextElement(ie, [at |-> pos[m] + 1, ssid |-> <<>>]) = final,
           NextElement(ie, final) = final,
           m < Len(ie) \div 2 \/ final = [at |-> pos[m] + 1, ssid |-> <<>>]
    PROVE  GetSSIDFromInfoElement(ie) = final.ssid
<1>1. PICK n \in Nat : n = Len(elements)
  OBVIOUS
<1>2. PICK size \in Nat : size = Len(ie)
  OBVIOUS
<1>3. PICK turns \in Nat : turns = size \div 2
  OBVIOUS
<1>4. /\ pos \in [0..n -> Nat] /\ pos[0] = 0 /\ pos[n] = size
      /\ \A k \in 1..n :
          /\ pos[k] = pos[k - 1] + 2 + Len(elements[k].body)
          /\ pos[k] <= size
          /\ ie[pos[k - 1] + 1] = elements[k].id
          /\ ie[pos[k - 1] + 2] = Len(elements[k].body)
          /\ \A j \in 1..Len(elements[k].body) :
                ie[pos[k - 1] + 2 + j] = elements[k].body[j]
  BY <1>1, <1>2 DEF ElementsIn
<1> DEFINE State(j) == [at |-> pos[j] + 1, ssid |-> <<>>]
<1>5. ASSUME NEW k \in 1..m PROVE NextElement(ie, State(k - 1)) = State(k)
  <2>1. k \in 1..n /\ k - 1 \in 0..n
    BY <1>1
  <2>2. PICK body \in Seq(Byte) : body = elements[k].body
    BY <1>1, <2>1, BodyIsBytes
  <2>3. PICK id : id = elements[k].id
    OBVIOUS
  <2>4. PICK p \in Nat : p = pos[k - 1]
    BY <1>4, <2>1
  <2>5. /\ pos[k] = p + 2 + Len(body) /\ p + 2 + Len(body) <= Len(ie)
        /\ ie[p + 1] = id /\ ie[p + 2] = Len(body)
        /\ \A j \in 1..Len(body) : ie[p + 2 + j] = body[j]
    BY <1>2, <1>4, <2>1, <2>2, <2>3, <2>4, Zenon
  <2>6. NextElement(ie, [at |-> p + 1, ssid |-> <<>>]) =
             IF id = kElemIdSsid THEN [at |-> p + 1, ssid |-> <<body>>]
             ELSE [at |-> p + 2 + Len(body) + 1, ssid |-> <<>>]
    BY <2>5, ElementIsRead, Zenon
  <2>7. id # kElemIdSsid
    BY <2>3
  <2> QED
    BY <2>4, <2>5, <2>6, <2>7, Zenon
<1>6. State(0) = [at |-> 1, ssid |-> <<>>]
  BY <1>4
<1>7. NextElement(ie, State(m)) = final
  OBVIOUS
<1>8. m < turns \/ final = State(m)
  BY <1>2, <1>3
<1> HIDE DEF State
<1>9. m <= turns
  <2>1. n \in 0..Len(elements)
    BY <1>1
  <2>2. 2 * n <= size
    BY <1>4, <2>1, ElementsAreSpread
  <2> QED
    BY <1>1, <1>3, <2>2
<1> DEFINE W == [k \in 0..turns |-> IF k <= m THEN State(k) ELSE final]
<1> DEFINE Step(g) == [k \in 0..turns |->
                         IF k = 0 THEN [at |-> 1, ssid |-> <<>>] ELSE NextElement(ie, g[k - 1])]
<1> DEFINE F == CHOOSE g : g = Step(g)
<1>10. GetSSIDFromInfoElement(ie) = F[turns].ssid
  BY <1>2, <1>3 DEF GetSSIDFromInfoElement
<1>11. ASSUME NEW k \in 1..turns PROVE NextElement(ie, W[k - 1]) = W[k]
  <2>1. k - 1 \in 0..turns /\ k \in 0..turns
    OBVIOUS
  <2>2. /\ W[k - 1] = IF k - 1 <= m THEN State(k - 1) ELSE final
        /\ W[k] = IF k <= m THEN State(k) ELSE final
    BY <2>1
  <2> HIDE DEF W
  <2>3. CASE k <= m
    <3>1. k \in 1..m /\ k - 1 <= m
      BY <2>3
    <3> QED
      BY <1>5, <2>2, <2>3, <3>1, Zenon
  <2>4. CASE k = m + 1
    <3>1. k - 1 = m /\ k - 1 <= m /\ ~(k <= m)
      BY <2>4
    <3> QED
      BY <1>7, <2>2, <3>1, Zenon
  <2>5. CASE k > m + 1
    <3>1. ~(k - 1 <= m) /\ ~(k <= m)
      BY <2>5
    <3> QED
      BY <2>2, <3>1, Zenon
  <2> QED
    BY <2>3, <2>4, <2>5
<1>12. W[0] = [at |-> 1, ssid |-> <<>>] /\ W = [k \in 0..turns |-> W[k]]
  BY <1>6
<1>13. W[turns] = final
  <2>1. turns \in 0..turns
    OBVIOUS
  <2>2. W[turns] = IF turns <= m THEN State(turns) ELSE final
    BY <2>1
  <2> HIDE DEF W
  <2>3. CASE m < turns
    <3>1. ~(turns <= m)
      BY <2>3
    <3> QED
      BY <2>2, <3>1, Zenon
  <2>4. CASE ~(m < turns)
    <3>1. turns = m /\ turns <= m
      BY <1>9, <2>4
    <3> QED
      BY <1>8, <2>2, <2>4, <3>1, Zenon
  <2> QED
    BY <2>3, <2>4
<1> HIDE DEF W
<1>14. W = Step(W)
  <2>1. ASSUME NEW k \in 0..turns
        PROVE  W[k] = IF k = 0 THEN [at |-> 1, ssid |-> <<>>] ELSE NextElement(ie, W[k - 1])
    <3>1. CASE k = 0
      BY <1>12, <3>1
    <3>2. CASE k # 0
      <4>1. k \in 1..turns
        BY <3>2
      <4> QED
        BY <1>11, <3>2, <4>1
    <3> QED
      BY <3>1, <3>2
  <2> QED
    BY <1>12, <2>1
<1>15. F = Step(F)
  <2> HIDE DEF Step
  <2> QED
    BY <1>14
<1> HIDE DEF F
<1>16. /\ F[0] = [at |-> 1, ssid |-> <<>>]
       /\ \A k \in 1..turns : F[k] = NextElement(ie, F[k - 1])
  BY <1>15
<1> DEFINE T == {k \in 0..turns : F[k] = W[k]}
<1>17. 0 \in T
  BY <1>12, <1>16
<1>18. ASSUME NEW k \in 0..(turns - 1), k \in T PROVE k + 1 \in T
  <2>1. k + 1 \in 1..turns /\ k + 1 \in 0..turns /\ (k + 1) - 1 = k
    OBVIOUS
  <2>2. F[k + 1] = NextElement(ie, F[k]) /\ W[k + 1] = NextElement(ie, W[k])
    BY <1>11, <1>16, <2>1
  <2> QED
    BY <1>18, <2>1, <2>2
<1> HIDE DEF T
<1>19. turns \in T
  <2>1. \A k \in 0..turns : k \in T
    BY <1>17, <1>18, Induction, Zenon
  <2> QED
    BY <2>1
<1>20. F[turns] = final
  BY <1>13, <1>19 DEF T
<1> QED
  BY <1>10, <1>20, Zenon

(* The SSID is the body of the first element with its id, however long or    *)
(* short, wherever it stands.                                                *)
LEMMA SsidIsFound ==
    ASSUME NEW elements \in Seq(Element), NEW k \in 1..Len(elements),
           elements[k].id = kElemIdSsid, \A j \in 1..(k - 1) : elements[j].id # kElemIdSsid
    PROVE  GetSSIDFromInfoElement(InfoElements(elements)) = <<elements[k].body>>
<1>1. PICK ie \in Seq(Byte) : /\ ie = InfoElements(elements)
                              /\ \E pos : ElementsIn(ie, elements, pos)
  BY ElementsAreThere, Zenon
<1>2. PICK pos : ElementsIn(ie, elements, pos)
  BY <1>1
<1>3. PICK n \in Nat : n = Len(elements)
  OBVIOUS
<1>4. PICK m \in 0..n : m = k - 1 /\ k \in 1..n
  BY <1>3
<1>5. PICK body \in Seq(Byte) : body = elements[k].body
  BY BodyIsBytes
<1>6. PICK p \in Nat : p = pos[m]
  BY <1>2, <1>3, <1>4 DEF ElementsIn
<1>7. /\ pos[k] = p + 2 + Len(body) /\ pos[k] <= Len(ie)
      /\ ie[p + 1] = kElemIdSsid /\ ie[p + 2] = Len(body)
      /\ \A j \in 1..Len(body) : ie[p + 2 + j] = body[j]
  BY <1>2, <1>4, <1>5, <1>6, Zenon DEF ElementsIn
<1>8. PICK final : final = [at |-> p + 1, ssid |-> <<body>>]
  OBVIOUS
<1>9. NextElement(ie, [at |-> p + 1, ssid |-> <<>>]) = final
  BY <1>7, <1>8, ElementIsRead
<1>10. NextElement(ie, final) = final
  BY <1>8, ElementsEnd
<1>11. \A j \in 1..m : elements[j].id # kElemIdSsid
  BY <1>4
<1>12. 2 * m <= p
  BY <1>2, <1>3, <1>6, ElementsAreSpread
<1>13. m < Len(ie) \div 2
  <2>1. PICK size \in Nat : size = Len(ie)
    OBVIOUS
  <2>2. PICK l \in Nat : l = Len(body)
    OBVIOUS
  <2>3. p + 2 + l <= size
    BY <1>7, <2>1, <2>2, Zenon
  <2>4. m < size \div 2
    BY <1>12, <2>3
  <2> QED
    BY <2>1, <2>4, Zenon
<1>14. GetSSIDFromInfoElement(ie) = final.ssid
  <2>1. m \in 0..Len(elements)
    BY <1>3, Zenon
  <2>2. NextElement(ie, [at |-> pos[m] + 1, ssid |-> <<>>]) = final
    BY <1>6, <1>9, Zenon
  <2>3. m < Len(ie) \div 2 \/ final = [at |-> pos[m] + 1, ssid |-> <<>>]
    BY <1>13, Zenon
  <2> QED
    BY <1>2, <1>10, <1>11, <2>1, <2>2, <2>3, SsidLoop
<1> QED
  BY <1>1, <1>5, <1>8, <1>14

LEMMA NoSsidIsFound ==
    ASSUME NEW elements \in Seq(Element),
           \A j \in 1..Len(elements) : elements[j].id # kElemIdSsid
    PROVE  GetSSIDFromInfoElement(InfoElements(elements)) = <<>>
<1>1. PICK ie \in Seq(Byte) : /\ ie = InfoElements(elements)
                              /\ \E pos : ElementsIn(ie, elements, pos)
  BY ElementsAreThere, Zenon
<1>2. PICK pos : ElementsIn(ie, elements, pos)
  BY <1>1
<1>3. PICK n \in 0..Len(elements) : n = Len(elements)
  OBVIOUS
<1>4. pos[n] = Len(ie)
  BY <1>2, <1>3 DEF ElementsIn
<1>5. PICK final : final = [at |-> Len(ie) + 1, ssid |-> <<>>]
  OBVIOUS
<1>6. NextElement(ie, final) = final
  BY <1>5, ElementsEnd
<1>7. final = [at |-> pos[n] + 1, ssid |-> <<>>]
  BY <1>4, <1>5
<1>8. \A j \in 1..n : elements[j].id # kElemIdSsid
  BY <1>3
<1>9. GetSSIDFromInfoElement(ie) = final.ssid
  BY <1>2, <1>6, <1>7, <1>8, SsidLoop, Zenon
<1> QED
  BY <1>1, <1>5, <1>9

-----------------------------------------------------------------------------
(* What a look-up finds in lists put together *)

\* The first attribute with the id.
Found(attrs, id) ==
    LET found == {i \in DOMAIN attrs : GetAttributeId(attrs[i]) = id}
    IN  IF found = {} THEN <<>> ELSE <<attrs[Min(found)]>>

LEMMA FoundIs ==
    ASSUME NEW T, NEW attrs \in Seq(T), NEW id
    PROVE  /\ \A k \in 1..Len(attrs) :
                 /\ GetAttributeId(attrs[k]) = id
                 /\ \A j \in 1..(k - 1) : GetAttributeId(attrs[j]) # id
                 => Found(attrs, id) = <<attrs[k]>>
           /\ (\A k \in 1..Len(attrs) : GetAttributeId(attrs[k]) # id)
                 => Found(attrs, id) = <<>>
<1>1. PICK n \in Nat : n = Len(attrs) /\ DOMAIN attrs = 1..n
  OBVIOUS
<1>2. PICK found \in SUBSET Nat : found = {i \in DOMAIN attrs : GetAttributeId(attrs[i]) = id}
  <2>1. {i \in DOMAIN attrs : GetAttributeId(attrs[i]) = id} \in SUBSET Nat
    BY <1>1
  <2> QED
    BY <2>1, Zenon
<1>3. ASSUME NEW k \in 1..n, GetAttributeId(attrs[k]) = id,
             \A j \in 1..(k - 1) : GetAttributeId(attrs[j]) # id
      PROVE  Found(attrs, id) = <<attrs[k]>>
  <2>1. k \in found /\ found # {}
    BY <1>1, <1>2, <1>3
  <2>2. \A j \in found : k <= j
    BY <1>1, <1>2, <1>3
  <2>3. Min(found) = k
    BY <2>1, <2>2, MinIsLeast
  <2> QED
    BY <1>2, <2>1, <2>3, Zenon DEF Found
<1>4. ASSUME \A k \in 1..n : GetAttributeId(attrs[k]) # id PROVE Found(attrs, id) = <<>>
  <2>1. found = {}
    BY <1>1, <1>2, <1>4
  <2> QED
    BY <1>2, <2>1, Zenon DEF Found
<1> QED
  BY <1>1, <1>3, <1>4

\* The attribute with the id that comes first, or none.
LEMMA FirstOrNone ==
    ASSUME NEW T, NEW attrs \in Seq(T), NEW id
    PROVE  \/ \A k \in 1..Len(attrs) : GetAttributeId(attrs[k]) # id
           \/ \E k \in 1..Len(attrs) : /\ GetAttributeId(attrs[k]) = id
                                       /\ \A j \in 1..(k - 1) : GetAttributeId(attrs[j]) # id
<1>1. PICK n \in Nat : n = Len(attrs)
  OBVIOUS
<1> DEFINE S == {k \in 1..n : GetAttributeId(attrs[k]) = id}
<1>2. SUFFICES ASSUME S # {}
               PROVE  \E k \in 1..n : /\ GetAttributeId(attrs[k]) = id
                                      /\ \A j \in 1..(k - 1) : GetAttributeId(attrs[j]) # id
  BY <1>1
<1>3. S \in SUBSET Nat
  OBVIOUS
<1>4. PICK k \in S : \A j \in S : k <= j
  BY <1>2, <1>3, LeastNumber
<1>5. k \in 1..n /\ GetAttributeId(attrs[k]) = id
  OBVIOUS
<1>6. ASSUME NEW j \in 1..(k - 1) PROVE GetAttributeId(attrs[j]) # id
  <2>1. j \in 1..n /\ ~(k <= j)
    BY <1>5
  <2> QED
    BY <1>4, <2>1
<1> QED
  BY <1>5, <1>6

LEMMA FoundInBuffer ==
    ASSUME NEW buf, NEW attrs, Holds(buf, attrs), NEW id
    PROVE  GetAttributeImpl(buf, id) = Found(attrs, id)
<1>1. attrs \in Seq(Attr)
  BY DEF Holds
<1>2. CASE \A k \in 1..Len(attrs) : GetAttributeId(attrs[k]) # id
  <2>1. Found(attrs, id) = <<>>
    BY <1>1, <1>2, FoundIs, Zenon
  <2>2. GetAttributeImpl(buf, id) = <<>>
    BY <1>2, AttributeIsMissing, Zenon
  <2> QED
    BY <2>1, <2>2
<1>3. CASE \E k \in 1..Len(attrs) : /\ GetAttributeId(attrs[k]) = id
                                    /\ \A j \in 1..(k - 1) : GetAttributeId(attrs[j]) # id
  <2>1. PICK k \in 1..Len(attrs) : /\ GetAttributeId(attrs[k]) = id
                                   /\ \A j \in 1..(k - 1) : GetAttributeId(attrs[j]) # id
    BY <1>3
  <2>2. Found(attrs, id) = <<attrs[k]>>
    BY <1>1, <2>1, FoundIs
  <2>3. GetAttributeImpl(buf, id) = <<attrs[k]>>
    BY <2>1, AttributeIsFound
  <2> QED
    BY <2>2, <2>3, Zenon
<1> QED
  BY <1>1, <1>2, <1>3, FirstOrNone, Zenon

LEMMA FoundOfOne ==
    ASSUME NEW a \in Attr, NEW id
    PROVE  Found(<<a>>, id) = IF GetAttributeId(a) = id THEN <<a>> ELSE <<>>
<1>1. PICK s \in Seq(Attr) : s = <<a>>
  <2>1. <<a>> \in Seq(Attr)
    OBVIOUS
  <2> QED
    BY <2>1, Zenon
<1>2. Len(s) = 1 /\ s[1] = a
  BY <1>1
<1>3. \A k \in 1..1 : k = 1 /\ \A j \in 1..(k - 1) : FALSE
  OBVIOUS
<1>4. CASE GetAttributeId(a) = id
  <2>1. 1 \in 1..Len(s) /\ \A j \in 1..(1 - 1) : GetAttributeId(s[j]) # id
    BY <1>2, <1>3
  <2>2. Found(s, id) = <<s[1]>>
    BY <1>2, <1>4, <2>1, FoundIs
  <2> QED
    BY <1>1, <1>2, <1>4, <2>2, Zenon
<1>5. CASE GetAttributeId(a) # id
  <2>1. \A k \in 1..Len(s) : GetAttributeId(s[k]) # id
    BY <1>2, <1>3, <1>5, Zenon
  <2>2. Found(s, id) = <<>>
    BY <2>1, FoundIs, Zenon
  <2> QED
    BY <1>1, <1>5, <2>2, Zenon
<1> QED
  BY <1>4, <1>5

LEMMA FoundInNone ==
    ASSUME NEW id
    PROVE  Found(<<>>, id) = <<>>
BY DEF Found

LEMMA FoundInOptional ==
    ASSUME NEW c \in BOOLEAN, NEW a \in Attr, NEW id
    PROVE  Found(Optional(c, a), id) = IF c /\ GetAttributeId(a) = id THEN <<a>> ELSE <<>>
<1>1. CASE c
  <2>1. Optional(c, a) = <<a>>
    BY <1>1 DEF Optional
  <2> QED
    BY <1>1, <2>1, FoundOfOne, Zenon
<1>2. CASE ~c
  <2>1. Optional(c, a) = <<>>
    BY <1>2 DEF Optional
  <2> QED
    BY <1>2, <2>1, FoundInNone, Zenon
<1> QED
  BY <1>1, <1>2

(* In two lists, one after the other.                                       *)
\* The first sequence, unless it is empty.
OrElse(s, t) == IF s # <<>> THEN s ELSE t

LEMMA FoundInBoth ==
    ASSUME NEW s \in Seq(Attr), NEW t \in Seq(Attr), NEW id
    PROVE  Found(s \o t, id) = OrElse(Found(s, id), Found(t, id))
<1> USE DEF OrElse
<1>1. PICK m \in Nat : m = Len(s)
  OBVIOUS
<1>2. PICK n \in Nat : n = Len(t)
  OBVIOUS
<1>3. PICK u \in Seq(Attr) : /\ u = s \o t /\ Len(u) = m + n
                             /\ \A i \in 1..m : u[i] = s[i]
                             /\ \A j \in 1..n : u[m + j] = t[j]
  <2>1. /\ s \o t \in Seq(Attr) /\ Len(s \o t) = Len(s) + Len(t)
        /\ \A i \in 1..Len(s) : (s \o t)[i] = s[i]
        /\ \A j \in 1..Len(t) : (s \o t)[Len(s) + j] = t[j]
    BY Joined
  <2> QED
    BY <1>1, <1>2, <2>1, Zenon
<1>4. CASE \A k \in 1..m : GetAttributeId(s[k]) # id
  <2>1. Found(s, id) = <<>>
    BY <1>1, <1>4, FoundIs, Zenon
  <2>2. CASE \A k \in 1..n : GetAttributeId(t[k]) # id
    <3>1. Found(t, id) = <<>>
      BY <1>2, <2>2, FoundIs, Zenon
    <3>2. ASSUME NEW k \in 1..(m + n) PROVE GetAttributeId(u[k]) # id
      <4>1. CASE k <= m
        <5>1. k \in 1..m
          BY <4>1
        <5> QED
          BY <1>3, <1>4, <5>1, Zenon
      <4>2. CASE ~(k <= m)
        <5>1. PICK j \in 1..n : k = m + j
          <6>1. k - m \in 1..n /\ k = m + (k - m)
            BY <4>2
          <6> QED
            BY <6>1
        <5> QED
          BY <1>3, <2>2, <5>1, Zenon
      <4> QED
        BY <4>1, <4>2
    <3>3. Found(u, id) = <<>>
      BY <1>3, <3>2, FoundIs, Zenon
    <3> QED
      BY <1>3, <2>1, <3>1, <3>3, Zenon
  <2>3. CASE \E k \in 1..n : /\ GetAttributeId(t[k]) = id
                             /\ \A j \in 1..(k - 1) : GetAttributeId(t[j]) # id
    <3>1. PICK k \in 1..n : /\ GetAttributeId(t[k]) = id
                            /\ \A j \in 1..(k - 1) : GetAttributeId(t[j]) # id
      BY <2>3
    <3>2. Found(t, id) = <<t[k]>>
      BY <1>2, <3>1, FoundIs, SMTT(30)
    <3>3. ASSUME NEW i \in 1..((m + k) - 1) PROVE GetAttributeId(u[i]) # id
      <4>1. CASE i <= m
        <5>1. i \in 1..m
          BY <4>1
        <5> QED
          BY <1>3, <1>4, <5>1, Zenon
      <4>2. CASE ~(i <= m)
        <5>1. PICK j \in 1..(k - 1) : i = m + j
          <6>1. i - m \in 1..(k - 1) /\ i = m + (i - m)
            BY <4>2
          <6> QED
            BY <6>1
        <5>2. j \in 1..n
          OBVIOUS
        <5> QED
          BY <1>3, <3>1, <5>1, <5>2, Zenon
      <4> QED
        BY <4>1, <4>2
    <3>4. PICK q \in 1..Len(u) : q = m + k
      BY <1>3
    <3>5. u[q] = t[k]
      BY <1>3, <3>4, Zenon
    <3>6. \A i \in 1..(q - 1) : GetAttributeId(u[i]) # id
      BY <3>3, <3>4, Zenon
    <3>7. Found(u, id) = <<u[q]>>
      BY <3>1, <3>5, <3>6, FoundIs
    <3> QED
      BY <1>3, <2>1, <3>2, <3>5, <3>7, Zenon
  <2> QED
    BY <1>2, <2>2, <2>3, FirstOrNone, Zenon
<1>5. CASE \E k \in 1..m : /\ GetAttributeId(s[k]) = id
                           /\ \A j \in 1..(k - 1) : GetAttributeId(s[j]) # id
  <2>1. PICK k \in 1..m : /\ GetAttributeId(s[k]) = id
                          /\ \A j \in 1..(k - 1) : GetAttributeId(s[j]) # id
    BY <1>5
  <2>2. Found(s, id) = <<s[k]>> /\ <<s[k]>> # <<>>
    <3>1. PICK x : x = s[k]
      OBVIOUS
    <3>2. k \in 1..Len(s)
      BY <1>1, <2>1, Zenon
    <3>3. Found(s, id) = <<s[k]>>
      BY <2>1, <3>2, FoundIs
    <3>4. <<x>> # <<>>
      OBVIOUS
    <3> QED
      BY <3>1, <3>3, <3>4, Zenon
  <2>3. k \in 1..Len(u) /\ \A j \in 1..(k - 1) : j \in 1..m
    BY <1>3
  <2>4. u[k] = s[k] /\ \A j \in 1..(k - 1) : GetAttributeId(u[j]) # id
    BY <1>3, <2>1, <2>3, Zenon
  <2>5. Found(u, id) = <<u[k]>>
    BY <2>1, <2>3, <2>4, FoundIs
  <2> QED
    BY <1>3, <2>2, <2>4, <2>5, Zenon
<1> QED
  BY <1>1, <1>4, <1>5, FirstOrNone, Zenon

\* At most n attributes, none of them too long.
FewAttrs(attrs, n) ==
    /\ attrs \in Seq(Attr)
    /\ Len(attrs) <= n
    /\ \A i \in 1..Len(attrs) : Len(attrs[i]) <= SizeOfAttr

LEMMA FewOne ==
    ASSUME NEW a \in Attr, Len(a) <= SizeOfAttr
    PROVE  FewAttrs(<<a>>, 1)
<1>1. PICK s \in Seq(Attr) : s = <<a>> /\ Len(s) = 1 /\ s[1] = a
  <2>1. <<a>> \in Seq(Attr) /\ Len(<<a>>) = 1 /\ <<a>>[1] = a
    OBVIOUS
  <2> QED
    BY <2>1, Zenon
<1>2. \A i \in 1..Len(s) : i = 1
  BY <1>1
<1>3. \A i \in 1..Len(s) : Len(s[i]) <= SizeOfAttr
  BY <1>1, <1>2, Zenon
<1>4. Len(s) <= 1
  BY <1>1
<1> QED
  BY <1>1, <1>3, <1>4, Zenon DEF FewAttrs

LEMMA FewOptional ==
    ASSUME NEW c \in BOOLEAN, NEW a \in Attr, Len(a) <= SizeOfAttr
    PROVE  FewAttrs(Optional(c, a), 1)
<1>1. CASE c
  <2>1. Optional(c, a) = <<a>>
    BY <1>1 DEF Optional
  <2> QED
    BY <2>1, FewOne, Zenon
<1>2. CASE ~c
  <2>1. Optional(c, a) = <<>>
    BY <1>2 DEF Optional
  <2>2. PICK s \in Seq(Attr) : s = <<>> /\ Len(s) = 0
    <3>1. <<>> \in Seq(Attr) /\ Len(<<>>) = 0
      BY EmptySeq
    <3> QED
      BY <3>1, Zenon
  <2>3. Len(s) <= 1 /\ \A i \in 1..Len(s) : FALSE
    BY <2>2
  <2> QED
    BY <2>1, <2>2, <2>3, Zenon DEF FewAttrs
<1> QED
  BY <1>1, <1>2

LEMMA FewBoth ==
    ASSUME NEW s, NEW t, NEW m \in Nat, NEW n \in Nat, FewAttrs(s, m), FewAttrs(t, n)
    PROVE  FewAttrs(s \o t, m + n)
<1>1. s \in Seq(Attr) /\ t \in Seq(Attr)
  BY DEF FewAttrs
<1>2. PICK p \in Nat : p = Len(s) /\ p <= m
  BY <1>1 DEF FewAttrs
<1>3. PICK q \in Nat : q = Len(t) /\ q <= n
  BY <1>1 DEF FewAttrs
<1>4. PICK u \in Seq(Attr) : /\ u = s \o t /\ Len(u) = p + q
                             /\ \A i \in 1..p : u[i] = s[i]
                             /\ \A j \in 1..q : u[p + j] = t[j]
  <2>1. /\ s \o t \in Seq(Attr) /\ Len(s \o t) = Len(s) + Len(t)
        /\ \A i \in 1..Len(s) : (s \o t)[i] = s[i]
        /\ \A j \in 1..Len(t) : (s \o t)[Len(s) + j] = t[j]
    BY <1>1, Joined
  <2> QED
    BY <1>2, <1>3, <2>1, Zenon
<1>5. ASSUME NEW i \in 1..(p + q) PROVE Len(u[i]) <= SizeOfAttr
  <2>1. CASE i <= p
    <3>1. i \in 1..p
      BY <2>1
    <3> QED
      BY <1>2, <1>4, <3>1, Zenon DEF FewAttrs
  <2>2. CASE ~(i <= p)
    <3>1. PICK j \in 1..q : i = p + j
      <4>1. i - p \in 1..q /\ i = p + (i - p)
        BY <2>2
      <4> QED
        BY <4>1
    <3> QED
      BY <1>3, <1>4, <3>1, Zenon DEF FewAttrs
  <2> QED
    BY <2>1, <2>2
<1>6. p + q <= m + n
  BY <1>2, <1>3
<1> QED
  BY <1>4, <1>5, <1>6, Zenon DEF FewAttrs

LEMMA FewInANest ==
    ASSUME NEW id \in Nat, id < Size16, NEW attrs, FewAttrs(attrs, 15)
    PROVE  IsNest(Nest(id, attrs), id, attrs)
<1>1. attrs \in Seq(Attr)
  BY DEF FewAttrs
<1>2. PICK n \in Nat : n = Len(attrs)
  BY <1>1
<1>3. n <= 15 /\ \A i \in 1..n : Len(attrs[i]) <= SizeOfAttr
  BY <1>2, Zenon DEF FewAttrs
<1> QED
  BY <1>1, <1>2, <1>3, ShortNest

-----------------------------------------------------------------------------
(* Scan results *)

Word32 == {n \in Nat : Fits32(n)}

\* A number that may be absent.
MaybeWord32 == Word32 \cup {-1}

\* What is read of a number that may be absent.
Maybe(v) == IF v >= 0 THEN <<v>> ELSE <<>>

\* In microseconds, as the TSF, though the boot time is in nanoseconds.
LastSeen(boottime, tsf, beacon_tsf) ==
    IF boottime >= 0 THEN boottime \div 1000 ELSE Max({tsf, beacon_tsf})

ChainInfos(chains) == [i \in DOMAIN chains |-> [chain_id |-> i - 1, level |-> chains[i]]]

(* The signals of the chains of a radio come back, and which chain it was.   *)
LEMMA ChainsAreRead ==
    ASSUME NEW chains \in Seq(-128..127), Len(chains) <= 256, NEW nest,
           NEW id \in Nat, id < Size16, id = BSS.CHAIN_SIGNAL,
           nest = Nest(id, [i \in DOMAIN chains |-> IntAttr(i - 1, chains[i], 1)])
    PROVE  /\ nest \in Attr /\ GetAttributeId(nest) = id /\ Len(nest) <= SizeOfAttr
           /\ \A buf : GetAttributeImpl(buf, id) = <<nest>> =>
                 ParseRadioChainInfos(buf) = ChainInfos(chains)
<1>1. PICK n \in Nat : n = Len(chains) /\ n <= 256 /\ DOMAIN chains = 1..n
  OBVIOUS
<1> DEFINE attrs == [i \in 1..n |-> IntAttr(i - 1, chains[i], 1)]
<1>2. nest = Nest(id, attrs)
  BY <1>1, Zenon
<1>3. ASSUME NEW i \in 1..n
      PROVE  /\ attrs[i] \in Attr /\ Len(attrs[i]) <= 12
             /\ GetAttributeId(attrs[i]) = i - 1
             /\ IsValidInt(attrs[i], 1)
             /\ Signed(RawValue(attrs[i])) = chains[i]
  <2>1. PICK v \in -128..127 : v = chains[i] /\ v \in Int
    <3>1. chains[i] \in -128..127
      BY <1>1
    <3> QED
      BY <3>1
  <2>2. PICK j \in Nat : j = i - 1 /\ j < Size16
    <3>1. i - 1 \in Nat /\ i - 1 < Size16
      BY <1>1 DEF Size16
    <3> QED
      BY <3>1, Zenon
  <2>3. 1 \in 1..8
    OBVIOUS
  <2>4. PICK a \in Attr : /\ a = IntAttr(j, v, 1)
                          /\ GetAttributeId(a) = j
                          /\ RawValue(a) = IntBytes(v, 1)
                          /\ Len(a) <= 12
                          /\ IsValidInt(a, 1)
    BY <2>1, <2>2, <2>3, IntAttribute, Zenon
  <2>5. Signed(IntBytes(v, 1)) = v
    BY SignedByteIsRead, Zenon
  <2>6. attrs[i] = a
    BY <2>1, <2>2, <2>4
  <2> QED
    BY <2>1, <2>2, <2>4, <2>5, <2>6, Zenon
<1>4. attrs = [i \in 1..n |-> attrs[i]]
  OBVIOUS
<1> HIDE DEF attrs
<1>5. attrs \in Seq(Attr) /\ n = Len(attrs) /\ DOMAIN attrs = 1..n
  BY <1>3, <1>4, SMTT(30)
<1>6. IsNest(nest, id, attrs) /\ Len(nest) <= SizeOfAttr
  BY <1>1, <1>2, <1>3, <1>5, NestOfInts
<1>7. ASSUME NEW buf, GetAttributeImpl(buf, id) = <<nest>>
      PROVE  ParseRadioChainInfos(buf) = ChainInfos(chains)
  <2>1. PICK c : GetNested(buf, id) = <<c>> /\ Holds(c, attrs)
    BY <1>6, <1>7, NestContent, Zenon
  <2>2. AttributesOf(c) = attrs
    BY <2>1, AttributesAreRead, Zenon
  <2>3. GetListOfAttributes(c, 1) = <<attrs>>
    <3>1. \A i \in DOMAIN attrs : IsValidInt(attrs[i], 1)
      BY <1>3, <1>5, Zenon
    <3>2. [i \in DOMAIN attrs |-> attrs[i]] = attrs
      BY <1>4, <1>5
    <3> QED
      BY <2>2, <3>1, <3>2, Zenon DEF GetListOfAttributes, GetListOf
  <2>4. IfFound(GetNested(buf, id), LAMBDA l : GetListOfAttributes(l, 1)) = <<attrs>>
    <3>1. <<c>> # <<>> /\ <<c>>[1] = c
      OBVIOUS
    <3> QED
      BY <2>1, <2>3, <3>1, Zenon DEF IfFound
  <2>5. FlattenSeq(<<attrs>>) = attrs
    BY <1>5, FlattenOne
  <2>6. ParseRadioChainInfos(buf) =
          [i \in DOMAIN attrs |-> [chain_id |-> GetAttributeId(attrs[i]),
                                   level |-> Signed(RawValue(attrs[i]))]]
    BY <2>4, <2>5, Zenon DEF ParseRadioChainInfos
  <2>7. \A i \in DOMAIN attrs :
          [chain_id |-> GetAttributeId(attrs[i]), level |-> Signed(RawValue(attrs[i]))]
             = [chain_id |-> i - 1, level |-> chains[i]]
    BY <1>3, <1>5, Zenon
  <2> QED
    BY <1>1, <1>5, <2>6, <2>7, Zenon DEF ChainInfos
<1> QED
  BY <1>6, <1>7 DEF IsNest

LEMMA OptionalIsFound ==
    ASSUME NEW buf, NEW id \in Nat, id < Size16, NEW v \in MaybeWord32, NEW width \in 1..8,
           v >= 0 => Unsigned(IntBytes(v, width)) = v,
           GetAttributeImpl(buf, id) = IF v >= 0 THEN <<IntAttr(id, v, width)>> ELSE <<>>
    PROVE  GetInt(buf, id, width) = Maybe(v)
<1>1. v \in Int
  BY DEF MaybeWord32, Word32
<1>2. CASE v >= 0
  BY <1>1, <1>2, UnsignedIsFound DEF Maybe
<1>3. CASE ~(v >= 0)
  BY <1>3, NothingIsFound, Zenon DEF Maybe
<1> QED
  BY <1>2, <1>3

LEMMA LargerOfTwo ==
    ASSUME NEW x \in Int, NEW y \in Int
    PROVE  Max({x, y}) = IF x >= y THEN x ELSE y
<1>1. PICK m \in {x, y} : m = IF x >= y THEN x ELSE y
  OBVIOUS
<1>2. \A w \in {x, y} : (\A z \in {x, y} : w >= z) <=> w = m
  BY <1>1
<1>3. Max({x, y}) = m
  BY <1>2 DEF Max
<1> QED
  BY <1>1, <1>3

(* The time a BSS was seen: since boot if the kernel has that.               *)
LEMMA TimestampIsRead ==
    ASSUME NEW buf, NEW boottime \in MaybeWord32, NEW beacon_tsf \in MaybeWord32,
           NEW tsf \in Word32,
           GetInt(buf, BSS.LAST_SEEN_BOOTTIME, 8) = Maybe(boottime),
           GetInt(buf, BSS.TSF, 8) = <<tsf>>,
           GetInt(buf, BSS.BEACON_TSF, 8) = Maybe(beacon_tsf)
    PROVE  GetBssTimestamp(buf) = <<LastSeen(boottime, tsf, beacon_tsf)>>
<1>1. tsf \in Nat /\ tsf >= 0 /\ beacon_tsf \in Int /\ (beacon_tsf >= 0 \/ beacon_tsf = -1)
  BY DEF MaybeWord32, Word32
<1>2. <<boottime>> # <<>> /\ <<boottime>>[1] = boottime /\ <<tsf>> # <<>> /\ <<tsf>>[1] = tsf
      /\ <<beacon_tsf>> # <<>> /\ <<beacon_tsf>>[1] = beacon_tsf
  OBVIOUS
<1>3. CASE boottime >= 0
  BY <1>2, <1>3 DEF GetBssTimestamp, Maybe, LastSeen
<1>4. CASE ~(boottime >= 0) /\ beacon_tsf >= 0
  BY <1>2, <1>4, Zenon DEF GetBssTimestamp, Maybe, LastSeen
<1>5. CASE ~(boottime >= 0) /\ ~(beacon_tsf >= 0)
  <2>1. Max({tsf, beacon_tsf}) = tsf
    <3>1. tsf >= beacon_tsf /\ tsf \in Int
      BY <1>1, <1>5
    <3> QED
      BY <1>1, <3>1, LargerOfTwo, Zenon
  <2>2. GetBssTimestamp(buf) = <<tsf>>
    BY <1>2, <1>5, Zenon DEF GetBssTimestamp, Maybe
  <2> QED
    BY <1>5, <2>1, <2>2, Zenon DEF LastSeen
<1> QED
  BY <1>3, <1>4, <1>5

LEMMA SixFound ==
    ASSUME NEW a \in Seq(Attr), Len(a) = 10, IdsDiffer(a),
           \A i \in 1..10 : Len(a[i]) <= SizeOfAttr
    PROVE  \E six \in Seq(Attr) :
              /\ six = <<a[1], a[2], a[3], a[4], a[5], a[6]>>
              /\ FewAttrs(six, 6)
              /\ \A k \in 1..10 : Found(six, GetAttributeId(a[k])) =
                                     IF k <= 6 THEN <<a[k]>> ELSE <<>>
<1>1. \A i \in 1..10 : a[i] \in Attr
  BY ElementOfSeq
<1>2. PICK six \in Seq(Attr) :
         /\ six = <<a[1], a[2], a[3], a[4], a[5], a[6]>>
         /\ Len(six) = 6
         /\ six[1] = a[1] /\ six[2] = a[2] /\ six[3] = a[3]
         /\ six[4] = a[4] /\ six[5] = a[5] /\ six[6] = a[6]
  <2>1. PICK a1 \in Attr, a2 \in Attr, a3 \in Attr, a4 \in Attr, a5 \in Attr, a6 \in Attr :
          /\ a1 = a[1] /\ a2 = a[2] /\ a3 = a[3] /\ a4 = a[4] /\ a5 = a[5] /\ a6 = a[6]
    <3>1. /\ a[1] \in Attr /\ a[2] \in Attr /\ a[3] \in Attr
          /\ a[4] \in Attr /\ a[5] \in Attr /\ a[6] \in Attr
      BY <1>1
    <3> QED
      BY <3>1, Zenon
  <2>2. PICK s : s = <<a1, a2, a3, a4, a5, a6>>
    OBVIOUS
  <2>3. /\ s \in Seq(Attr) /\ Len(s) = 6 /\ s[1] = a1 /\ s[2] = a2 /\ s[3] = a3
        /\ s[4] = a4 /\ s[5] = a5 /\ s[6] = a6
    BY <2>2
  <2> QED
    BY <2>1, <2>2, <2>3, Zenon
<1>3. \A i \in 1..6 : six[i] = a[i] /\ i \in 1..10
  <2>1. \A i \in 1..6 : i = 1 \/ i = 2 \/ i = 3 \/ i = 4 \/ i = 5 \/ i = 6
    OBVIOUS
  <2> QED
    BY <1>2, <2>1, SMTT(30)
<1>4. FewAttrs(six, 6)
  <2>1. Len(six) <= 6
    BY <1>2
  <2>2. \A i \in 1..6 : Len(six[i]) <= SizeOfAttr
    BY <1>3, Zenon
  <2> QED
    BY <1>2, <2>1, <2>2, Zenon DEF FewAttrs
<1>5. \A i, j \in 1..10 : i < j => GetAttributeId(a[i]) # GetAttributeId(a[j])
  BY DEF IdsDiffer
<1>6. ASSUME NEW k \in 1..10
      PROVE  Found(six, GetAttributeId(a[k])) = IF k <= 6 THEN <<a[k]>> ELSE <<>>
  <2>1. PICK id : id = GetAttributeId(a[k])
    OBVIOUS
  <2>2. CASE k <= 6
    <3>1. k \in 1..6 /\ \A j \in 1..(k - 1) : j \in 1..6 /\ j \in 1..10 /\ j < k
      BY <2>2, SMTT(30)
    <3>2. GetAttributeId(six[k]) = id /\ \A j \in 1..(k - 1) : GetAttributeId(six[j]) # id
      BY <1>3, <1>5, <2>1, <3>1, Zenon
    <3>3. k \in 1..Len(six)
      BY <1>2, <3>1, Zenon
    <3>4. Found(six, id) = <<six[k]>>
      BY <3>2, <3>3, FoundIs
    <3> QED
      BY <1>3, <2>1, <2>2, <3>1, <3>4, Zenon
  <2>3. CASE ~(k <= 6)
    <3>1. \A j \in 1..6 : j \in 1..10 /\ j < k
      BY <2>3, SMTT(30)
    <3>2. ASSUME NEW j \in 1..6 PROVE GetAttributeId(six[j]) # id
      <4>1. six[j] = a[j] /\ GetAttributeId(a[j]) # GetAttributeId(a[k])
        BY <1>3, <1>5, <3>1, Zenon
      <4> QED
        BY <2>1, <4>1, Zenon
    <3>3. Found(six, id) = <<>>
      BY <1>2, <3>2, FoundIs, Zenon
    <3> QED
      BY <2>1, <2>3, <3>3, Zenon
  <2> QED
    BY <2>2, <2>3
<1> QED
  BY <1>2, <1>4, <1>6, Zenon

\* Ten attributes, of which three are optional.
BssList(a, o1, o2, o3) ==
    <<a[1], a[2], a[3], a[4], a[5], a[6]>> \o o1 \o o2 \o o3 \o <<a[10]>>

\* The sequence holds the value or nothing.
AtMost(s, v) == s = <<>> \/ s = <<v>>

BssFound(attrs, a, o1, o2, o3) ==
    /\ FewAttrs(attrs, 10)
    /\ \A k \in 1..10 : k \notin {7, 8, 9} => Found(attrs, GetAttributeId(a[k])) = <<a[k]>>
    /\ Found(attrs, GetAttributeId(a[7])) = o1
    /\ Found(attrs, GetAttributeId(a[8])) = o2
    /\ Found(attrs, GetAttributeId(a[9])) = o3

\* A look-up in u finds what it finds in s, or else what it finds in t.
FoundInEither(u, s, t) == \A id : Found(u, id) = OrElse(Found(s, id), Found(t, id))

LEMMA OneMore ==
    ASSUME NEW s, NEW n \in Nat, FewAttrs(s, n), NEW t, FewAttrs(t, 1), NEW u, u = s \o t
    PROVE  /\ FewAttrs(u, n + 1)
           /\ FoundInEither(u, s, t)
<1>1. 1 \in Nat
  OBVIOUS
<1>2. FewAttrs(u, n + 1)
  BY <1>1, FewBoth, Zenon
<1>3. s \in Seq(Attr) /\ t \in Seq(Attr)
  BY DEF FewAttrs
<1>4. ASSUME NEW id PROVE Found(u, id) = OrElse(Found(s, id), Found(t, id))
  BY <1>3, FoundInBoth, Zenon
<1> QED
  BY <1>2, <1>4, Zenon DEF FoundInEither

LEMMA BssListFound ==
    ASSUME NEW a \in Seq(Attr), Len(a) = 10, IdsDiffer(a),
           \A i \in 1..10 : Len(a[i]) <= SizeOfAttr,
           NEW o1, AtMost(o1, a[7]), NEW o2, AtMost(o2, a[8]), NEW o3, AtMost(o3, a[9])
    PROVE  BssFound(BssList(a, o1, o2, o3), a, o1, o2, o3)
<1>1. PICK six \in Seq(Attr) :
         /\ six = <<a[1], a[2], a[3], a[4], a[5], a[6]>>
         /\ FewAttrs(six, 6)
         /\ \A k \in 1..10 : Found(six, GetAttributeId(a[k])) =
                                IF k <= 6 THEN <<a[k]>> ELSE <<>>
  BY SixFound
<1>2. PICK a7 \in Attr, a8 \in Attr, a9 \in Attr, a10 \in Attr :
         /\ a7 = a[7] /\ a8 = a[8] /\ a9 = a[9] /\ a10 = a[10]
         /\ Len(a7) <= SizeOfAttr /\ Len(a8) <= SizeOfAttr
         /\ Len(a9) <= SizeOfAttr /\ Len(a10) <= SizeOfAttr
  <2>1. 7 \in 1..10 /\ 8 \in 1..10 /\ 9 \in 1..10 /\ 10 \in 1..10
    OBVIOUS
  <2>2. a[7] \in Attr /\ a[8] \in Attr /\ a[9] \in Attr /\ a[10] \in Attr
    BY <2>1, ElementOfSeq
  <2> QED
    BY <2>1, <2>2, Zenon
<1>3. \A i, j \in 1..10 : i # j => GetAttributeId(a[i]) # GetAttributeId(a[j])
  <2>1. ASSUME NEW i \in 1..10, NEW j \in 1..10, i # j
        PROVE  GetAttributeId(a[i]) # GetAttributeId(a[j])
    <3>1. i < j \/ j < i
      BY <2>1
    <3>2. i \in 1..Len(a) /\ j \in 1..Len(a)
      OBVIOUS
    <3> QED
      BY <3>1, <3>2, Zenon DEF IdsDiffer
  <2> QED
    BY <2>1
<1>4. PICK c1 \in BOOLEAN : o1 = Optional(c1, a7)
  <2>1. Optional(FALSE, a7) = <<>> /\ Optional(TRUE, a7) = <<a7>>
    BY Zenon DEF Optional
  <2> QED
    BY <1>2, <2>1, Zenon DEF AtMost
<1>5. PICK c2 \in BOOLEAN : o2 = Optional(c2, a8)
  <2>1. Optional(FALSE, a8) = <<>> /\ Optional(TRUE, a8) = <<a8>>
    BY Zenon DEF Optional
  <2> QED
    BY <1>2, <2>1, Zenon DEF AtMost
<1>6. PICK c3 \in BOOLEAN : o3 = Optional(c3, a9)
  <2>1. Optional(FALSE, a9) = <<>> /\ Optional(TRUE, a9) = <<a9>>
    BY Zenon DEF Optional
  <2> QED
    BY <1>2, <2>1, Zenon DEF AtMost
<1>7. PICK o4 : o4 = <<a10>>
  OBVIOUS
<1>8. FewAttrs(o1, 1) /\ FewAttrs(o2, 1) /\ FewAttrs(o3, 1) /\ FewAttrs(o4, 1)
  BY <1>2, <1>4, <1>5, <1>6, <1>7, FewOptional, FewOne, Zenon
<1>9. ASSUME NEW k \in 1..10
      PROVE  /\ Found(o1, GetAttributeId(a[k])) = IF c1 /\ k = 7 THEN <<a[k]>> ELSE <<>>
             /\ Found(o2, GetAttributeId(a[k])) = IF c2 /\ k = 8 THEN <<a[k]>> ELSE <<>>
             /\ Found(o3, GetAttributeId(a[k])) = IF c3 /\ k = 9 THEN <<a[k]>> ELSE <<>>
             /\ Found(o4, GetAttributeId(a[k])) = IF k = 10 THEN <<a[k]>> ELSE <<>>
  <2>1. PICK id : id = GetAttributeId(a[k])
    OBVIOUS
  <2>2. 7 \in 1..10 /\ 8 \in 1..10 /\ 9 \in 1..10 /\ 10 \in 1..10
    OBVIOUS
  <2>3. /\ GetAttributeId(a7) = id <=> k = 7
        /\ GetAttributeId(a8) = id <=> k = 8
        /\ GetAttributeId(a9) = id <=> k = 9
        /\ GetAttributeId(a10) = id <=> k = 10
    BY <1>2, <1>3, <2>1, <2>2, Zenon
  <2>4. Found(o1, id) = IF c1 /\ GetAttributeId(a7) = id THEN <<a7>> ELSE <<>>
    BY <1>4, FoundInOptional, Zenon
  <2>5. Found(o2, id) = IF c2 /\ GetAttributeId(a8) = id THEN <<a8>> ELSE <<>>
    BY <1>5, FoundInOptional, Zenon
  <2>6. Found(o3, id) = IF c3 /\ GetAttributeId(a9) = id THEN <<a9>> ELSE <<>>
    BY <1>6, FoundInOptional, Zenon
  <2>7. Found(o4, id) = IF GetAttributeId(a10) = id THEN <<a10>> ELSE <<>>
    BY <1>7, FoundOfOne, Zenon
  <2> QED
    BY <1>2, <2>1, <2>3, <2>4, <2>5, <2>6, <2>7, Zenon
<1>10. PICK s1 : s1 = six \o o1
  BY Zenon
<1>11. PICK s2 : s2 = s1 \o o2
  BY Zenon
<1>12. PICK s3 : s3 = s2 \o o3
  BY Zenon
<1>13. PICK s4 : s4 = s3 \o o4
  BY Zenon
<1>14. s4 = BssList(a, o1, o2, o3)
  BY <1>1, <1>2, <1>7, <1>10, <1>11, <1>12, <1>13, Zenon DEF BssList
<1>15. /\ FewAttrs(s1, 7)
       /\ FoundInEither(s1, six, o1)
  <2>1. PICK n \in Nat, q \in Nat : n = 6 /\ q = 7 /\ q = n + 1
    OBVIOUS
  <2>2. FewAttrs(six, n) /\ FewAttrs(o1, 1)
    BY <1>1, <1>8, <2>1, Zenon
  <2>3. /\ FewAttrs(s1, n + 1)
        /\ FoundInEither(s1, six, o1)
    BY <1>10, <2>2, OneMore, Zenon
  <2> QED
    BY <2>1, <2>3, Zenon
<1>16. /\ FewAttrs(s2, 8)
       /\ FoundInEither(s2, s1, o2)
  <2>1. PICK n \in Nat, q \in Nat : n = 7 /\ q = 8 /\ q = n + 1
    OBVIOUS
  <2>2. FewAttrs(s1, n) /\ FewAttrs(o2, 1)
    BY <1>15, <1>8, <2>1, Zenon
  <2>3. /\ FewAttrs(s2, n + 1)
        /\ FoundInEither(s2, s1, o2)
    BY <1>11, <2>2, OneMore, Zenon
  <2> QED
    BY <2>1, <2>3, Zenon
<1>17. /\ FewAttrs(s3, 9)
       /\ FoundInEither(s3, s2, o3)
  <2>1. PICK n \in Nat, q \in Nat : n = 8 /\ q = 9 /\ q = n + 1
    OBVIOUS
  <2>2. FewAttrs(s2, n) /\ FewAttrs(o3, 1)
    BY <1>16, <1>8, <2>1, Zenon
  <2>3. /\ FewAttrs(s3, n + 1)
        /\ FoundInEither(s3, s2, o3)
    BY <1>12, <2>2, OneMore, Zenon
  <2> QED
    BY <2>1, <2>3, Zenon
<1>18. /\ FewAttrs(s4, 10)
       /\ FoundInEither(s4, s3, o4)
  <2>1. PICK n \in Nat, q \in Nat : n = 9 /\ q = 10 /\ q = n + 1
    OBVIOUS
  <2>2. FewAttrs(s3, n) /\ FewAttrs(o4, 1)
    BY <1>17, <1>8, <2>1, Zenon
  <2>3. /\ FewAttrs(s4, n + 1)
        /\ FoundInEither(s4, s3, o4)
    BY <1>13, <2>2, OneMore, Zenon
  <2> QED
    BY <2>1, <2>3, Zenon
<1>19. ASSUME NEW k \in 1..10
       PROVE  Found(s4, GetAttributeId(a[k])) =
                 IF (k = 7 /\ ~c1) \/ (k = 8 /\ ~c2) \/ (k = 9 /\ ~c3)
                 THEN <<>> ELSE <<a[k]>>
  <2>1. PICK id : id = GetAttributeId(a[k])
    OBVIOUS
  <2>2. PICK v : v = a[k]
    OBVIOUS
  <2>3. <<v>> # <<>>
    OBVIOUS
  <2>4. Found(six, id) = IF k <= 6 THEN <<v>> ELSE <<>>
    BY <1>1, <2>1, <2>2, Zenon
  <2>5. /\ Found(o1, id) = IF c1 /\ k = 7 THEN <<v>> ELSE <<>>
        /\ Found(o2, id) = IF c2 /\ k = 8 THEN <<v>> ELSE <<>>
        /\ Found(o3, id) = IF c3 /\ k = 9 THEN <<v>> ELSE <<>>
        /\ Found(o4, id) = IF k = 10 THEN <<v>> ELSE <<>>
    BY <1>9, <2>1, <2>2, Zenon
  <2>6. \/ k <= 6 /\ k # 7 /\ k # 8 /\ k # 9 /\ k # 10
        \/ ~(k <= 6) /\ k = 7 /\ k # 8 /\ k # 9 /\ k # 10
        \/ ~(k <= 6) /\ k # 7 /\ k = 8 /\ k # 9 /\ k # 10
        \/ ~(k <= 6) /\ k # 7 /\ k # 8 /\ k = 9 /\ k # 10
        \/ ~(k <= 6) /\ k # 7 /\ k # 8 /\ k # 9 /\ k = 10
    OBVIOUS
  <2>7. Found(s1, id) = IF k <= 6 \/ (c1 /\ k = 7) THEN <<v>> ELSE <<>>
    BY <1>15, <2>3, <2>4, <2>5 DEF OrElse, FoundInEither
  <2>8. Found(s2, id) = IF (k <= 6 \/ (c1 /\ k = 7)) \/ (c2 /\ k = 8) THEN <<v>> ELSE <<>>
    BY <1>16, <2>3, <2>5, <2>7 DEF OrElse, FoundInEither
  <2>9. Found(s3, id) = IF ((k <= 6 \/ (c1 /\ k = 7)) \/ (c2 /\ k = 8)) \/ (c3 /\ k = 9)
                        THEN <<v>> ELSE <<>>
    BY <1>17, <2>3, <2>5, <2>8 DEF OrElse, FoundInEither
  <2>10. Found(s4, id) = IF (((k <= 6 \/ (c1 /\ k = 7)) \/ (c2 /\ k = 8)) \/ (c3 /\ k = 9)) \/ k = 10
                         THEN <<v>> ELSE <<>>
    BY <1>18, <2>3, <2>5, <2>9, Zenon DEF OrElse, FoundInEither
  <2>11. (((k <= 6 \/ (c1 /\ k = 7)) \/ (c2 /\ k = 8)) \/ (c3 /\ k = 9)) \/ k = 10
            <=> ~((k = 7 /\ ~c1) \/ (k = 8 /\ ~c2) \/ (k = 9 /\ ~c3))
    BY <2>6
  <2> QED
    BY <2>1, <2>2, <2>10, <2>11, Zenon
<1>20. /\ Found(s4, GetAttributeId(a[7])) = o1
       /\ Found(s4, GetAttributeId(a[8])) = o2
       /\ Found(s4, GetAttributeId(a[9])) = o3
  <2>1. 7 \in 1..10 /\ 8 \in 1..10 /\ 9 \in 1..10 /\ 7 # 8 /\ 7 # 9 /\ 8 # 9
    OBVIOUS
  <2> QED
    BY <1>2, <1>4, <1>5, <1>6, <1>19, <2>1 DEF Optional
<1>21. ASSUME NEW k \in 1..10, k \notin {7, 8, 9}
       PROVE  Found(s4, GetAttributeId(a[k])) = <<a[k]>>
  BY <1>19, <1>21
<1> QED
  BY <1>14, <1>18, <1>20, <1>21, Zenon DEF BssFound

\* What the kernel may know of a BSS; elements and signals fit into a message.
KernelBss ==
    {bss \in [bssid : Bytes, freq : Word32, elements : Seq(Element), boottime : MaybeWord32,
              tsf : Word32, beacon_tsf : MaybeWord32, signal : Int32,
              capability : {n \in Nat : n < Size16}, status : MaybeWord32,
              chains : Seq(-128 .. 127)] :
        Len(InfoElements(bss.elements)) <= SizeOfValue /\ Len(bss.chains) <= 256}

SsidPlaces(bss) == {k \in DOMAIN bss.elements : bss.elements[k].id = kElemIdSsid}

\* What there is to tell of a BSS: nothing if it has no SSID element.
Told(bss) ==
    IF SsidPlaces(bss) = {} THEN <<>>
    ELSE <<NativeScanResult(bss.elements[Min(SsidPlaces(bss))].body, bss.bssid,
             InfoElements(bss.elements), bss.freq, bss.signal,
             LastSeen(bss.boottime, bss.tsf, bss.beacon_tsf),
             bss.capability, bss.status \in {BSS_STATUS.AUTHENTICATED, BSS_STATUS.ASSOCIATED},
             ChainInfos(bss.chains))>>

LEMMA BssIds ==
    /\ BSS.BSSID = 1 /\ BSS.TSF = 3 /\ BSS.INFORMATION_ELEMENTS = 6 /\ BSS.CAPABILITY = 5
    /\ BSS.FREQUENCY = 2 /\ BSS.SIGNAL_MBM = 7 /\ BSS.LAST_SEEN_BOOTTIME = 15
    /\ BSS.BEACON_TSF = 13 /\ BSS.STATUS = 9 /\ BSS.CHAIN_SIGNAL = 19
    /\ ATTR.IFINDEX = 3 /\ ATTR.BSS = 47
    /\ BSS_STATUS.AUTHENTICATED = 0 /\ BSS_STATUS.ASSOCIATED = 1
BY DEF BSS, ATTR, BSS_STATUS

LEMMA SsidOfElements ==
    ASSUME NEW bss, bss.elements \in Seq(Element)
    PROVE  GetSSIDFromInfoElement(InfoElements(bss.elements)) =
             IF SsidPlaces(bss) = {} THEN <<>>
             ELSE <<bss.elements[Min(SsidPlaces(bss))].body>>
<1>1. PICK elements \in Seq(Element) : elements = bss.elements
  BY Zenon
<1>2. PICK n \in Nat : n = Len(elements) /\ DOMAIN elements = 1..n
  OBVIOUS
<1>3. PICK S : S = SsidPlaces(bss)
  OBVIOUS
<1>4. S = {k \in 1..n : elements[k].id = kElemIdSsid}
  BY <1>1, <1>2, <1>3, Zenon DEF SsidPlaces
<1>5. CASE S = {}
  <2>1. \A k \in 1..Len(elements) : elements[k].id # kElemIdSsid
    BY <1>2, <1>4, <1>5
  <2>2. GetSSIDFromInfoElement(InfoElements(elements)) = <<>>
    BY <2>1, NoSsidIsFound, Zenon
  <2> QED
    BY <1>1, <1>3, <1>5, <2>2, Zenon
<1>6. CASE S # {}
  <2>1. S \in SUBSET Nat
    BY <1>4
  <2>2. PICK k \in S : \A j \in S : k <= j
    BY <1>6, <2>1, LeastNumber
  <2>3. Min(S) = k
    BY <2>1, <2>2, MinIsLeast
  <2>4. k \in 1..n /\ elements[k].id = kElemIdSsid
    BY <1>4
  <2>5. ASSUME NEW j \in 1..(k - 1) PROVE elements[j].id # kElemIdSsid
    <3>1. j \in 1..n /\ ~(k <= j)
      BY <2>4
    <3>2. j \notin S
      BY <2>2, <3>1
    <3> QED
      BY <1>4, <3>1, <3>2
  <2>6. GetSSIDFromInfoElement(InfoElements(elements)) = <<elements[k].body>>
    BY <1>2, <2>4, <2>5, SsidIsFound
  <2> QED
    BY <1>1, <1>3, <1>6, <2>3, <2>6, Zenon
<1> QED
  BY <1>5, <1>6

(* The ids of the ten attributes of a BSS.                                   *)
LEMMA TenIds ==
    ASSUME NEW a \in Seq(Attr), Len(a) = 10,
           /\ GetAttributeId(a[1]) = 1 /\ GetAttributeId(a[2]) = 3
           /\ GetAttributeId(a[3]) = 6 /\ GetAttributeId(a[4]) = 5
           /\ GetAttributeId(a[5]) = 2 /\ GetAttributeId(a[6]) = 7
           /\ GetAttributeId(a[7]) = 15 /\ GetAttributeId(a[8]) = 13
           /\ GetAttributeId(a[9]) = 9 /\ GetAttributeId(a[10]) = 19
    PROVE  IdsDiffer(a)
<1>1. \A i \in 1..10 : \/ i = 1 \/ i = 2 \/ i = 3 \/ i = 4 \/ i = 5
                       \/ i = 6 \/ i = 7 \/ i = 8 \/ i = 9 \/ i = 10
  OBVIOUS
<1> DEFINE Where(id) == CASE id = 1 -> 1 [] id = 3 -> 2 [] id = 6 -> 3 [] id = 5 -> 4
                          [] id = 2 -> 5 [] id = 7 -> 6 [] id = 15 -> 7 [] id = 13 -> 8
                          [] id = 9 -> 9 [] id = 19 -> 10
<1>2. /\ Where(1) = 1 /\ Where(3) = 2 /\ Where(6) = 3 /\ Where(5) = 4 /\ Where(2) = 5
      /\ Where(7) = 6 /\ Where(15) = 7 /\ Where(13) = 8 /\ Where(9) = 9 /\ Where(19) = 10
  OBVIOUS
<1> HIDE DEF Where
<1>3. \A i \in 1..10 : Where(GetAttributeId(a[i])) = i
  BY <1>1, <1>2, ZenonT(60)
<1>4. ASSUME NEW i \in 1..10, NEW j \in 1..10, i < j
      PROVE  GetAttributeId(a[i]) # GetAttributeId(a[j])
  <2>1. i # j
    BY <1>4
  <2> QED
    BY <1>3, <2>1, Zenon
<1> QED
  BY <1>4 DEF IdsDiffer

\* What is found of a BSS in a buffer, by the ids of its attributes.
FoundOfBss(buf, bss, nest) ==
    /\ GetAttributeImpl(buf, BSS.BSSID) = <<BaseNL80211Attr(BSS.BSSID, bss.bssid)>>
    /\ GetAttributeImpl(buf, BSS.TSF) = <<IntAttr(BSS.TSF, bss.tsf, 8)>>
    /\ GetAttributeImpl(buf, BSS.INFORMATION_ELEMENTS)
         = <<BaseNL80211Attr(BSS.INFORMATION_ELEMENTS, InfoElements(bss.elements))>>
    /\ GetAttributeImpl(buf, BSS.CAPABILITY) = <<IntAttr(BSS.CAPABILITY, bss.capability, 2)>>
    /\ GetAttributeImpl(buf, BSS.FREQUENCY) = <<IntAttr(BSS.FREQUENCY, bss.freq, 4)>>
    /\ GetAttributeImpl(buf, BSS.SIGNAL_MBM) = <<IntAttr(BSS.SIGNAL_MBM, bss.signal, 4)>>
    /\ GetAttributeImpl(buf, BSS.LAST_SEEN_BOOTTIME)
         = IF bss.boottime >= 0 THEN <<IntAttr(BSS.LAST_SEEN_BOOTTIME, bss.boottime, 8)>>
           ELSE <<>>
    /\ GetAttributeImpl(buf, BSS.BEACON_TSF)
         = IF bss.beacon_tsf >= 0 THEN <<IntAttr(BSS.BEACON_TSF, bss.beacon_tsf, 8)>> ELSE <<>>
    /\ GetAttributeImpl(buf, BSS.STATUS)
         = IF bss.status >= 0 THEN <<IntAttr(BSS.STATUS, bss.status, 4)>> ELSE <<>>
    /\ GetAttributeImpl(buf, BSS.CHAIN_SIGNAL) = <<nest>>

BssChains(bss) ==
    Nest(BSS.CHAIN_SIGNAL, [i \in DOMAIN bss.chains |-> IntAttr(i - 1, bss.chains[i], 1)])

(* The nest of a BSS holds an attribute for each of its values.              *)
LEMMA BssIsFound ==
    ASSUME NEW bss \in KernelBss
    PROVE  \E attrs : /\ IsNest(BssAttr(bss), ATTR.BSS, attrs)
                      /\ \A buf : Holds(buf, attrs) => FoundOfBss(buf, bss, BssChains(bss))
<1>1. PICK bssid \in Bytes : bssid = bss.bssid
  BY DEF KernelBss
<1>2. PICK tsf \in Word32 : tsf = bss.tsf
  BY DEF KernelBss
<1>3. PICK ie \in Bytes : ie = InfoElements(bss.elements)
  <2>1. bss.elements \in Seq(Element) /\ Len(InfoElements(bss.elements)) <= SizeOfValue
    BY DEF KernelBss
  <2>2. InfoElements(bss.elements) \in Seq(Byte)
    BY <2>1, ElementsAreThere
  <2> QED
    BY <2>1, <2>2 DEF Bytes
<1>4. PICK capability \in Nat : capability = bss.capability /\ capability < Size16
  BY DEF KernelBss
<1>5. PICK freq \in Word32 : freq = bss.freq
  BY DEF KernelBss
<1>6. PICK signal \in Int32 : signal = bss.signal
  BY DEF KernelBss
<1>7. PICK boottime \in MaybeWord32 : boottime = bss.boottime
  BY DEF KernelBss
<1>8. PICK beacon_tsf \in MaybeWord32 : beacon_tsf = bss.beacon_tsf
  BY DEF KernelBss
<1>9. PICK status \in MaybeWord32 : status = bss.status
  BY DEF KernelBss
<1>10. PICK chains \in Seq(-128 .. 127) : chains = bss.chains /\ Len(chains) <= 256
  BY DEF KernelBss
<1>11. /\ tsf \in Int /\ capability \in Int /\ freq \in Int /\ signal \in Int
       /\ boottime \in Int /\ beacon_tsf \in Int /\ status \in Int
  BY DEF Word32, MaybeWord32, Int32
<1>12. 2 \in 1..8 /\ 4 \in 1..8 /\ 8 \in 1..8
  OBVIOUS
<1>13. /\ 1 \in Nat /\ 1 < Size16 /\ 3 \in Nat /\ 3 < Size16 /\ 6 \in Nat /\ 6 < Size16
       /\ 5 \in Nat /\ 5 < Size16 /\ 2 \in Nat /\ 2 < Size16 /\ 7 \in Nat /\ 7 < Size16
       /\ 15 \in Nat /\ 15 < Size16 /\ 13 \in Nat /\ 13 < Size16 /\ 9 \in Nat /\ 9 < Size16
       /\ 19 \in Nat /\ 19 < Size16 /\ 47 \in Nat /\ 47 < Size16
  BY DEF Size16
<1>14. ASSUME NEW x \in Attr, Len(x) <= 12 PROVE Len(x) <= SizeOfAttr
  <2>1. Len(x) \in Nat
    BY AttrIsAligned
  <2> QED
    BY <1>14, <2>1 DEF SizeOfAttr
<1>15. PICK a1 \in Attr : /\ a1 = BaseNL80211Attr(1, bssid) /\ GetAttributeId(a1) = 1
                          /\ Len(a1) <= SizeOfAttr
  BY <1>13, BytesAttribute, Zenon
<1>16. PICK a2 \in Attr : /\ a2 = IntAttr(3, tsf, 8) /\ GetAttributeId(a2) = 3
                          /\ Len(a2) <= SizeOfAttr
  BY <1>11, <1>12, <1>13, <1>14, IntAttribute, Zenon
<1>17. PICK a3 \in Attr : /\ a3 = BaseNL80211Attr(6, ie) /\ GetAttributeId(a3) = 6
                          /\ Len(a3) <= SizeOfAttr
  BY <1>13, BytesAttribute, Zenon
<1>18. PICK a4 \in Attr : /\ a4 = IntAttr(5, capability, 2) /\ GetAttributeId(a4) = 5
                          /\ Len(a4) <= SizeOfAttr
  BY <1>11, <1>12, <1>13, <1>14, IntAttribute, Zenon
<1>19. PICK a5 \in Attr : /\ a5 = IntAttr(2, freq, 4) /\ GetAttributeId(a5) = 2
                          /\ Len(a5) <= SizeOfAttr
  BY <1>11, <1>12, <1>13, <1>14, IntAttribute, Zenon
<1>20. PICK a6 \in Attr : /\ a6 = IntAttr(7, signal, 4) /\ GetAttributeId(a6) = 7
                          /\ Len(a6) <= SizeOfAttr
  BY <1>11, <1>12, <1>13, <1>14, IntAttribute, Zenon
<1>21. PICK a7 \in Attr : /\ a7 = IntAttr(15, boottime, 8) /\ GetAttributeId(a7) = 15
                          /\ Len(a7) <= SizeOfAttr
  BY <1>11, <1>12, <1>13, <1>14, IntAttribute, Zenon
<1>22. PICK a8 \in Attr : /\ a8 = IntAttr(13, beacon_tsf, 8) /\ GetAttributeId(a8) = 13
                          /\ Len(a8) <= SizeOfAttr
  BY <1>11, <1>12, <1>13, <1>14, IntAttribute, Zenon
<1>23. PICK a9 \in Attr : /\ a9 = IntAttr(9, status, 4) /\ GetAttributeId(a9) = 9
                          /\ Len(a9) <= SizeOfAttr
  BY <1>11, <1>12, <1>13, <1>14, IntAttribute, Zenon
<1>24. PICK a10 : a10 = Nest(19, [i \in DOMAIN chains |-> IntAttr(i - 1, chains[i], 1)])
  OBVIOUS
<1>25. a10 \in Attr /\ GetAttributeId(a10) = 19 /\ Len(a10) <= SizeOfAttr
  <2>1. PICK id \in Nat : id = 19 /\ id < Size16 /\ id = BSS.CHAIN_SIGNAL
    BY <1>13, BssIds
  <2>2. a10 = Nest(id, [i \in DOMAIN chains |-> IntAttr(i - 1, chains[i], 1)])
    BY <1>24, <2>1, Zenon
  <2>3. a10 \in Attr /\ GetAttributeId(a10) = id /\ Len(a10) <= SizeOfAttr
    BY <1>10, <2>1, <2>2, ChainsAreRead, ZenonT(60)
  <2> QED
    BY <2>1, <2>3, Zenon
<1>26. BssChains(bss) = a10
  BY <1>10, <1>24, BssIds, Zenon DEF BssChains
<1>27. PICK a \in Seq(Attr) :
         /\ Len(a) = 10
         /\ a[1] = a1 /\ a[2] = a2 /\ a[3] = a3 /\ a[4] = a4 /\ a[5] = a5
         /\ a[6] = a6 /\ a[7] = a7 /\ a[8] = a8 /\ a[9] = a9 /\ a[10] = a10
  <2>1. /\ a1 \in Attr /\ a2 \in Attr /\ a3 \in Attr /\ a4 \in Attr /\ a5 \in Attr
        /\ a6 \in Attr /\ a7 \in Attr /\ a8 \in Attr /\ a9 \in Attr /\ a10 \in Attr
    BY <1>15, <1>16, <1>17, <1>18, <1>19, <1>20, <1>21, <1>22, <1>23, <1>25, Zenon
  <2>2. PICK t : t = <<a1, a2, a3, a4, a5, a6, a7, a8, a9, a10>>
    OBVIOUS
  <2>3. /\ t \in Seq(Attr) /\ Len(t) = 10
        /\ t[1] = a1 /\ t[2] = a2 /\ t[3] = a3 /\ t[4] = a4 /\ t[5] = a5
        /\ t[6] = a6 /\ t[7] = a7 /\ t[8] = a8 /\ t[9] = a9 /\ t[10] = a10
    BY <2>1, <2>2
  <2> QED
    BY <2>3, Zenon
<1>28. IdsDiffer(a)
  <2>1. /\ GetAttributeId(a[1]) = 1 /\ GetAttributeId(a[2]) = 3 /\ GetAttributeId(a[3]) = 6
        /\ GetAttributeId(a[4]) = 5 /\ GetAttributeId(a[5]) = 2 /\ GetAttributeId(a[6]) = 7
        /\ GetAttributeId(a[7]) = 15 /\ GetAttributeId(a[8]) = 13 /\ GetAttributeId(a[9]) = 9
        /\ GetAttributeId(a[10]) = 19
    BY <1>15, <1>16, <1>17, <1>18, <1>19, <1>20, <1>21, <1>22, <1>23, <1>25, <1>27, Zenon
  <2> QED
    BY <1>27, <2>1, TenIds, Zenon
<1>29. \A i \in 1..10 : Len(a[i]) <= SizeOfAttr
  <2>1. \A i \in 1..10 : \/ i = 1 \/ i = 2 \/ i = 3 \/ i = 4 \/ i = 5
                         \/ i = 6 \/ i = 7 \/ i = 8 \/ i = 9 \/ i = 10
    OBVIOUS
  <2> QED
    BY <1>15, <1>16, <1>17, <1>18, <1>19, <1>20, <1>21, <1>22, <1>23, <1>25, <1>27, <2>1, Zenon
<1>30. PICK o1 : /\ o1 = IF boottime >= 0 THEN <<a7>> ELSE <<>>
                 /\ o1 = Optional(boottime >= 0, a7) /\ AtMost(o1, a[7])
  BY <1>27, Zenon DEF Optional, AtMost
<1>31. PICK o2 : /\ o2 = IF beacon_tsf >= 0 THEN <<a8>> ELSE <<>>
                 /\ o2 = Optional(beacon_tsf >= 0, a8) /\ AtMost(o2, a[8])
  BY <1>27, Zenon DEF Optional, AtMost
<1>32. PICK o3 : /\ o3 = IF status >= 0 THEN <<a9>> ELSE <<>>
                 /\ o3 = Optional(status >= 0, a9) /\ AtMost(o3, a[9])
  BY <1>27, Zenon DEF Optional, AtMost
<1>33. PICK attrs : attrs = BssList(a, o1, o2, o3)
  OBVIOUS
<1>34. BssAttr(bss) = Nest(47, attrs)
  <2>1. PICK rest : rest = Nest(19, [i \in DOMAIN chains |-> IntAttr(i - 1, chains[i], 1)])
    OBVIOUS
  <2>2. BssAttr(bss) = Nest(47, <<a1, a2, a3, a4, a5, a6>> \o Optional(boottime >= 0, a7)
                                   \o Optional(beacon_tsf >= 0, a8)
                                   \o Optional(status >= 0, a9) \o <<rest>>)
    BY <1>1, <1>2, <1>3, <1>4, <1>5, <1>6, <1>7, <1>8, <1>9, <1>10, <1>15, <1>16, <1>17, <1>18,
       <1>19, <1>20, <1>21, <1>22, <1>23, <2>1, BssIds, ZenonT(60) DEF BssAttr
  <2>3. attrs = <<a1, a2, a3, a4, a5, a6>> \o o1 \o o2 \o o3 \o <<a10>>
    BY <1>27, <1>33, Zenon DEF BssList
  <2> QED
    BY <1>24, <1>30, <1>31, <1>32, <2>1, <2>2, <2>3, Zenon
<1>35. /\ FewAttrs(attrs, 10)
       /\ \A k \in 1..10 : k \notin {7, 8, 9} => Found(attrs, GetAttributeId(a[k])) = <<a[k]>>
       /\ Found(attrs, GetAttributeId(a[7])) = o1
       /\ Found(attrs, GetAttributeId(a[8])) = o2
       /\ Found(attrs, GetAttributeId(a[9])) = o3
  <2>1. a \in Seq(Attr) /\ Len(a) = 10
    BY <1>27, Zenon
  <2>2. AtMost(o1, a[7]) /\ AtMost(o2, a[8]) /\ AtMost(o3, a[9])
    BY <1>30, <1>31, <1>32, Zenon
  <2>3. BssFound(BssList(a, o1, o2, o3), a, o1, o2, o3)
    BY <1>28, <1>29, <2>1, <2>2, BssListFound, Zenon
  <2> QED
    BY <1>33, <2>3, Zenon DEF BssFound
<1>36. FewAttrs(attrs, 15)
  <2>1. attrs \in Seq(Attr) /\ Len(attrs) <= 10 /\ \A i \in 1..Len(attrs) : Len(attrs[i]) <= SizeOfAttr
    BY <1>35, Zenon DEF FewAttrs
  <2>2. Len(attrs) <= 15
    BY <2>1
  <2> QED
    BY <2>1, <2>2, Zenon DEF FewAttrs
<1>37. IsNest(BssAttr(bss), ATTR.BSS, attrs)
  <2>1. IsNest(Nest(47, attrs), 47, attrs)
    BY <1>13, <1>36, FewInANest, Zenon
  <2> QED
    BY <1>34, <2>1, BssIds, Zenon
<1>38. ASSUME NEW buf, Holds(buf, attrs) PROVE FoundOfBss(buf, bss, a10)
  <2>1. \A id : GetAttributeImpl(buf, id) = Found(attrs, id)
    BY <1>38, FoundInBuffer, Zenon
  <2>2. /\ GetAttributeImpl(buf, 1) = <<a1>> /\ GetAttributeImpl(buf, 3) = <<a2>>
        /\ GetAttributeImpl(buf, 6) = <<a3>> /\ GetAttributeImpl(buf, 5) = <<a4>>
        /\ GetAttributeImpl(buf, 2) = <<a5>> /\ GetAttributeImpl(buf, 7) = <<a6>>
        /\ GetAttributeImpl(buf, 19) = <<a10>>
    <3>1. /\ 1 \in 1..10 /\ 2 \in 1..10 /\ 3 \in 1..10 /\ 4 \in 1..10 /\ 5 \in 1..10
          /\ 6 \in 1..10 /\ 10 \in 1..10
          /\ 1 \notin {7, 8, 9} /\ 2 \notin {7, 8, 9} /\ 3 \notin {7, 8, 9} /\ 4 \notin {7, 8, 9}
          /\ 5 \notin {7, 8, 9} /\ 6 \notin {7, 8, 9} /\ 10 \notin {7, 8, 9}
      OBVIOUS
    <3>2. /\ Found(attrs, GetAttributeId(a[1])) = <<a[1]>>
          /\ Found(attrs, GetAttributeId(a[2])) = <<a[2]>>
          /\ Found(attrs, GetAttributeId(a[3])) = <<a[3]>>
          /\ Found(attrs, GetAttributeId(a[4])) = <<a[4]>>
          /\ Found(attrs, GetAttributeId(a[5])) = <<a[5]>>
          /\ Found(attrs, GetAttributeId(a[6])) = <<a[6]>>
          /\ Found(attrs, GetAttributeId(a[10])) = <<a[10]>>
      BY <1>35, <3>1, Zenon
    <3> QED
      BY <1>15, <1>16, <1>17, <1>18, <1>19, <1>20, <1>25, <1>27, <2>1, <3>2, Zenon
  <2>3. /\ GetAttributeImpl(buf, 15) = o1 /\ GetAttributeImpl(buf, 13) = o2
        /\ GetAttributeImpl(buf, 9) = o3
    BY <1>21, <1>22, <1>23, <1>27, <1>35, <2>1, Zenon
  <2> QED
    BY <1>1, <1>2, <1>3, <1>4, <1>5, <1>6, <1>7, <1>8, <1>9, <1>15, <1>16, <1>17, <1>18,
       <1>19, <1>20, <1>21, <1>22, <1>23, <1>30, <1>31, <1>32, <2>2, <2>3, BssIds, Zenon
       DEF FoundOfBss
<1> QED
  BY <1>26, <1>37, <1>38, Zenon

(* Every value of a BSS is read out of what is found of it.                  *)
LEMMA BssIsRead ==
    ASSUME NEW bss \in KernelBss, NEW buf, FoundOfBss(buf, bss, BssChains(bss))
    PROVE  /\ GetBytes(buf, BSS.BSSID) = <<bss.bssid>>
           /\ GetInt(buf, BSS.FREQUENCY, 4) = <<bss.freq>>
           /\ GetBytes(buf, BSS.INFORMATION_ELEMENTS) = <<InfoElements(bss.elements)>>
           /\ GetBssTimestamp(buf) =
                 <<LastSeen(bss.boottime, bss.tsf, bss.beacon_tsf)>>
           /\ GetSigned(buf, BSS.SIGNAL_MBM, 4) = <<bss.signal>>
           /\ GetInt(buf, BSS.CAPABILITY, 2) = <<bss.capability>>
           /\ GetInt(buf, BSS.STATUS, 4) = Maybe(bss.status)
           /\ ParseRadioChainInfos(buf) = ChainInfos(bss.chains)
<1>1. PICK bssid \in Bytes : bssid = bss.bssid
  BY DEF KernelBss
<1>2. PICK tsf \in Word32 : tsf = bss.tsf
  BY DEF KernelBss
<1>3. PICK ie \in Bytes : ie = InfoElements(bss.elements)
  <2>1. bss.elements \in Seq(Element) /\ Len(InfoElements(bss.elements)) <= SizeOfValue
    BY DEF KernelBss
  <2>2. InfoElements(bss.elements) \in Seq(Byte)
    BY <2>1, ElementsAreThere
  <2> QED
    BY <2>1, <2>2 DEF Bytes
<1>4. PICK capability \in Nat : capability = bss.capability /\ capability < Size16
  BY DEF KernelBss
<1>5. PICK freq \in Word32 : freq = bss.freq
  BY DEF KernelBss
<1>6. PICK signal \in Int32 : signal = bss.signal
  BY DEF KernelBss
<1>7. PICK boottime \in MaybeWord32 : boottime = bss.boottime
  BY DEF KernelBss
<1>8. PICK beacon_tsf \in MaybeWord32 : beacon_tsf = bss.beacon_tsf
  BY DEF KernelBss
<1>9. PICK status \in MaybeWord32 : status = bss.status
  BY DEF KernelBss
<1>10. PICK chains \in Seq(-128 .. 127) : chains = bss.chains /\ Len(chains) <= 256
  BY DEF KernelBss
<1>11. /\ tsf \in Nat /\ Fits32(tsf) /\ tsf \in Int
       /\ freq \in Nat /\ Fits32(freq) /\ capability \in Int /\ signal \in Int
  BY DEF Word32, Int32
<1>12. 2 \in 1..8 /\ 4 \in 1..8 /\ 8 \in 1..8
  OBVIOUS
<1>13. /\ 1 \in Nat /\ 1 < Size16 /\ 3 \in Nat /\ 3 < Size16 /\ 6 \in Nat /\ 6 < Size16
       /\ 5 \in Nat /\ 5 < Size16 /\ 2 \in Nat /\ 2 < Size16 /\ 7 \in Nat /\ 7 < Size16
       /\ 15 \in Nat /\ 15 < Size16 /\ 13 \in Nat /\ 13 < Size16 /\ 9 \in Nat /\ 9 < Size16
       /\ 19 \in Nat /\ 19 < Size16
  BY SmallIds
<1>14. ASSUME NEW v \in MaybeWord32, v >= 0
       PROVE  Unsigned(IntBytes(v, 8)) = v /\ Unsigned(IntBytes(v, 4)) = v
  <2>1. v \in Nat /\ Fits32(v)
    BY <1>14 DEF MaybeWord32, Word32
  <2> QED
    BY <2>1, EightBytesAreRead, IntIsRead, Zenon
<1>15. GetBytes(buf, 1) = <<bssid>> /\ GetBytes(buf, 6) = <<ie>>
  <2>1. /\ GetAttributeImpl(buf, 1) = <<BaseNL80211Attr(1, bssid)>>
        /\ GetAttributeImpl(buf, 6) = <<BaseNL80211Attr(6, ie)>>
    BY <1>1, <1>3, BssIds, Zenon DEF FoundOfBss
  <2> QED
    BY <1>13, <2>1, BytesAreFound
<1>16. GetInt(buf, 2, 4) = <<freq>>
  <2>1. GetAttributeImpl(buf, 2) = <<IntAttr(2, freq, 4)>>
    BY <1>5, BssIds, Zenon DEF FoundOfBss
  <2> QED
    BY <1>11, <1>13, <2>1, IntIsFound
<1>17. GetInt(buf, 3, 8) = <<tsf>>
  <2>1. GetAttributeImpl(buf, 3) = <<IntAttr(3, tsf, 8)>>
    BY <1>2, BssIds, Zenon DEF FoundOfBss
  <2>2. Unsigned(IntBytes(tsf, 8)) = tsf
    BY <1>11, EightBytesAreRead, Zenon
  <2> QED
    BY <1>11, <1>12, <1>13, <2>1, <2>2, UnsignedIsFound
<1>18. GetInt(buf, 5, 2) = <<capability>>
  <2>1. GetAttributeImpl(buf, 5) = <<IntAttr(5, capability, 2)>>
    BY <1>4, BssIds, Zenon DEF FoundOfBss
  <2>2. Unsigned(IntBytes(capability, 2)) = capability
    BY <1>4, TwoBytesAreRead, Zenon
  <2> QED
    BY <1>11, <1>12, <1>13, <2>1, <2>2, UnsignedIsFound
<1>19. GetSigned(buf, 7, 4) = <<signal>>
  <2>1. GetAttributeImpl(buf, 7) = <<IntAttr(7, signal, 4)>>
    BY <1>6, BssIds, Zenon DEF FoundOfBss
  <2>2. Signed(IntBytes(signal, 4)) = signal
    BY SignedIsRead, Zenon
  <2> QED
    BY <1>11, <1>12, <1>13, <2>1, <2>2, SignedIsFound
<1>20. GetInt(buf, 15, 8) = Maybe(boottime)
  <2>1. GetAttributeImpl(buf, 15) = IF boottime >= 0 THEN <<IntAttr(15, boottime, 8)>> ELSE <<>>
    BY <1>7, BssIds, Zenon DEF FoundOfBss
  <2> QED
    BY <1>12, <1>13, <1>14, <2>1, OptionalIsFound
<1>21. GetInt(buf, 13, 8) = Maybe(beacon_tsf)
  <2>1. GetAttributeImpl(buf, 13) =
           IF beacon_tsf >= 0 THEN <<IntAttr(13, beacon_tsf, 8)>> ELSE <<>>
    BY <1>8, BssIds, Zenon DEF FoundOfBss
  <2> QED
    BY <1>12, <1>13, <1>14, <2>1, OptionalIsFound
<1>22. GetInt(buf, 9, 4) = Maybe(status)
  <2>1. GetAttributeImpl(buf, 9) = IF status >= 0 THEN <<IntAttr(9, status, 4)>> ELSE <<>>
    BY <1>9, BssIds, Zenon DEF FoundOfBss
  <2> QED
    BY <1>12, <1>13, <1>14, <2>1, OptionalIsFound
<1>23. GetBssTimestamp(buf) = <<LastSeen(boottime, tsf, beacon_tsf)>>
  <2>1. /\ GetInt(buf, BSS.LAST_SEEN_BOOTTIME, 8) = Maybe(boottime)
        /\ GetInt(buf, BSS.TSF, 8) = <<tsf>>
        /\ GetInt(buf, BSS.BEACON_TSF, 8) = Maybe(beacon_tsf)
    BY <1>17, <1>20, <1>21, BssIds, Zenon
  <2> QED
    BY <2>1, TimestampIsRead, Zenon
<1>24. ParseRadioChainInfos(buf) = ChainInfos(chains)
  <2>1. PICK id \in Nat : id = 19 /\ id < Size16 /\ id = BSS.CHAIN_SIGNAL
    BY <1>13, BssIds
  <2>2. PICK nest : nest = Nest(id, [i \in DOMAIN chains |-> IntAttr(i - 1, chains[i], 1)])
    OBVIOUS
  <2>3. BssChains(bss) = nest
    BY <1>10, <2>1, <2>2, Zenon DEF BssChains
  <2>4. GetAttributeImpl(buf, id) = <<nest>>
    BY <2>1, <2>3, Zenon DEF FoundOfBss
  <2>5. \A b : GetAttributeImpl(b, id) = <<nest>> =>
                 ParseRadioChainInfos(b) = ChainInfos(chains)
    BY <1>10, <2>1, <2>2, ChainsAreRead, Zenon
  <2> QED
    BY <2>4, <2>5, Zenon
<1> QED
  BY <1>1, <1>2, <1>3, <1>4, <1>5, <1>6, <1>7, <1>8, <1>9, <1>10, <1>15, <1>16, <1>18, <1>19,
     <1>22, <1>23, <1>24, BssIds, Zenon

(* A message of a scan dump names its interface and holds its BSS.           *)
LEMMA ScanMessageHolds ==
    ASSUME NEW ifindex \in Word32, NEW bss \in KernelBss
    PROVE  \E p : /\ p = ScanMessage(ifindex, bss)
                  /\ p.type = FamilyId /\ p.command = "NEW_SCAN_RESULTS"
                  /\ GetInt(p.body, ATTR.IFINDEX, 4) = <<ifindex>>
                  /\ \E c : /\ GetNested(p.body, ATTR.BSS) = <<c>>
                            /\ FoundOfBss(c, bss, BssChains(bss))
<1>1. ifindex \in Nat /\ Fits32(ifindex) /\ ifindex \in Int
  BY DEF Word32
<1>2. 4 \in 1..8 /\ 3 # 47
  OBVIOUS
<1>3. 3 \in Nat /\ 3 < Size16
  BY SmallIds
<1>4. PICK m \in Attr : m = IntAttr(3, ifindex, 4) /\ GetAttributeId(m) = 3
  BY <1>1, <1>2, <1>3, IntAttribute, Zenon
<1>5. PICK attrs : /\ IsNest(BssAttr(bss), ATTR.BSS, attrs)
                   /\ \A buf : Holds(buf, attrs) => FoundOfBss(buf, bss, BssChains(bss))
  BY BssIsFound
<1>6. PICK nest \in Attr : /\ nest = BssAttr(bss) /\ GetAttributeId(nest) = 47
                           /\ IsNest(nest, 47, attrs)
  BY <1>5, BssIds, Zenon DEF IsNest
<1>7. PICK both \in Seq(Attr) :
         both = <<m, nest>> /\ Len(both) = 2 /\ both[1] = m /\ both[2] = nest
  <2>1. PICK t : t = <<m, nest>>
    OBVIOUS
  <2>2. t \in Seq(Attr) /\ Len(t) = 2 /\ t[1] = m /\ t[2] = nest
    BY <2>1
  <2> QED
    BY <2>1, <2>2, Zenon
<1>8. PICK p : p = Reply("NEW_SCAN_RESULTS", both)
  OBVIOUS
<1>9. p = ScanMessage(ifindex, bss)
  BY <1>4, <1>6, <1>7, <1>8, BssIds, Zenon DEF ScanMessage
<1>10. p.type = FamilyId /\ p.command = "NEW_SCAN_RESULTS" /\ Holds(p.body, both)
  <2>1. IsReply(p, "NEW_SCAN_RESULTS", both)
    BY <1>7, <1>8, ReplyHolds
  <2> QED
    BY <2>1, Zenon DEF IsReply
<1>11. GetAttributeImpl(p.body, 3) = <<m>>
  <2>1. 1 \in 1..Len(both) /\ \A j \in 1..(1 - 1) : GetAttributeId(both[j]) # 3
    BY <1>7
  <2>2. GetAttributeId(both[1]) = 3
    BY <1>4, <1>7, Zenon
  <2>3. GetAttributeImpl(p.body, 3) = <<both[1]>>
    BY <1>10, <2>1, <2>2, AttributeIsFound
  <2> QED
    BY <1>7, <2>3, Zenon
<1>12. GetAttributeImpl(p.body, 47) = <<nest>>
  <2>1. 2 \in 1..Len(both) /\ \A j \in 1..(2 - 1) : j = 1
    BY <1>7
  <2>2. GetAttributeId(both[2]) = 47 /\ \A j \in 1..(2 - 1) : GetAttributeId(both[j]) # 47
    BY <1>2, <1>4, <1>6, <1>7, <2>1, Zenon
  <2>3. GetAttributeImpl(p.body, 47) = <<both[2]>>
    BY <1>10, <2>1, <2>2, AttributeIsFound
  <2> QED
    BY <1>7, <2>3, Zenon
<1>13. GetInt(p.body, 3, 4) = <<ifindex>>
  <2>1. GetAttributeImpl(p.body, 3) = <<IntAttr(3, ifindex, 4)>>
    BY <1>4, <1>11, Zenon
  <2> QED
    BY <1>1, <1>3, <2>1, IntIsFound
<1>14. PICK c : GetNested(p.body, 47) = <<c>> /\ Holds(c, attrs)
  BY <1>6, <1>12, NestContent, Zenon
<1>15. GetInt(p.body, ATTR.IFINDEX, 4) = <<ifindex>> /\ GetNested(p.body, ATTR.BSS) = <<c>>
  BY <1>13, <1>14, BssIds, Zenon
<1> QED
  BY <1>5, <1>9, <1>10, <1>14, <1>15, Zenon

(* A BSS of the kernel is reported as the kernel knows it: every value of    *)
(* the message comes back at its width and sign, the SSID is the first of    *)
(* the information elements, the boot time is preferred to the TSFs, and a   *)
(* BSS is associated exactly if its status says so.  One without an SSID     *)
(* element is not reported.  This is what ScanResultsAreFaithful of Queries  *)
(* says of the data.                                                         *)
THEOREM ScanResultIsReadAsWritten ==
    ASSUME NEW ifindex \in Word32, NEW bss \in KernelBss
    PROVE  ParseScanResult(ScanMessage(ifindex, bss)) = Told(bss)
<1>1. PICK p : /\ p = ScanMessage(ifindex, bss)
               /\ p.command = "NEW_SCAN_RESULTS"
               /\ \E c : /\ GetNested(p.body, ATTR.BSS) = <<c>>
                         /\ FoundOfBss(c, bss, BssChains(bss))
  BY ScanMessageHolds, Zenon
<1>2. PICK c : GetNested(p.body, ATTR.BSS) = <<c>> /\ FoundOfBss(c, bss, BssChains(bss))
  BY <1>1, Zenon
<1>3. PICK ie : ie = InfoElements(bss.elements)
  OBVIOUS
<1>4. PICK seen : seen = LastSeen(bss.boottime, bss.tsf, bss.beacon_tsf)
  OBVIOUS
<1>5. PICK chains : chains = ChainInfos(bss.chains)
  OBVIOUS
<1>6. /\ GetBytes(c, BSS.BSSID) = <<bss.bssid>>
      /\ GetInt(c, BSS.FREQUENCY, 4) = <<bss.freq>>
      /\ GetBytes(c, BSS.INFORMATION_ELEMENTS) = <<ie>>
      /\ GetBssTimestamp(c) = <<seen>>
      /\ GetSigned(c, BSS.SIGNAL_MBM, 4) = <<bss.signal>>
      /\ GetInt(c, BSS.CAPABILITY, 2) = <<bss.capability>>
      /\ GetInt(c, BSS.STATUS, 4) = Maybe(bss.status)
      /\ ParseRadioChainInfos(c) = chains
  BY <1>2, <1>3, <1>4, <1>5, BssIsRead, Zenon
<1>7. (Maybe(bss.status) \in {<<BSS_STATUS.AUTHENTICATED>>, <<BSS_STATUS.ASSOCIATED>>})
         <=> (bss.status \in {BSS_STATUS.AUTHENTICATED, BSS_STATUS.ASSOCIATED})
  <2>1. PICK v \in Int : v = bss.status
    BY DEF KernelBss, MaybeWord32, Word32
  <2>2. Maybe(v) \in {<<0>>, <<1>>} <=> v \in {0, 1}
    BY DEF Maybe
  <2> QED
    BY <2>1, <2>2, BssIds, Zenon
<1>8. PICK ssid : /\ ssid = GetSSIDFromInfoElement(ie)
                  /\ ssid = IF SsidPlaces(bss) = {} THEN <<>>
                            ELSE <<bss.elements[Min(SsidPlaces(bss))].body>>
  <2>1. bss.elements \in Seq(Element)
    BY DEF KernelBss
  <2> QED
    BY <1>3, <2>1, SsidOfElements, Zenon
<1>9. ASSUME NEW v PROVE <<v>> # <<>> /\ <<v>>[1] = v
  OBVIOUS
<1>10. IfFound(GetBytes(c, BSS.INFORMATION_ELEMENTS), GetSSIDFromInfoElement) = ssid
  BY <1>6, <1>8, <1>9, Zenon DEF IfFound
<1>11. ParseScanResult(p) =
         IF ssid = <<>> THEN <<>>
         ELSE <<NativeScanResult(ssid[1], bss.bssid, ie, bss.freq, bss.signal, seen,
                  bss.capability,
                  Maybe(bss.status) \in {<<BSS_STATUS.AUTHENTICATED>>, <<BSS_STATUS.ASSOCIATED>>},
                  chains)>>
  BY <1>1, <1>2, <1>6, <1>9, <1>10 DEF ParseScanResult, IfFound
<1>12. CASE SsidPlaces(bss) = {}
  BY <1>1, <1>8, <1>11, <1>12, Zenon DEF Told
<1>13. CASE SsidPlaces(bss) # {}
  <2>1. PICK body : body = bss.elements[Min(SsidPlaces(bss))].body
    OBVIOUS
  <2>2. ssid # <<>> /\ ssid[1] = body
    BY <1>8, <1>9, <1>13, <2>1, Zenon
  <2> QED
    BY <1>1, <1>3, <1>4, <1>5, <1>7, <1>11, <1>13, <2>1, <2>2 DEF Told
<1> QED
  BY <1>12, <1>13, Zenon

(* A scan dump is read message by message: the results are what there is to  *)
(* tell of the BSSs of the messages that name the interface, in the order of *)
(* the dump, and a BSS without an SSID takes none of the others with it.     *)
THEOREM ScanDumpIsReadAsWritten ==
    ASSUME NEW dump \in Seq([ifindex : Word32, bss : KernelBss]), NEW interface_index
    PROVE  GetScanResult([i \in DOMAIN dump |-> ScanMessage(dump[i].ifindex, dump[i].bss)],
                         interface_index)
             = FlattenSeq([i \in DOMAIN dump |->
                   IF dump[i].ifindex = interface_index THEN Told(dump[i].bss) ELSE <<>>])
<1> DEFINE response == [i \in DOMAIN dump |-> ScanMessage(dump[i].ifindex, dump[i].bss)]
<1> DEFINE Read(i) ==
      IF response[i].type = FamilyId
         /\ GetInt(response[i].body, ATTR.IFINDEX, 4) = <<interface_index>>
      THEN ParseScanResult(response[i]) ELSE <<>>
<1> DEFINE Sent(i) ==
      IF dump[i].ifindex = interface_index THEN Told(dump[i].bss) ELSE <<>>
<1>1. ASSUME NEW i \in DOMAIN dump PROVE Read(i) = Sent(i)
  <2>1. PICK ifindex \in Word32, bss \in KernelBss :
           ifindex = dump[i].ifindex /\ bss = dump[i].bss
    <3>1. dump[i] \in [ifindex : Word32, bss : KernelBss]
      <4>1. i \in 1..Len(dump)
        OBVIOUS
      <4> QED
        BY <4>1, ElementOfSeq, Zenon
    <3> QED
      BY <3>1
  <2>2. PICK p : /\ p = ScanMessage(ifindex, bss) /\ p.type = FamilyId
                 /\ GetInt(p.body, ATTR.IFINDEX, 4) = <<ifindex>>
    BY ScanMessageHolds, Zenon
  <2>3. ParseScanResult(p) = Told(bss)
    BY <2>2, ScanResultIsReadAsWritten, Zenon
  <2>4. response[i] = p
    BY <2>1, <2>2, Zenon
  <2>5. <<ifindex>> = <<interface_index>> <=> ifindex = interface_index
    OBVIOUS
  <2> QED
    BY <2>1, <2>2, <2>3, <2>4, <2>5, Zenon
<1>2. DOMAIN response = DOMAIN dump
  OBVIOUS
<1>3. GetScanResult(response, interface_index) = FlattenSeq([i \in DOMAIN response |-> Read(i)])
  BY Zenon DEF GetScanResult
<1> HIDE DEF response, Read, Sent
<1>4. [i \in DOMAIN response |-> Read(i)] = [i \in DOMAIN dump |-> Sent(i)]
  BY <1>1, <1>2, Zenon
<1>5. GetScanResult(response, interface_index) = FlattenSeq([i \in DOMAIN dump |-> Sent(i)])
  BY <1>3, <1>4, Zenon
<1> QED
  BY <1>5 DEF response, Sent

-----------------------------------------------------------------------------
(* Country code and protocol features *)

\* A reply with a single attribute.
Single(command, a) == <<Reply(command, <<a>>)>>

LEMMA SingleIsFound ==
    ASSUME NEW command, NEW a \in Attr, NEW id, GetAttributeId(a) = id
    PROVE  \E b : /\ SingleResponse(Single(command, a)) = <<b>>
                  /\ GetAttributeImpl(b, id) = <<a>>
<1>1. PICK attrs \in Seq(Attr) : attrs = <<a>> /\ Len(attrs) = 1 /\ attrs[1] = a
  <2>1. <<a>> \in Seq(Attr) /\ Len(<<a>>) = 1 /\ <<a>>[1] = a
    OBVIOUS
  <2> QED
    BY <2>1, Zenon
<1>2. PICK p : p = Reply(command, attrs)
  OBVIOUS
<1>3. p.type = FamilyId /\ Holds(p.body, attrs)
  <2>1. IsReply(p, command, attrs)
    BY <1>2, ReplyHolds
  <2> QED
    BY <2>1, Zenon DEF IsReply
<1>4. GetAttributeImpl(p.body, id) = <<a>>
  <2>1. 1 \in 1..Len(attrs) /\ \A j \in 1..(1 - 1) : GetAttributeId(attrs[j]) # id
    BY <1>1
  <2>2. GetAttributeId(attrs[1]) = id
    BY <1>1, Zenon
  <2>3. GetAttributeImpl(p.body, id) = <<attrs[1]>>
    BY <1>3, <2>1, <2>2, AttributeIsFound
  <2> QED
    BY <1>1, <2>3, Zenon
<1>5. SingleResponse(<<p>>) = <<p.body>>
  <2>1. Len(<<p>>) = 1 /\ <<p>>[1] = p
    OBVIOUS
  <2> QED
    BY <1>3, <2>1, Zenon DEF SingleResponse
<1> QED
  BY <1>1, <1>2, <1>4, <1>5, Zenon DEF Single

(* The country the kernel names is the country that is reported, without the *)
(* zero that ends the string, and the bitmap of protocol features, on which  *)
(* the split of wiphy dumps depends, is read as it was written.              *)
THEOREM SingleValuesAreReadAsWritten ==
    ASSUME NEW country \in Name, NEW protocol \in Word32
    PROVE  /\ GetCountryCode(<<Reply("GET_REG", <<StringAttr(ATTR.REG_ALPHA2, country)>>)>>)
                = <<country>>
           /\ GetProtocolFeatures(<<Reply("GET_PROTOCOL_FEATURES",
                                     <<IntAttr(ATTR.PROTOCOL_FEATURES, protocol, 4)>>)>>)
                = <<protocol>>
<1>1. PICK i \in Nat : i = ATTR.REG_ALPHA2 /\ i < Size16
  BY SmallIds DEF ATTR
<1>2. PICK j \in Nat : j = ATTR.PROTOCOL_FEATURES /\ j < Size16
  BY SmallIds DEF ATTR
<1>3. protocol \in Nat /\ Fits32(protocol) /\ protocol \in Int /\ 4 \in 1..8
  BY DEF Word32
<1>4. ASSUME NEW v PROVE <<v>> # <<>> /\ <<v>>[1] = v
  OBVIOUS
<1>5. GetCountryCode(<<Reply("GET_REG", <<StringAttr(i, country)>>)>>) = <<country>>
  <2>1. PICK raw \in Bytes : raw = Append(country, 0)
    <3>1. country \in Seq(Byte) /\ Len(country) < SizeOfValue
      BY DEF Name, Bytes
    <3>2. Append(country, 0) \in Seq(Byte) /\ Len(Append(country, 0)) <= SizeOfValue
      BY <3>1 DEF Byte, SizeOfValue
    <3> QED
      BY <3>2, Zenon DEF Bytes
  <2>2. PICK a \in Attr : a = StringAttr(i, country) /\ GetAttributeId(a) = i
    BY <1>1, <2>1, BytesAttribute, Zenon DEF StringAttr
  <2>3. PICK b : /\ SingleResponse(Single("GET_REG", a)) = <<b>>
                 /\ GetAttributeImpl(b, i) = <<a>>
    BY <2>2, SingleIsFound
  <2>4. GetString(b, i) = <<country>>
    BY <1>1, <2>2, <2>3, NameIsFound
  <2> QED
    BY <1>1, <1>4, <2>2, <2>3, <2>4, Zenon DEF GetCountryCode, IfFound, Single
<1>6. GetProtocolFeatures(<<Reply("GET_PROTOCOL_FEATURES", <<IntAttr(j, protocol, 4)>>)>>)
        = <<protocol>>
  <2>1. PICK a \in Attr : a = IntAttr(j, protocol, 4) /\ GetAttributeId(a) = j
    BY <1>2, <1>3, IntAttribute, Zenon
  <2>2. PICK b : /\ SingleResponse(Single("GET_PROTOCOL_FEATURES", a)) = <<b>>
                 /\ GetAttributeImpl(b, j) = <<a>>
    BY <2>1, SingleIsFound
  <2>3. GetInt(b, j, 4) = <<protocol>>
    BY <1>2, <1>3, <2>1, <2>2, IntIsFound
  <2> QED
    BY <1>2, <1>4, <2>1, <2>2, <2>3, Zenon DEF GetProtocolFeatures, IfFound, Single
<1> QED
  BY <1>1, <1>2, <1>5, <1>6, Zenon
=============================================================================
