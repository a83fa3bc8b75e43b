-------------------------- MODULE SequenceLemmas --------------------------
(* Facts about the elements of a sequence that the proofs share.           *)
EXTENDS Sequences, SequencesExt, SequenceTheorems, Integers, TLAPS

(* An empty queue holds nothing.                                           *)
LEMMA ToSetOfEmpty == ToSet(<<>>) = {}
  BY DEF ToSet

(* push_back adds one element.                                             *)
LEMMA ToSetOfAppend ==
  ASSUME NEW S, NEW s \in Seq(S), NEW x \in S
  PROVE  ToSet(Append(s, x)) = ToSet(s) \union {x}
<1> DEFINE a == Append(s, x)
<1>1. a \in Seq(S) /\ Len(a) = Len(s) + 1 /\ a[Len(s) + 1] = x
      /\ \A i \in 1 .. Len(s) : a[i] = s[i]
  BY AppendProperties
<1>2. DOMAIN a = DOMAIN s \union {Len(s) + 1} /\ DOMAIN s = 1 .. Len(s)
  BY <1>1
<1> HIDE DEF a
<1>3. ToSet(a) = {a[i] : i \in DOMAIN a} /\ ToSet(s) = {s[i] : i \in DOMAIN s}
  BY DEF ToSet
<1>4. ToSet(a) = ToSet(s) \union {x}
  BY <1>1, <1>2, <1>3
<1> QED BY <1>4 DEF a

(* What the front leaves behind: nothing is lost but the front itself.     *)
LEMMA ToSetOfTail ==
  ASSUME NEW S, NEW s \in Seq(S), s # <<>>
  PROVE  /\ Head(s) \in ToSet(s)
         /\ ToSet(s) = ToSet(Tail(s)) \union {Head(s)}
<1> DEFINE r == Tail(s)
<1>1. /\ Head(s) = s[1]
      /\ r \in Seq(S) /\ Len(r) = Len(s) - 1
      /\ \A i \in 1 .. Len(r) : r[i] = s[i + 1]
  BY HeadTailProperties
<1>2. DOMAIN s = 1 .. Len(s) /\ DOMAIN r = 1 .. Len(s) - 1 /\ Len(s) \in Nat
      /\ Len(s) > 0
  BY <1>1
<1> HIDE DEF r
<1>3. ToSet(r) = {r[i] : i \in DOMAIN r} /\ ToSet(s) = {s[i] : i \in DOMAIN s}
  BY DEF ToSet
<1>4. ToSet(s) \subseteq ToSet(r) \union {s[1]}
  <2> SUFFICES ASSUME NEW i \in 1 .. Len(s), i # 1
               PROVE  s[i] \in ToSet(r)
    BY <1>2, <1>3
  <2>1. i - 1 \in 1 .. Len(s) - 1 /\ s[i] = r[i - 1]
    BY <1>1, <1>2
  <2> QED BY <2>1, <1>2, <1>3
<1>5. ToSet(r) \subseteq ToSet(s)
  <2> SUFFICES ASSUME NEW i \in 1 .. Len(s) - 1
               PROVE  r[i] \in ToSet(s)
    BY <1>2, <1>3
  <2>1. i + 1 \in 1 .. Len(s) /\ r[i] = s[i + 1]
    BY <1>1, <1>2
  <2> QED BY <2>1, <1>2, <1>3
<1>6. s[1] \in ToSet(s)
  BY <1>2, <1>3
<1> QED BY <1>1, <1>4, <1>5, <1>6 DEF r

(* The elements of a sequence over S are in S.                             *)
LEMMA ToSetOfSeq ==
  ASSUME NEW S, NEW s \in Seq(S)
  PROVE  ToSet(s) \subseteq S
  BY DEF ToSet

(* An empty sequence repeats nothing.                                      *)
LEMMA InjectiveEmpty == IsInjective(<<>>)
  BY DEF IsInjective

(* push_back of something new repeats nothing.                             *)
LEMMA InjectiveAppend ==
  ASSUME NEW S, NEW s \in Seq(S), NEW x \in S, IsInjective(s), x \notin ToSet(s)
  PROVE  IsInjective(Append(s, x))
<1> DEFINE a == Append(s, x)
<1>1. a \in Seq(S) /\ Len(a) = Len(s) + 1 /\ a[Len(s) + 1] = x
      /\ \A i \in 1 .. Len(s) : a[i] = s[i]
  BY AppendProperties
<1>2. DOMAIN a = DOMAIN s \union {Len(s) + 1} /\ DOMAIN s = 1 .. Len(s)
      /\ Len(s) \in Nat
  BY <1>1
<1>3. \A i \in DOMAIN s : s[i] # x
  BY DEF ToSet
<1> HIDE DEF a
<1>4. \A i, j \in DOMAIN a : a[i] = a[j] => i = j
  BY <1>1, <1>2, <1>3 DEF IsInjective
<1> QED BY <1>4 DEF a, IsInjective

(* The front of a sequence without repetition is not in the rest of it.    *)
LEMMA InjectiveTail ==
  ASSUME NEW S, NEW s \in Seq(S), s # <<>>, IsInjective(s)
  PROVE  IsInjective(Tail(s)) /\ Head(s) \notin ToSet(Tail(s))
<1> DEFINE r == Tail(s)
<1>1. /\ Head(s) = s[1]
      /\ r \in Seq(S) /\ Len(r) = Len(s) - 1
      /\ \A i \in 1 .. Len(r) : r[i] = s[i + 1]
  BY HeadTailProperties
<1>2. DOMAIN s = 1 .. Len(s) /\ DOMAIN r = 1 .. Len(s) - 1 /\ Len(s) \in Nat
      /\ Len(s) > 0
  BY <1>1
<1> HIDE DEF r
<1>3. \A i, j \in DOMAIN r : r[i] = r[j] => i = j
  <2> SUFFICES ASSUME NEW i \in DOMAIN r, NEW j \in DOMAIN r, r[i] = r[j]
               PROVE  i = j
    OBVIOUS
  <2>1. i + 1 \in DOMAIN s /\ j + 1 \in DOMAIN s /\ s[i + 1] = s[j + 1]
    BY <1>1, <1>2
  <2>2. i + 1 = j + 1
    BY <2>1 DEF IsInjective
  <2> QED BY <1>2, <2>2
<1>4. \A i \in DOMAIN r : r[i] # s[1]
  <2> SUFFICES ASSUME NEW i \in DOMAIN r, r[i] = s[1] PROVE FALSE
    OBVIOUS
  <2>1. i + 1 \in DOMAIN s /\ 1 \in DOMAIN s /\ s[i + 1] = s[1]
    BY <1>1, <1>2
  <2>2. i + 1 = 1
    BY <2>1 DEF IsInjective
  <2> QED BY <1>2, <2>2
<1> QED BY <1>1, <1>3, <1>4 DEF r, IsInjective, ToSet
===========================================================================
