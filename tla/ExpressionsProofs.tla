---------------------------- MODULE ExpressionsProofs ----------------------------
(***************************************************************************)
(* Theorems about module Expressions, for all texts of any length: the     *)
(* parser reads the well-formed texts and no others, an event of a         *)
(* definition tells its rows, and an update that means what is stored      *)
(* changes nothing.                                                        *)
(***************************************************************************)
EXTENDS Expressions, FiniteSetTheorems, WellFoundedInduction, TLAPS

------------------------------------------------------------------------------
(* How deep in parentheses a place of a text is.                           *)

Opened(t, n) == {i \in 1..n : t[i].kind = "("}
Closed(t, n) == {i \in 1..n : t[i].kind = ")"}

LEMMA CountStep ==
    ASSUME NEW n \in Nat \ {0}, NEW S \in SUBSET (1..n)
    PROVE  /\ Cardinality(S) \in Nat /\ Cardinality(S \ {n}) \in Nat
           /\ Cardinality(S) = Cardinality(S \ {n}) + IF n \in S THEN 1 ELSE 0
<1>1. IsFiniteSet(S)
  <2>1. 1 \in Int /\ n \in Int
    OBVIOUS
  <2>2. IsFiniteSet(1..n)
    BY <2>1, FS_Interval
  <2> QED
    BY <2>2, FS_Subset
<1>2. IsFiniteSet(S \ {n})
  BY <1>1, FS_RemoveElement
<1>3. Cardinality(S) \in Nat /\ Cardinality(S \ {n}) \in Nat
  BY <1>1, <1>2, FS_CardinalityType
<1>4. CASE n \in S
  <2>1. Cardinality(S \ {n}) = Cardinality(S) - 1
    BY <1>1, <1>4, FS_RemoveElement
  <2> QED
    BY <1>3, <1>4, <2>1
<1>5. CASE n \notin S
  <2>1. S \ {n} = S
    BY <1>5
  <2>2. Cardinality(S \ {n}) = Cardinality(S)
    BY <2>1
  <2> QED
    BY <1>3, <1>5, <2>2
<1> QED
  BY <1>4, <1>5

LEMMA DepthStep ==
    ASSUME NEW t, NEW n \in Nat \ {0}
    PROVE  /\ Depth(t, n) \in Int /\ Depth(t, n - 1) \in Int
           /\ t[n].kind = "(" => Depth(t, n) = Depth(t, n - 1) + 1
           /\ t[n].kind = ")" => Depth(t, n) = Depth(t, n - 1) - 1
           /\ t[n].kind \notin {"(", ")"} => Depth(t, n) = Depth(t, n - 1)
<1>1. Opened(t, n) \in SUBSET (1..n) /\ Opened(t, n) \ {n} = Opened(t, n - 1)
  BY DEF Opened
<1>2. Closed(t, n) \in SUBSET (1..n) /\ Closed(t, n) \ {n} = Closed(t, n - 1)
  BY DEF Closed
<1>3. (n \in Opened(t, n)) = (t[n].kind = "(") /\ (n \in Closed(t, n)) = (t[n].kind = ")")
  BY DEF Opened, Closed
<1>4. /\ Cardinality(Opened(t, n)) \in Nat /\ Cardinality(Opened(t, n - 1)) \in Nat
      /\ Cardinality(Opened(t, n)) = Cardinality(Opened(t, n - 1)) + IF t[n].kind = "(" THEN 1 ELSE 0
  BY <1>1, <1>3, CountStep
<1>5. /\ Cardinality(Closed(t, n)) \in Nat /\ Cardinality(Closed(t, n - 1)) \in Nat
      /\ Cardinality(Closed(t, n)) = Cardinality(Closed(t, n - 1)) + IF t[n].kind = ")" THEN 1 ELSE 0
  BY <1>2, <1>3, CountStep
<1>6. /\ Depth(t, n) = Cardinality(Opened(t, n)) - Cardinality(Closed(t, n))
      /\ Depth(t, n - 1) = Cardinality(Opened(t, n - 1)) - Cardinality(Closed(t, n - 1))
  BY DEF Depth, Opened, Closed
<1>7. Depth(t, n) \in Int /\ Depth(t, n - 1) \in Int
  BY <1>4, <1>5, <1>6
<1>8. CASE t[n].kind = "("
  BY <1>4, <1>5, <1>6, <1>7, <1>8
<1>9. CASE t[n].kind = ")"
  BY <1>4, <1>5, <1>6, <1>7, <1>9
<1>10. CASE t[n].kind \notin {"(", ")"}
  BY <1>4, <1>5, <1>6, <1>7, <1>10
<1> QED
  BY <1>8, <1>9, <1>10

LEMMA DepthIsInt ==
    ASSUME NEW t, NEW n \in Nat
    PROVE  Depth(t, n) \in Int
<1>1. PICK m \in Nat \ {0} : m = n + 1
  OBVIOUS
<1>2. Depth(t, m - 1) \in Int
  BY DepthStep
<1>3. m - 1 = n
  BY <1>1
<1> QED
  BY <1>2, <1>3

LEMMA DepthOfNothing ==
    ASSUME NEW t
    PROVE  Depth(t, 0) = 0
<1>1. {i \in 1..0 : t[i].kind = "("} = {} /\ {i \in 1..0 : t[i].kind = ")"} = {}
  OBVIOUS
<1> QED
  BY <1>1, FS_EmptySet DEF Depth

------------------------------------------------------------------------------
(* A phrase: what is well formed between place p and the one before e.     *)

Follows(t, i) == t[i + 1].kind \in IF t[i].kind \in Ends THEN {"and", "or", ")"} ELSE Begins

Phrase(t, p, e) ==
    /\ p \in 1..Len(t) /\ e \in (p + 1)..(Len(t) + 1)
    /\ t[p].kind \in Begins /\ t[e - 1].kind \in Ends
    /\ \A i \in p..(e - 2) : Follows(t, i)
    /\ \A n \in p..(e - 1) : Depth(t, n) >= Depth(t, p - 1)
    /\ Depth(t, e - 1) = Depth(t, p - 1)

LEMMA PhraseOfOne ==
    ASSUME NEW t \in Seq(Tokens), NEW p \in 1..Len(t), t[p].kind = "sub"
    PROVE  Phrase(t, p, p + 1)
<1>1. p \in Nat \ {0} /\ Len(t) \in Nat
  OBVIOUS
<1>2. Depth(t, p) = Depth(t, p - 1) /\ Depth(t, p) \in Int
  BY <1>1, DepthStep
<1> QED
  BY <1>1, <1>2 DEF Phrase, Begins, Ends

\* Two phrases with `and` or `or` in between are one.
LEMMA PhraseJoin ==
    ASSUME NEW t \in Seq(Tokens), NEW p, NEW e, NEW f, NEW op \in {"and", "or"},
           Phrase(t, p, e), Is(t, e, op), Phrase(t, e + 1, f)
    PROVE  Phrase(t, p, f)
<1>1. p \in 1..Len(t) /\ e \in (p + 1)..Len(t) /\ f \in (e + 2)..(Len(t) + 1)
  <2>0. DOMAIN t = 1..Len(t)
    OBVIOUS
  <2>1. p \in 1..Len(t) /\ e \in (p + 1)..(Len(t) + 1) /\ e \in 1..Len(t)
    BY <2>0 DEF Phrase, Is
  <2>2. f \in ((e + 1) + 1)..(Len(t) + 1)
    BY DEF Phrase
  <2>3. Len(t) \in Nat
    OBVIOUS
  <2>4. e \in Nat /\ e \in (p + 1)..Len(t)
    BY <2>1, <2>3
  <2>5. f \in (e + 2)..(Len(t) + 1)
    BY <2>2, <2>3, <2>4
  <2> QED
    BY <2>1, <2>4, <2>5
<1>2. t[e].kind = op /\ t[e].kind \notin Ends /\ t[e].kind \notin Begins
  BY DEF Is, Ends, Begins
<1>3. Depth(t, e) = Depth(t, e - 1)
  <2>1. e \in Nat \ {0} /\ t[e].kind \notin {"(", ")"}
    BY <1>1, <1>2
  <2> QED
    BY <2>1, DepthStep
<1>4. Depth(t, e - 1) = Depth(t, p - 1) /\ Depth(t, f - 1) = Depth(t, e)
  <2>1. Depth(t, f - 1) = Depth(t, (e + 1) - 1) /\ (e + 1) - 1 = e
    BY <1>1 DEF Phrase
  <2> QED
    BY <1>1, <2>1 DEF Phrase
<1>5. \A n \in p..(f - 1) : Depth(t, n) >= Depth(t, p - 1)
  <2> SUFFICES ASSUME NEW n \in p..(f - 1) PROVE Depth(t, n) >= Depth(t, p - 1)
    OBVIOUS
  <2>1. Depth(t, p - 1) \in Int
    BY <1>1, DepthIsInt
  <2>2. CASE n \in p..(e - 1)
    BY <2>2 DEF Phrase
  <2>3. CASE n = e
    BY <1>3, <1>4, <2>1, <2>3
  <2>4. CASE n \in (e + 1)..(f - 1)
    <3>1. Depth(t, n) >= Depth(t, (e + 1) - 1)
      BY <2>4 DEF Phrase
    <3>2. (e + 1) - 1 = e
      BY <1>1
    <3> QED
      BY <1>3, <1>4, <3>1, <3>2
  <2> QED
    BY <1>1, <2>2, <2>3, <2>4
<1>6. \A i \in p..(f - 2) : Follows(t, i)
  <2> SUFFICES ASSUME NEW i \in p..(f - 2) PROVE Follows(t, i)
    OBVIOUS
  <2>1. CASE i \in p..(e - 2)
    BY <2>1 DEF Phrase
  <2>2. CASE i = e - 1
    <3>1. t[i].kind \in Ends /\ i + 1 = e
      BY <1>1, <2>2 DEF Phrase
    <3> QED
      BY <1>2, <3>1 DEF Follows
  <2>3. CASE i = e
    <3>1. t[i + 1].kind \in Begins
      BY <2>3 DEF Phrase
    <3> QED
      BY <1>2, <2>3, <3>1 DEF Follows
  <2>4. CASE i \in (e + 1)..(f - 2)
    BY <2>4 DEF Phrase
  <2> QED
    BY <1>1, <2>1, <2>2, <2>3, <2>4
<1>7. t[p].kind \in Begins /\ t[f - 1].kind \in Ends
  BY DEF Phrase
<1>8. f \in (p + 1)..(Len(t) + 1)
  BY <1>1
<1> QED
  BY <1>1, <1>3, <1>4, <1>5, <1>6, <1>7, <1>8 DEF Phrase

\* A phrase in parentheses is one.
LEMMA PhraseNest ==
    ASSUME NEW t \in Seq(Tokens), NEW p, NEW e,
           Is(t, p, "("), Phrase(t, p + 1, e), Is(t, e, ")")
    PROVE  Phrase(t, p, e + 1)
<1>1. p \in 1..Len(t) /\ e \in (p + 2)..Len(t)
  BY DEF Phrase, Is
<1>2. t[p].kind = "(" /\ t[e].kind = ")" /\ t[p].kind \in Begins /\ t[e].kind \in Ends /\ t[p].kind \notin Ends
  BY DEF Is, Ends, Begins
<1>3. Depth(t, p) = Depth(t, p - 1) + 1 /\ Depth(t, p - 1) \in Int
  <2>1. p \in Nat \ {0}
    BY <1>1
  <2> QED
    BY <1>2, <2>1, DepthStep
<1>4. Depth(t, e) = Depth(t, e - 1) - 1 /\ Depth(t, e - 1) \in Int
  <2>1. e \in Nat \ {0}
    BY <1>1
  <2> QED
    BY <1>2, <2>1, DepthStep
<1>5. Depth(t, e - 1) = Depth(t, p)
  <2>1. Depth(t, e - 1) = Depth(t, (p + 1) - 1) /\ (p + 1) - 1 = p
    BY <1>1 DEF Phrase
  <2> QED
    BY <2>1
<1>6. \A n \in p..e : Depth(t, n) >= Depth(t, p - 1)
  <2> SUFFICES ASSUME NEW n \in p..e PROVE Depth(t, n) >= Depth(t, p - 1)
    OBVIOUS
  <2>1. CASE n = p \/ n = e
    BY <1>3, <1>4, <1>5, <2>1
  <2>2. CASE n \in (p + 1)..(e - 1)
    <3>1. Depth(t, n) >= Depth(t, (p + 1) - 1)
      BY <2>2 DEF Phrase
    <3>2. (p + 1) - 1 = p /\ Depth(t, n) \in Int
      BY <1>1, <2>2, DepthIsInt
    <3> QED
      BY <1>3, <3>1, <3>2
  <2> QED
    BY <1>1, <2>1, <2>2
<1>7. \A i \in p..(e - 1) : Follows(t, i)
  <2> SUFFICES ASSUME NEW i \in p..(e - 1) PROVE Follows(t, i)
    OBVIOUS
  <2>1. CASE i = p
    <3>1. t[i + 1].kind \in Begins
      BY <2>1 DEF Phrase
    <3> QED
      BY <1>2, <2>1, <3>1 DEF Follows
  <2>2. CASE i \in (p + 1)..(e - 2)
    BY <2>2 DEF Phrase
  <2>3. CASE i = e - 1
    <3>1. t[i].kind \in Ends /\ i + 1 = e
      BY <1>1, <2>3 DEF Phrase
    <3> QED
      BY <1>2, <3>1 DEF Follows
  <2> QED
    BY <1>1, <2>1, <2>2, <2>3
<1>8. (e + 1) - 1 = e /\ (e + 1) - 2 = e - 1 /\ e + 1 \in (p + 1)..(Len(t) + 1)
  BY <1>1
<1> QED
  BY <1>1, <1>2, <1>3, <1>4, <1>5, <1>6, <1>7, <1>8 DEF Phrase

------------------------------------------------------------------------------
(* A reading: a phrase with the places of its sub-expressions, in order.   *)

Increasing(s) == \A i, j \in DOMAIN s : i < j => s[i] < s[j]

Found(t, p, e, s) ==
    /\ s \in Seq(Nat)
    /\ \A i \in DOMAIN s : s[i] \in p..(e - 1) /\ t[s[i]].kind = "sub"
    /\ \A k \in p..(e - 1) : t[k].kind = "sub" => \E i \in DOMAIN s : s[i] = k
    /\ Increasing(s)

Reads(t, p, r) ==
    /\ r = [end |-> r.end, subs |-> r.subs]
    /\ Phrase(t, p, r.end) /\ Found(t, p, r.end, r.subs)

LEMMA FoundJoin ==
    ASSUME NEW t, NEW p \in Nat, NEW e \in Nat, NEW f \in Nat, p < e, e + 1 < f,
           NEW s, NEW u, Found(t, p, e, s), Found(t, e + 1, f, u), t[e].kind # "sub"
    PROVE  Found(t, p, f, s \o u)
<1> DEFINE w == s \o u
<1>1. s \in Seq(Nat) /\ u \in Seq(Nat)
  BY DEF Found
<1>2. /\ w \in Seq(Nat) /\ Len(s) \in Nat /\ Len(u) \in Nat /\ DOMAIN w = 1..(Len(s) + Len(u))
      /\ DOMAIN s = 1..Len(s) /\ DOMAIN u = 1..Len(u)
  BY <1>1
<1>3. \A i \in DOMAIN s : i \in DOMAIN w /\ w[i] = s[i]
  BY <1>1, <1>2
<1>4. \A i \in DOMAIN u : Len(s) + i \in DOMAIN w /\ w[Len(s) + i] = u[i]
  BY <1>1, <1>2
<1>5. \A i \in DOMAIN w : i \in DOMAIN s \/ (i - Len(s) \in DOMAIN u /\ w[i] = u[i - Len(s)])
  BY <1>1, <1>2
<1> HIDE DEF w
<1>6. \A i \in DOMAIN w : w[i] \in p..(f - 1) /\ t[w[i]].kind = "sub"
  <2> SUFFICES ASSUME NEW i \in DOMAIN w PROVE w[i] \in p..(f - 1) /\ t[w[i]].kind = "sub"
    OBVIOUS
  <2>1. CASE i \in DOMAIN s
    <3>1. s[i] \in p..(e - 1) /\ t[s[i]].kind = "sub"
      BY <2>1 DEF Found
    <3> QED
      BY <1>3, <2>1, <3>1
  <2>2. CASE i - Len(s) \in DOMAIN u /\ w[i] = u[i - Len(s)]
    <3>1. w[i] \in (e + 1)..(f - 1) /\ t[w[i]].kind = "sub"
      BY <2>2 DEF Found
    <3> QED
      BY <3>1
  <2> QED
    BY <1>5, <2>1, <2>2
<1>7. \A k \in p..(f - 1) : t[k].kind = "sub" => \E i \in DOMAIN w : w[i] = k
  <2> SUFFICES ASSUME NEW k \in p..(f - 1), t[k].kind = "sub" PROVE \E i \in DOMAIN w : w[i] = k
    OBVIOUS
  <2>1. CASE k \in p..(e - 1)
    <3>1. PICK i \in DOMAIN s : s[i] = k
      BY <2>1 DEF Found
    <3> QED
      BY <1>3, <3>1
  <2>2. CASE k \in (e + 1)..(f - 1)
    <3>1. PICK i \in DOMAIN u : u[i] = k
      BY <2>2 DEF Found
    <3> QED
      BY <1>4, <3>1
  <2>3. k # e
    OBVIOUS
  <2> QED
    BY <2>1, <2>2, <2>3
<1>8. Increasing(w)
  <2> SUFFICES ASSUME NEW i \in DOMAIN w, NEW j \in DOMAIN w, i < j PROVE w[i] < w[j]
    BY DEF Increasing
  <2>0. i \in Nat /\ j \in Nat
    BY <1>2
  <2>1. CASE i \in DOMAIN s /\ j \in DOMAIN s
    <3>1. s[i] < s[j]
      BY <2>1 DEF Found, Increasing
    <3> QED
      BY <1>3, <2>1, <3>1
  <2>2. CASE i \in DOMAIN s /\ j \notin DOMAIN s
    <3>1. w[i] \in p..(e - 1)
      BY <1>3, <2>2 DEF Found
    <3>2. w[j] \in (e + 1)..(f - 1)
      BY <1>5, <2>2 DEF Found
    <3> QED
      BY <3>1, <3>2
  <2>3. CASE i \notin DOMAIN s
    <3>1. j \notin DOMAIN s
      BY <1>2, <2>0, <2>3
    <3>2. i - Len(s) \in DOMAIN u /\ w[i] = u[i - Len(s)] /\ j - Len(s) \in DOMAIN u /\ w[j] = u[j - Len(s)]
      BY <1>5, <2>3, <3>1
    <3>3. i - Len(s) < j - Len(s)
      BY <1>2, <2>0
    <3>4. u[i - Len(s)] < u[j - Len(s)]
      BY <3>2, <3>3 DEF Found, Increasing
    <3> QED
      BY <3>2, <3>4
  <2> QED
    BY <2>1, <2>2, <2>3
<1>9. w \in Seq(Nat)
  BY <1>2
<1>10. Found(t, p, f, w)
  BY <1>6, <1>7, <1>8, <1>9 DEF Found
<1> QED
  BY <1>10 DEF w

LEMMA FoundNest ==
    ASSUME NEW t, NEW p \in Nat, NEW e \in Nat, p < e, NEW s,
           Found(t, p + 1, e, s), t[p].kind # "sub", t[e].kind # "sub"
    PROVE  Found(t, p, e + 1, s)
<1>1. \A i \in DOMAIN s : s[i] \in p..e /\ t[s[i]].kind = "sub"
  <2> SUFFICES ASSUME NEW i \in DOMAIN s PROVE s[i] \in p..e /\ t[s[i]].kind = "sub"
    OBVIOUS
  <2>1. s[i] \in (p + 1)..(e - 1) /\ t[s[i]].kind = "sub"
    BY DEF Found
  <2> QED
    BY <2>1
<1>2. \A k \in p..e : t[k].kind = "sub" => \E i \in DOMAIN s : s[i] = k
  <2> SUFFICES ASSUME NEW k \in p..e, t[k].kind = "sub" PROVE \E i \in DOMAIN s : s[i] = k
    OBVIOUS
  <2>1. k \in (p + 1)..(e - 1)
    OBVIOUS
  <2> QED
    BY <2>1 DEF Found
<1>3. (e + 1) - 1 = e
  OBVIOUS
<1> QED
  BY <1>1, <1>2, <1>3 DEF Found

LEMMA FoundOne ==
    ASSUME NEW t, NEW p \in Nat, t[p].kind = "sub"
    PROVE  Found(t, p, p + 1, <<p>>)
<1>1. \A i \in DOMAIN <<p>> : i = 1 /\ <<p>>[i] = p
  OBVIOUS
<1>2. 1 \in DOMAIN <<p>> /\ <<p>>[1] = p /\ <<p>> \in Seq(Nat)
  OBVIOUS
<1>3. p..((p + 1) - 1) = {p}
  OBVIOUS
<1>4. Increasing(<<p>>)
  BY <1>1 DEF Increasing
<1> QED
  BY <1>1, <1>2, <1>3, <1>4 DEF Found

------------------------------------------------------------------------------
(* The levels of the grammar read phrases, if what they read from later    *)
(* places is phrases.                                                      *)

FailedOr(t, p, r) == r = Failed \/ Reads(t, p, r)
SoundAt(t, v, p) == FailedOr(t, p, v.and) /\ FailedOr(t, p, v.or)
SoundAfter(t, g, p) == \A q \in (p + 1)..(Len(t) + 1) : SoundAt(t, g[q], q)

LEMMA ReadsIf ==
    ASSUME NEW t, NEW p, NEW e, NEW s, Phrase(t, p, e), Found(t, p, e, s)
    PROVE  Reads(t, p, [end |-> e, subs |-> s])
  BY DEF Reads

LEMMA NotAtFailed ==
    ASSUME NEW t \in Seq(Tokens), NEW kind, Is(t, 0, kind)
    PROVE  FALSE
<1>1. DOMAIN t = 1..Len(t)
  OBVIOUS
<1> QED
  BY <1>1 DEF Is

LEMMA BaseSound ==
    ASSUME NEW t \in Seq(Tokens), NEW g, NEW p \in 1..(Len(t) + 1), SoundAfter(t, g, p)
    PROVE  FailedOr(t, p, Base(t, g, p))
<1> DEFINE inner == IF Is(t, p, "(") THEN g[p + 1].or ELSE Failed
<1>0. Len(t) \in Nat /\ DOMAIN t = 1..Len(t) /\ p \in Nat
  OBVIOUS
<1>1. CASE Is(t, p, "sub")
  <2>1. Base(t, g, p) = [end |-> p + 1, subs |-> <<p>>]
    BY <1>1 DEF Base
  <2>2. p \in 1..Len(t) /\ t[p].kind = "sub"
    BY <1>0, <1>1 DEF Is
  <2>3. Phrase(t, p, p + 1) /\ Found(t, p, p + 1, <<p>>)
    BY <1>0, <2>2, PhraseOfOne, FoundOne
  <2> QED
    BY <2>1, <2>3 DEF FailedOr, Reads
<1>2. CASE ~ Is(t, p, "sub") /\ ~ Is(t, inner.end, ")")
  BY <1>2 DEF Base, FailedOr
<1>3. CASE ~ Is(t, p, "sub") /\ Is(t, inner.end, ")")
  <2>1. inner # Failed
    BY <1>3, NotAtFailed DEF Failed
  <2>2. Is(t, p, "(") /\ inner = g[p + 1].or
    BY <2>1
  <2>3. p + 1 \in (p + 1)..(Len(t) + 1) /\ t[p].kind # "sub"
    BY <1>0, <2>2 DEF Is
  <2>4. Reads(t, p + 1, inner)
    BY <2>1, <2>2, <2>3 DEF SoundAfter, SoundAt, FailedOr
  <2> HIDE DEF inner
  <2>5. inner = [end |-> inner.end, subs |-> inner.subs] /\ Phrase(t, p + 1, inner.end)
        /\ Found(t, p + 1, inner.end, inner.subs)
    BY <2>4 DEF Reads
  <2>6. inner.end \in Nat /\ p < inner.end /\ t[inner.end].kind # "sub"
    BY <1>0, <1>3, <2>5 DEF Phrase, Is
  <2>7. Phrase(t, p, inner.end + 1)
    BY <1>3, <2>2, <2>5, PhraseNest
  <2>8. Found(t, p, inner.end + 1, inner.subs)
    BY <1>0, <2>3, <2>5, <2>6, FoundNest
  <2>9. [inner EXCEPT !.end = @ + 1] = [end |-> inner.end + 1, subs |-> inner.subs]
    BY <2>5
  <2>10. Base(t, g, p) = [end |-> inner.end + 1, subs |-> inner.subs]
    BY <1>3, <2>9 DEF Base, inner
  <2> QED
    BY <2>7, <2>8, <2>10 DEF FailedOr, Reads
<1> QED
  BY <1>1, <1>2, <1>3

LEMMA LevelSound ==
    ASSUME NEW t \in Seq(Tokens), NEW g, NEW p \in 1..(Len(t) + 1), SoundAfter(t, g, p),
           NEW op \in {"and", "or"}, NEW first, FailedOr(t, p, first)
    PROVE  FailedOr(t, p, Level(t, g, op, first))
<1> DEFINE next == IF Is(t, first.end, op) THEN g[first.end + 1][op] ELSE Failed
<1>0. Len(t) \in Nat /\ DOMAIN t = 1..Len(t) /\ p \in Nat
  OBVIOUS
<1>1. CASE next = Failed
  BY <1>1 DEF Level
<1>2. CASE next # Failed
  <2>1. Is(t, first.end, op) /\ next = g[first.end + 1][op]
    BY <1>2
  <2>2. Reads(t, p, first)
    BY <2>1, NotAtFailed DEF FailedOr, Failed
  <2> DEFINE e == first.end
  <2>3. e \in 1..Len(t) /\ p < e /\ t[e].kind = op /\ t[e].kind # "sub"
    BY <1>0, <2>1, <2>2 DEF Reads, Phrase, Is
  <2>4. e + 1 \in (p + 1)..(Len(t) + 1)
    BY <1>0, <2>3
  <2>5. FailedOr(t, e + 1, g[e + 1].and) /\ FailedOr(t, e + 1, g[e + 1].or)
    BY <2>4 DEF SoundAfter, SoundAt
  <2>6. FailedOr(t, e + 1, next)
    BY <2>1, <2>5
  <2>11. Level(t, g, op, first) = Operands(first, next)
    BY <1>2 DEF Level
  <2> HIDE DEF next
  <2>7. Reads(t, e + 1, next)
    BY <1>2, <2>6 DEF FailedOr
  <2>8. Phrase(t, p, next.end)
    BY <2>1, <2>2, <2>7, PhraseJoin DEF Reads
  <2>9. next.end \in Nat /\ e + 1 < next.end /\ e \in Nat
    BY <1>0, <2>3, <2>7 DEF Reads, Phrase
  <2>10. Found(t, p, next.end, first.subs \o next.subs)
    BY <1>0, <2>2, <2>3, <2>7, <2>9, FoundJoin DEF Reads
  <2>12. Level(t, g, op, first) = [end |-> next.end, subs |-> first.subs \o next.subs]
    BY <2>11 DEF Operands
  <2> QED
    BY <2>8, <2>10, <2>12, ReadsIf DEF FailedOr
<1> QED
  BY <1>1, <1>2

LEMMA LevelsSound ==
    ASSUME NEW t \in Seq(Tokens), NEW g, NEW p \in 1..(Len(t) + 1), SoundAfter(t, g, p)
    PROVE  SoundAt(t, Levels(t, g, p), p)
<1> DEFINE ands == Level(t, g, "and", Base(t, g, p))
           ors == Level(t, g, "or", ands)
<1>1. FailedOr(t, p, ands)
  BY BaseSound, LevelSound
<1> HIDE DEF ands
<1>2. FailedOr(t, p, ors)
  BY <1>1, LevelSound
<1>3. Levels(t, g, p) = [and |-> ands, or |-> ors]
  BY DEF Levels, ands
<1> HIDE DEF ors
<1> QED
  BY <1>1, <1>2, <1>3 DEF SoundAt

------------------------------------------------------------------------------
(* Readings is a function that there is: what can be read from a place     *)
(* depends on later places only.                                           *)

Agree(t, g, h, p) == \A q \in (p + 1)..(Len(t) + 1) : g[q] = h[q]

LEMMA LevelAgrees ==
    ASSUME NEW t \in Seq(Tokens), NEW g, NEW h, NEW p \in 1..(Len(t) + 1), Agree(t, g, h, p),
           NEW op \in {"and", "or"}, NEW first, FailedOr(t, p, first)
    PROVE  Level(t, g, op, first) = Level(t, h, op, first)
<1>0. Len(t) \in Nat /\ DOMAIN t = 1..Len(t) /\ p \in Nat
  OBVIOUS
<1>1. CASE Is(t, first.end, op)
  <2>1. Reads(t, p, first)
    BY <1>1, NotAtFailed DEF FailedOr, Failed
  <2>2. first.end \in 1..Len(t) /\ p < first.end
    BY <1>0, <1>1, <2>1 DEF Reads, Phrase, Is
  <2>3. first.end + 1 \in (p + 1)..(Len(t) + 1)
    BY <1>0, <2>2
  <2>4. g[first.end + 1] = h[first.end + 1]
    BY <2>3 DEF Agree
  <2> QED
    BY <2>4 DEF Level
<1>2. CASE ~ Is(t, first.end, op)
  BY <1>2 DEF Level
<1> QED
  BY <1>1, <1>2

LEMMA LevelsAgree ==
    ASSUME NEW t \in Seq(Tokens), NEW g, NEW h, NEW p \in 1..(Len(t) + 1), Agree(t, g, h, p),
           SoundAfter(t, g, p)
    PROVE  Levels(t, g, p) = Levels(t, h, p)
<1> DEFINE base == Base(t, g, p)
           ands == Level(t, g, "and", base)
           ors == Level(t, g, "or", ands)
<1>1. base = Base(t, h, p)
  <2>0. Len(t) \in Nat /\ DOMAIN t = 1..Len(t) /\ p \in Nat
    OBVIOUS
  <2>1. CASE Is(t, p, "(")
    <3>1. p + 1 \in (p + 1)..(Len(t) + 1)
      BY <2>0, <2>1 DEF Is
    <3>2. g[p + 1] = h[p + 1]
      BY <3>1 DEF Agree
    <3> QED
      BY <3>2 DEF Base
  <2>2. CASE ~ Is(t, p, "(")
    BY <2>2 DEF Base
  <2> QED
    BY <2>1, <2>2
<1>2. FailedOr(t, p, base)
  BY BaseSound
<1>3. Levels(t, g, p) = [and |-> ands, or |-> ors]
  BY DEF Levels
<1>4. Levels(t, h, p) = [and |-> Level(t, h, "and", base),
                         or |-> Level(t, h, "or", Level(t, h, "and", base))]
  BY <1>1 DEF Levels
<1> HIDE DEF base
<1>5. FailedOr(t, p, ands) /\ ands = Level(t, h, "and", base)
  BY <1>2, LevelSound, LevelAgrees
<1> HIDE DEF ands
<1>6. ors = Level(t, h, "or", ands)
  BY <1>5, LevelAgrees
<1> QED
  BY <1>3, <1>4, <1>5, <1>6

LEMMA LeastPlace ==
    ASSUME NEW S \in SUBSET Nat, S # {}
    PROVE  \E n \in S : \A m \in S : n <= m
<1> DEFINE R == OpToRel(<, Nat)
<1>1. IsWellFoundedOn(R, Nat)
  BY NatLessThanWellFounded
<1>2. \A m, n \in Nat : m < n => <<m, n>> \in R
  BY DEF OpToRel
<1> HIDE DEF R
<1>3. PICK n \in S : \A m \in S : ~ (<<m, n>> \in R)
  BY <1>1, WFMin
<1>4. \A m \in S : ~ (m < n)
  BY <1>2, <1>3
<1> QED
  BY <1>4

LEMMA LastPlace ==
    ASSUME NEW n \in Nat, NEW S \in SUBSET (1..n), S # {}
    PROVE  \E m \in S : \A k \in S : k <= m
<1> DEFINE T == {n - m : m \in S}
<1>0. \A m \in S : m \in Nat /\ n - m \in Nat
  OBVIOUS
<1>1. T \in SUBSET Nat /\ T # {}
  BY <1>0
<1>2. PICK d \in T : \A c \in T : d <= c
  BY <1>1, LeastPlace
<1>3. PICK m \in S : d = n - m
  OBVIOUS
<1>4. \A k \in S : k <= m
  <2> SUFFICES ASSUME NEW k \in S PROVE k <= m
    OBVIOUS
  <2>1. n - m <= n - k
    BY <1>2, <1>3
  <2> QED
    BY <1>0, <2>1
<1> QED
  BY <1>4

\* A function that is right from place k on.
Right(t, g, k) ==
    \A q \in k..(Len(t) + 1) : g[q] = Levels(t, g, q) /\ SoundAt(t, g[q], q)

LEMMA RightFurther ==
    ASSUME NEW t \in Seq(Tokens), NEW g, NEW p \in 1..(Len(t) + 1), Right(t, g, p + 1)
    PROVE  \E h : Right(t, h, p)
<1> DEFINE h == [q \in 1..(Len(t) + 1) |-> IF q = p THEN Levels(t, g, p) ELSE g[q]]
<1>0. Len(t) \in Nat /\ p \in Nat
  OBVIOUS
<1>1. SoundAfter(t, g, p)
  BY DEF Right, SoundAfter
<1>2. h[p] = Levels(t, g, p) /\ \A q \in (p + 1)..(Len(t) + 1) : h[q] = g[q]
  BY <1>0
<1> HIDE DEF h
<1>3. \A q \in p..(Len(t) + 1) : Agree(t, g, h, q) /\ SoundAfter(t, g, q)
  BY <1>0, <1>1, <1>2 DEF Agree, SoundAfter
<1>4. \A q \in p..(Len(t) + 1) : Levels(t, g, q) = Levels(t, h, q)
  BY <1>0, <1>3, LevelsAgree
<1>5. SoundAt(t, Levels(t, g, p), p)
  BY <1>1, LevelsSound
<1>6. \A q \in p..(Len(t) + 1) : h[q] = Levels(t, h, q) /\ SoundAt(t, h[q], q)
  <2> SUFFICES ASSUME NEW q \in p..(Len(t) + 1)
               PROVE  h[q] = Levels(t, h, q) /\ SoundAt(t, h[q], q)
    OBVIOUS
  <2>1. CASE q = p
    BY <1>0, <1>2, <1>4, <1>5, <2>1
  <2>2. CASE q \in (p + 1)..(Len(t) + 1)
    <3>1. g[q] = Levels(t, g, q) /\ SoundAt(t, g[q], q)
      BY <2>2 DEF Right
    <3> QED
      BY <1>2, <1>4, <2>2, <3>1
  <2> QED
    BY <1>0, <2>1, <2>2
<1> QED
  BY <1>6 DEF Right

LEMMA ReadingsAre ==
    ASSUME NEW t \in Seq(Tokens)
    PROVE  Readings(t) = [p \in 1..(Len(t) + 1) |-> Levels(t, Readings(t), p)]
<1> DEFINE n == Len(t) + 1
           Ks == {k \in 1..(n + 1) : \E g : Right(t, g, k)}
           Fits(g) == g = [p \in 1..n |-> Levels(t, g, p)]
<1>0. Len(t) \in Nat /\ n \in Nat
  OBVIOUS
<1>1. n + 1 \in Ks
  BY <1>0 DEF Right
<1>2. PICK k \in Ks : \A m \in Ks : k <= m
  <2>1. Ks \in SUBSET Nat
    BY <1>0
  <2> HIDE DEF Ks
  <2> QED
    BY <1>1, <2>1, LeastPlace
<1>3. PICK g : Right(t, g, k)
  OBVIOUS
<1>4. k = 1
  <2> SUFFICES ASSUME k # 1 PROVE FALSE
    OBVIOUS
  <2>1. k - 1 \in 1..n /\ (k - 1) + 1 = k
    BY <1>0
  <2>2. \E h : Right(t, h, k - 1)
    BY <1>3, <2>1, RightFurther
  <2>3. k - 1 \in Ks
    BY <1>0, <2>1, <2>2
  <2> QED
    BY <1>0, <1>2, <2>3
<1> DEFINE f == [p \in 1..n |-> g[p]]
<1>5. \A p \in 1..n : g[p] = Levels(t, g, p) /\ SoundAt(t, g[p], p)
  BY <1>3, <1>4 DEF Right
<1>6. \A p \in 1..n : Agree(t, g, f, p) /\ SoundAfter(t, g, p)
  BY <1>0, <1>5 DEF Agree, SoundAfter
<1>7. \A p \in 1..n : Levels(t, g, p) = Levels(t, f, p)
  BY <1>6, LevelsAgree
<1>8. Fits(f)
  BY <1>5, <1>7
<1> HIDE DEF f
<1>9. \E h : Fits(h)
  BY <1>8
<1>10. Readings(t) = CHOOSE h : Fits(h)
  BY DEF Readings
<1> HIDE DEF Fits
<1>11. Fits(Readings(t))
  BY <1>9, <1>10
<1> QED
  BY <1>11 DEF Fits

LEMMA ReadingAt ==
    ASSUME NEW t \in Seq(Tokens), NEW p \in 1..(Len(t) + 1)
    PROVE  Readings(t)[p] = Levels(t, Readings(t), p)
<1> DEFINE g == Readings(t)
<1>1. g = [q \in 1..(Len(t) + 1) |-> Levels(t, g, q)]
  BY ReadingsAre
<1> HIDE DEF g
<1>2. g[p] = Levels(t, g, p)
  BY <1>1
<1> QED
  BY <1>2 DEF g

------------------------------------------------------------------------------
(* What the parser reads is a well-formed text, and a well-formed text is  *)
(* read to its end.                                                        *)

LEMMA ReadingsSound ==
    ASSUME NEW t \in Seq(Tokens), NEW p \in 1..(Len(t) + 1)
    PROVE  SoundAt(t, Readings(t)[p], p)
<1> DEFINE n == Len(t) + 1
           g == Readings(t)
           Bad == {q \in 1..n : ~ SoundAt(t, g[q], q)}
<1>0. n \in Nat
  OBVIOUS
<1> SUFFICES ASSUME Bad # {} PROVE FALSE
  OBVIOUS
<1>1. PICK m \in Bad : \A k \in Bad : k <= m
  BY <1>0, LastPlace
<1>2. SoundAfter(t, g, m)
  BY <1>0, <1>1 DEF SoundAfter
<1>3. SoundAt(t, Levels(t, g, m), m)
  BY <1>2, LevelsSound
<1>4. g[m] = Levels(t, g, m)
  BY ReadingAt
<1> QED
  BY <1>3, <1>4

LEMMA WellFormedIs ==
    ASSUME NEW t \in Seq(Tokens)
    PROVE  WellFormed(t) <=> Phrase(t, 1, Len(t) + 1)
<1>0. Len(t) \in Nat /\ DOMAIN t = 1..Len(t) /\ (t # <<>> <=> Len(t) > 0)
  OBVIOUS
<1>1. Depth(t, 1 - 1) = 0 /\ \A n \in Nat : Depth(t, n) \in Int
  BY DepthOfNothing, DepthIsInt
<1>2. (Len(t) + 1) - 1 = Len(t) /\ (Len(t) + 1) - 2 = Len(t) - 1
  BY <1>0
<1>3. ASSUME WellFormed(t) PROVE Phrase(t, 1, Len(t) + 1)
  <2>1. 1 \in 1..Len(t) /\ Len(t) + 1 \in (1 + 1)..(Len(t) + 1)
    BY <1>0, <1>3 DEF WellFormed
  <2>2. \A n \in 1..Len(t) : Depth(t, n) >= 0
    BY <1>0, <1>3 DEF WellFormed
  <2> QED
    BY <1>1, <1>2, <1>3, <2>1, <2>2 DEF WellFormed, Phrase, Follows
<1>4. ASSUME Phrase(t, 1, Len(t) + 1) PROVE WellFormed(t)
  <2>1. Len(t) > 0
    BY <1>0, <1>4 DEF Phrase
  <2>2. \A n \in DOMAIN t : Depth(t, n) \in Nat
    BY <1>0, <1>1, <1>2, <1>4 DEF Phrase
  <2> QED
    BY <1>0, <1>1, <1>2, <1>4, <2>1, <2>2 DEF WellFormed, Phrase, Follows
<1> QED
  BY <1>3, <1>4

LEMMA ParsedSound ==
    ASSUME NEW t \in Seq(Tokens), Parsed(t) # Failed
    PROVE  WellFormed(t) /\ Reads(t, 1, Parsed(t))
<1>1. Len(t) \in Nat /\ 1 \in 1..(Len(t) + 1)
  OBVIOUS
<1>2. FailedOr(t, 1, Readings(t)[1].or)
  BY <1>1, ReadingsSound DEF SoundAt
<1>3. Parsed(t) = Readings(t)[1].or /\ Parsed(t).end = Len(t) + 1
  BY DEF Parsed
<1>4. Reads(t, 1, Parsed(t)) /\ Phrase(t, 1, Len(t) + 1)
  BY <1>2, <1>3 DEF FailedOr, Reads
<1> QED
  BY <1>4, WellFormedIs

\* In a well-formed text every level gets from where it may begin to where it has to
\* stop.
MayBegin(t, p) == p \in DOMAIN t /\ t[p].kind \in Begins
AndsEnd(t, r) == r # Failed /\ ~ Is(t, r.end, "and")
OrsEnd(t, r) == r # Failed /\ (r.end = Len(t) + 1 \/ Is(t, r.end, ")"))
CompleteAt(t, v) == AndsEnd(t, v.and) /\ OrsEnd(t, v.or)
CompleteAfter(t, g, p) ==
    \A q \in (p + 1)..(Len(t) + 1) : MayBegin(t, q) => CompleteAt(t, g[q])

\* Behind a phrase there is an operator and another phrase, or a parenthesis, or nothing.
LEMMA BehindPhrase ==
    ASSUME NEW t \in Seq(Tokens), WellFormed(t), NEW p, NEW e, Phrase(t, p, e)
    PROVE  /\ e = Len(t) + 1 \/ Is(t, e, "and") \/ Is(t, e, "or") \/ Is(t, e, ")")
           /\ Is(t, e, "and") \/ Is(t, e, "or") => MayBegin(t, e + 1)
<1>0. Len(t) \in Nat /\ DOMAIN t = 1..Len(t)
  OBVIOUS
<1>1. p \in 1..Len(t) /\ e \in (p + 1)..(Len(t) + 1) /\ t[e - 1].kind \in Ends
  BY DEF Phrase
<1>2. CASE e = Len(t) + 1
  BY <1>0, <1>2 DEF Is
<1>3. CASE e \in 1..Len(t)
  <2>1. e - 1 \in 1..(Len(t) - 1) /\ (e - 1) + 1 = e
    BY <1>0, <1>1, <1>3
  <2>2. t[e].kind \in {"and", "or", ")"}
    BY <1>1, <2>1 DEF WellFormed
  <2>3. ASSUME t[e].kind \in {"and", "or"} PROVE MayBegin(t, e + 1)
    <3>1. t[e].kind \notin Ends /\ t[Len(t)].kind \in Ends
      BY <2>3 DEF Ends, WellFormed
    <3>2. e \in 1..(Len(t) - 1)
      BY <1>0, <1>3, <3>1
    <3>3. t[e + 1].kind \in Begins
      BY <3>1, <3>2 DEF WellFormed
    <3> QED
      BY <1>0, <3>2, <3>3 DEF MayBegin
  <2> QED
    BY <1>0, <1>3, <2>2, <2>3 DEF Is
<1> QED
  BY <1>0, <1>1, <1>2, <1>3

LEMMA BaseComplete ==
    ASSUME NEW t \in Seq(Tokens), WellFormed(t), NEW g, NEW p, MayBegin(t, p),
           SoundAfter(t, g, p), CompleteAfter(t, g, p)
    PROVE  Base(t, g, p) # Failed
<1>0. Len(t) \in Nat /\ DOMAIN t = 1..Len(t) /\ p \in 1..Len(t) /\ p \in Nat /\ p \in DOMAIN t
  BY DEF MayBegin
<1>1. CASE t[p].kind = "sub"
  <2>1. Base(t, g, p) = [end |-> p + 1, subs |-> <<p>>]
    BY <1>0, <1>1 DEF Base, Is
  <2>2. Base(t, g, p).end = p + 1
    BY <2>1
  <2> QED
    BY <1>0, <2>2 DEF Failed
<1>2. CASE t[p].kind = "("
  <2> DEFINE inner == g[p + 1].or
  <2>1. p \in 1..(Len(t) - 1)
    <3>1. t[Len(t)].kind \in Ends /\ t[p].kind \notin Ends
      BY <1>2 DEF WellFormed, Ends
    <3> QED
      BY <1>0, <3>1
  <2>2. t[p + 1].kind \in Begins
    BY <1>2, <2>1 DEF WellFormed, Ends
  <2>3. MayBegin(t, p + 1) /\ p + 1 \in (p + 1)..(Len(t) + 1)
    BY <1>0, <2>1, <2>2 DEF MayBegin
  <2>4. inner # Failed /\ (inner.end = Len(t) + 1 \/ Is(t, inner.end, ")"))
    BY <2>3 DEF CompleteAfter, CompleteAt, OrsEnd
  <2>5. Reads(t, p + 1, inner)
    BY <2>3, <2>4 DEF SoundAfter, SoundAt, FailedOr
  <2>6. inner = [end |-> inner.end, subs |-> inner.subs] /\ Phrase(t, p + 1, inner.end)
    BY <2>5 DEF Reads
  <2>7. inner.end # Len(t) + 1
    <3> SUFFICES ASSUME inner.end = Len(t) + 1 PROVE FALSE
      OBVIOUS
    <3>1. Depth(t, (Len(t) + 1) - 1) = Depth(t, (p + 1) - 1)
      BY <2>6 DEF Phrase
    <3>2. (Len(t) + 1) - 1 = Len(t) /\ (p + 1) - 1 = p /\ p \in Nat \ {0}
      BY <1>0
    <3>3. Depth(t, p) = Depth(t, p - 1) + 1
      BY <1>2, <3>2, DepthStep
    <3>4. Depth(t, p - 1) \in Nat
      <4>1. CASE p = 1
        BY <4>1, DepthOfNothing
      <4>2. CASE p # 1
        <5>1. p - 1 \in DOMAIN t
          BY <1>0, <4>2
        <5> QED
          BY <5>1 DEF WellFormed
      <4> QED
        BY <4>1, <4>2
    <3>5. Depth(t, Len(t)) = 0
      BY DEF WellFormed
    <3> QED
      BY <3>1, <3>2, <3>3, <3>4, <3>5
  <2>8. Is(t, inner.end, ")") /\ inner.end \in Nat
    BY <1>0, <2>4, <2>7 DEF Is
  <2>9. Base(t, g, p) = [inner EXCEPT !.end = @ + 1]
    BY <1>0, <1>2, <2>8 DEF Base, Is
  <2> HIDE DEF inner
  <2>10. Base(t, g, p).end = inner.end + 1
    BY <2>6, <2>9
  <2> QED
    BY <2>8, <2>10 DEF Failed
<1> QED
  BY <1>1, <1>2 DEF MayBegin, Begins

LEMMA ReadsEnd ==
    ASSUME NEW t \in Seq(Tokens), NEW p, NEW r, Reads(t, p, r)
    PROVE  r.end \in Nat /\ r.end # 0 /\ p < r.end
<1>1. Len(t) \in Nat
  OBVIOUS
<1>2. p \in 1..Len(t) /\ r.end \in (p + 1)..(Len(t) + 1)
  BY DEF Reads, Phrase
<1> QED
  BY <1>1, <1>2

LEMMA AndsComplete ==
    ASSUME NEW t \in Seq(Tokens), WellFormed(t), NEW g, NEW p \in 1..Len(t),
           SoundAfter(t, g, p), CompleteAfter(t, g, p), NEW first, Reads(t, p, first)
    PROVE  AndsEnd(t, Level(t, g, "and", first))
<1>0. Len(t) \in Nat /\ DOMAIN t = 1..Len(t)
  OBVIOUS
<1> DEFINE e == first.end
           next == g[e + 1].and
<1>1. Phrase(t, p, e) /\ e \in Nat /\ e # 0 /\ p < e
  BY ReadsEnd DEF Reads
<1>2. CASE Is(t, e, "and")
  <2>1. MayBegin(t, e + 1) /\ e + 1 \in (p + 1)..(Len(t) + 1)
    BY <1>0, <1>1, <1>2, BehindPhrase DEF MayBegin
  <2>2. next # Failed /\ ~ Is(t, next.end, "and")
    BY <2>1 DEF CompleteAfter, CompleteAt, AndsEnd
  <2>3. Reads(t, e + 1, next)
    BY <2>1, <2>2 DEF SoundAfter, SoundAt, FailedOr
  <2>4. next.end \in Nat /\ next.end # 0
    BY <2>3, ReadsEnd
  <2>5. Level(t, g, "and", first) = Operands(first, next)
    BY <1>2, <2>2 DEF Level
  <2> HIDE DEF next
  <2>6. Operands(first, next).end = next.end
    BY DEF Operands
  <2> QED
    BY <2>2, <2>4, <2>5, <2>6 DEF AndsEnd, Failed
<1>3. CASE ~ Is(t, e, "and")
  <2>1. Level(t, g, "and", first) = first
    BY <1>3 DEF Level
  <2> QED
    BY <1>1, <1>3, <2>1 DEF AndsEnd, Failed
<1> QED
  BY <1>2, <1>3

LEMMA OrsComplete ==
    ASSUME NEW t \in Seq(Tokens), WellFormed(t), NEW g, NEW p \in 1..Len(t),
           SoundAfter(t, g, p), CompleteAfter(t, g, p), NEW ands, Reads(t, p, ands), AndsEnd(t, ands)
    PROVE  OrsEnd(t, Level(t, g, "or", ands))
<1>0. Len(t) \in Nat /\ DOMAIN t = 1..Len(t)
  OBVIOUS
<1> DEFINE e == ands.end
           next == g[e + 1].or
<1>1. Phrase(t, p, e) /\ e \in Nat /\ e # 0 /\ p < e
  BY ReadsEnd DEF Reads
<1>2. CASE Is(t, e, "or")
  <2>1. MayBegin(t, e + 1) /\ e + 1 \in (p + 1)..(Len(t) + 1)
    BY <1>0, <1>1, <1>2, BehindPhrase DEF MayBegin
  <2>2. next # Failed /\ (next.end = Len(t) + 1 \/ Is(t, next.end, ")"))
    BY <2>1 DEF CompleteAfter, CompleteAt, OrsEnd
  <2>3. Reads(t, e + 1, next)
    BY <2>1, <2>2 DEF SoundAfter, SoundAt, FailedOr
  <2>4. next.end \in Nat /\ next.end # 0
    BY <2>3, ReadsEnd
  <2>5. Level(t, g, "or", ands) = Operands(ands, next)
    BY <1>2, <2>2 DEF Level
  <2> HIDE DEF next
  <2>6. Operands(ands, next).end = next.end
    BY DEF Operands
  <2> QED
    BY <2>2, <2>4, <2>5, <2>6 DEF OrsEnd, Failed
<1>3. CASE ~ Is(t, e, "or")
  <2>1. Level(t, g, "or", ands) = ands
    BY <1>3 DEF Level
  <2>2. e = Len(t) + 1 \/ Is(t, e, ")")
    BY <1>1, <1>3, BehindPhrase DEF AndsEnd
  <2> QED
    BY <2>1, <2>2 DEF OrsEnd, AndsEnd
<1> QED
  BY <1>2, <1>3

LEMMA LevelsComplete ==
    ASSUME NEW t \in Seq(Tokens), WellFormed(t), NEW g, NEW p, MayBegin(t, p),
           SoundAfter(t, g, p), CompleteAfter(t, g, p)
    PROVE  CompleteAt(t, Levels(t, g, p))
<1> DEFINE base == Base(t, g, p)
           ands == Level(t, g, "and", base)
           ors == Level(t, g, "or", ands)
<1>0. Len(t) \in Nat /\ p \in 1..Len(t) /\ p \in 1..(Len(t) + 1)
  BY DEF MayBegin
<1>1. Reads(t, p, base)
  BY <1>0, BaseComplete, BaseSound DEF FailedOr
<1> HIDE DEF base
<1>2. AndsEnd(t, ands) /\ FailedOr(t, p, ands)
  BY <1>0, <1>1, AndsComplete, LevelSound DEF FailedOr
<1>3. Levels(t, g, p) = [and |-> ands, or |-> ors]
  BY DEF Levels, base
<1> HIDE DEF ands
<1>4. Reads(t, p, ands)
  BY <1>2 DEF FailedOr, AndsEnd
<1>5. OrsEnd(t, ors)
  BY <1>0, <1>2, <1>4, OrsComplete
<1> HIDE DEF ors
<1> QED
  BY <1>2, <1>3, <1>5 DEF CompleteAt

LEMMA ReadingsComplete ==
    ASSUME NEW t \in Seq(Tokens), WellFormed(t), NEW p, MayBegin(t, p)
    PROVE  CompleteAt(t, Readings(t)[p])
<1> DEFINE g == Readings(t)
           Bad == {q \in 1..Len(t) : MayBegin(t, q) /\ ~ CompleteAt(t, g[q])}
<1>0. Len(t) \in Nat /\ p \in 1..Len(t)
  BY DEF MayBegin
<1> SUFFICES ASSUME Bad # {} PROVE FALSE
  BY <1>0
<1>1. PICK m \in Bad : \A k \in Bad : k <= m
  BY <1>0, LastPlace
<1>2. m \in 1..(Len(t) + 1) /\ m \in Nat
  BY <1>0
<1>3. SoundAfter(t, g, m)
  <2> SUFFICES ASSUME NEW q \in (m + 1)..(Len(t) + 1) PROVE SoundAt(t, g[q], q)
    BY DEF SoundAfter
  <2>1. q \in 1..(Len(t) + 1)
    BY <1>0, <1>2
  <2> QED
    BY <2>1, ReadingsSound
<1>4. CompleteAfter(t, g, m)
  <2> SUFFICES ASSUME NEW q \in (m + 1)..(Len(t) + 1), MayBegin(t, q) PROVE CompleteAt(t, g[q])
    BY DEF CompleteAfter
  <2>1. q \in 1..Len(t) /\ ~ (q <= m)
    BY <1>0, <1>2 DEF MayBegin
  <2> QED
    BY <1>1, <2>1
<1>5. CompleteAt(t, Levels(t, g, m))
  BY <1>3, <1>4, LevelsComplete
<1>6. g[m] = Levels(t, g, m)
  BY <1>2, ReadingAt
<1> QED
  BY <1>5, <1>6

LEMMA ParsedComplete ==
    ASSUME NEW t \in Seq(Tokens), WellFormed(t)
    PROVE  Parsed(t) # Failed
<1> DEFINE all == Readings(t)[1].or
<1>0. Len(t) \in Nat /\ DOMAIN t = 1..Len(t) /\ 1 \in 1..(Len(t) + 1) /\ (t # <<>> => Len(t) > 0)
  OBVIOUS
<1>1. MayBegin(t, 1)
  BY <1>0 DEF WellFormed, MayBegin
<1>2. all # Failed /\ (all.end = Len(t) + 1 \/ Is(t, all.end, ")"))
  BY <1>1, ReadingsComplete DEF CompleteAt, OrsEnd
<1>3. Reads(t, 1, all)
  BY <1>0, <1>2, ReadingsSound DEF SoundAt, FailedOr
<1> HIDE DEF all
<1>4. ~ Is(t, all.end, ")")
  <2> SUFFICES ASSUME Is(t, all.end, ")") PROVE FALSE
    OBVIOUS
  <2> DEFINE e == all.end
  <2>1. e \in DOMAIN t /\ t[e].kind = ")" /\ e \in Nat \ {0} /\ Depth(t, e - 1) = Depth(t, 1 - 1)
    BY <1>0, <1>3 DEF Reads, Phrase, Is
  <2>2. Depth(t, e) = Depth(t, e - 1) - 1 /\ Depth(t, e - 1) = 0
    BY <2>1, DepthStep, DepthOfNothing
  <2>3. Depth(t, e) \in Nat
    BY <2>1 DEF WellFormed
  <2> QED
    BY <2>2, <2>3
<1>5. Parsed(t) = all
  BY <1>2, <1>4 DEF Parsed, all
<1> QED
  BY <1>2, <1>5

\* The parser takes the well-formed texts and no others, and finds every sub-expression
\* of such a text once, in its order, however long the text and however deep its
\* parentheses are (alarm_expr_parser.py: AlarmExprParser.sub_expr_list).
THEOREM ParserIsTheGrammar ==
    ASSUME NEW t \in Seq(Tokens)
    PROVE  /\ Parsed(t) # Failed <=> WellFormed(t)
           /\ Parsed(t) # Failed =>
                /\ ToSet(Parsed(t).subs) = {p \in DOMAIN t : t[p].kind = "sub"}
                /\ \A i, j \in DOMAIN Parsed(t).subs : i < j => Parsed(t).subs[i] < Parsed(t).subs[j]
<1>1. Parsed(t) # Failed <=> WellFormed(t)
  BY ParsedSound, ParsedComplete
<1>2. ASSUME Parsed(t) # Failed
      PROVE  /\ ToSet(Parsed(t).subs) = {p \in DOMAIN t : t[p].kind = "sub"}
             /\ Increasing(Parsed(t).subs)
  <2> DEFINE subs == Parsed(t).subs
  <2>0. Len(t) \in Nat /\ DOMAIN t = 1..Len(t)
    OBVIOUS
  <2>1. Parsed(t).end = Len(t) + 1
    BY <1>2 DEF Parsed
  <2>2. Found(t, 1, Len(t) + 1, subs)
    BY <1>2, <2>1, ParsedSound DEF Reads
  <2>3. (Len(t) + 1) - 1 = Len(t)
    BY <2>0
  <2>4. ToSet(subs) \subseteq {p \in DOMAIN t : t[p].kind = "sub"}
    BY <2>0, <2>2, <2>3 DEF Found, ToSet
  <2>5. {p \in DOMAIN t : t[p].kind = "sub"} \subseteq ToSet(subs)
    BY <2>0, <2>2, <2>3 DEF Found, ToSet
  <2> QED
    BY <2>2, <2>4, <2>5 DEF Found
<1> QED
  BY <1>1, <1>2 DEF Increasing

------------------------------------------------------------------------------
(* Definitions, rows and texts of sub-expressions.                         *)

\* Every name of a dimension has one value.
DimsOK(D) == IsFiniteSet(D) /\ \A d, e \in D : d[1] = e[1] => d = e
KeyOK(k) ==
    /\ k = [func |-> k.func, metric |-> k.metric, dims |-> k.dims, period |-> k.period,
            periods |-> k.periods]
    /\ DimsOK(k.dims) /\ k.period \in Numbers /\ k.periods \in Numbers
TestOK(x) == x \in [op : {"LT", "GT"}, value : Nat]
DefOK(e) == e = [key |-> e.key, test |-> e.test] /\ KeyOK(e.key) /\ TestOK(e.test)

IsLast(pairs, j) == \A k \in DOMAIN pairs : k > j => pairs[k][1] # pairs[j][1]

LEMMA DictionaryIs ==
    ASSUME NEW pairs
    PROVE  /\ \A d \in Dictionary(pairs) : \E i \in DOMAIN pairs : IsLast(pairs, i) /\ d = pairs[i]
           /\ \A i \in DOMAIN pairs : IsLast(pairs, i) => pairs[i] \in Dictionary(pairs)
  BY DEF Dictionary, IsLast

LEMMA DictionaryOK ==
    ASSUME NEW T, NEW pairs \in Seq(T)
    PROVE  DimsOK(Dictionary(pairs))
<1> DEFINE D == Dictionary(pairs)
           n == Len(pairs)
           J == {i \in 1..n : IsLast(pairs, i)}
           f == [i \in J |-> pairs[i]]
<1>0. n \in Nat /\ DOMAIN pairs = 1..n
  OBVIOUS
<1>1. \A d \in D : \E i \in J : d = pairs[i]
  BY <1>0, DictionaryIs
<1>2. \A i \in J : pairs[i] \in D
  BY <1>0, DictionaryIs
<1>3. IsFiniteSet(1..n)
  <2>1. 1 \in Int /\ n \in Int
    BY <1>0
  <2> QED
    BY <2>1, FS_Interval
<1>4. IsFiniteSet(J)
  BY <1>3, FS_Subset
<1>5. \A i, j \in J : pairs[i][1] = pairs[j][1] => i = j
  BY <1>0 DEF IsLast
<1> HIDE DEF D, J
<1>6. f \in Surjection(J, D)
  BY <1>1, <1>2 DEF Surjection
<1>7. IsFiniteSet(D)
  BY <1>4, <1>6, FS_Surjection
<1>8. \A d, e \in D : d[1] = e[1] => d = e
  BY <1>1, <1>5
<1>9. DimsOK(D)
  BY <1>7, <1>8 DEF DimsOK
<1> QED
  BY <1>9 DEF D

LEMMA DictionaryOfAll ==
    ASSUME NEW D, DimsOK(D)
    PROVE  Dictionary(SetToSeq(D)) = D
<1> DEFINE n == Cardinality(D)
           f == SetToSeq(D)
<1>1. IsFiniteSet(D) /\ n \in Nat /\ ExistsBijection(1..n, D)
  BY FS_CardinalityType DEF DimsOK
<1>2. PICK g : g \in Bijection(1..n, D)
  BY <1>1 DEF ExistsBijection
<1>3. g \in [1..n -> D] /\ IsInjective(g)
  BY <1>2 DEF Bijection, Injection
<1>4. f \in [1..n -> D] /\ IsInjective(f)
  BY <1>3 DEF SetToSeq
<1>5. f \in Injection(1..n, D)
  BY <1>4 DEF Injection
<1>6. Cardinality(1..n) = n
  <2>1. 1 \in Int /\ n \in Int
    BY <1>1
  <2>2. Cardinality(1..n) = IF 1 > n THEN 0 ELSE n - 1 + 1
    BY <2>1, FS_Interval
  <2> QED
    BY <1>1, <2>2
<1>7. f \in Surjection(1..n, D)
  BY <1>1, <1>5, <1>6, FS_Injection
<1>8. DOMAIN f = 1..n /\ \A i \in 1..n : f[i] \in D
  BY <1>4
<1>9. \A d \in D : \E i \in 1..n : f[i] = d
  BY <1>7 DEF Surjection
<1> HIDE DEF f, n
<1>10. \A i \in 1..n : IsLast(f, i)
  <2> SUFFICES ASSUME NEW i \in 1..n, NEW k \in 1..n, k > i PROVE f[k][1] # f[i][1]
    BY <1>8 DEF IsLast
  <2>1. f[k] # f[i]
    BY <1>1, <1>4, <1>8 DEF IsInjective
  <2> QED
    BY <1>8, <2>1 DEF DimsOK
<1>11. Dictionary(f) \subseteq D
  BY <1>8, DictionaryIs
<1>12. D \subseteq Dictionary(f)
  BY <1>8, <1>9, <1>10, DictionaryIs
<1> QED
  BY <1>11, <1>12 DEF f

LEMMA RoundedIs ==
    ASSUME NEW v \in Nat
    PROVE  Rounded(v) \in Nat /\ Rounded(Rounded(v)) = Rounded(v)
<1> DEFINE q == v \div Digits
           w == v - (v % Digits)
<1>0. Digits \in Nat \ {0} /\ Small \in Nat
  BY NumbersAssumption
<1>1. CASE v < Small
  BY <1>1 DEF Rounded
<1>2. CASE ~ (v < Small)
  <2>1. Rounded(v) = w
    BY <1>2 DEF Rounded
  <2>2. v % Digits \in 0..(Digits - 1) /\ q \in Nat /\ v = Digits * q + (v % Digits)
    BY <1>0
  <2>3. w = Digits * q /\ w \in Nat
    BY <1>0, <2>2
  <2>4. w % Digits = 0
    <3> DEFINE r == w % Digits
               p == w \div Digits
    <3>1. r \in 0..(Digits - 1) /\ p \in Int /\ w = Digits * p + r
      BY <1>0, <2>3
    <3>2. \A z \in Int : (z >= 1 => Digits * z >= Digits) /\ (z <= -1 => Digits * z <= -Digits)
      BY <1>0
    <3> HIDE DEF r, p
    <3>3. PICK z \in Int : z = q - p
      BY <2>2, <3>1
    <3>4. Digits * z = r
      <4>1. Digits * z = Digits * q - Digits * p
        BY <1>0, <2>2, <3>1, <3>3
      <4>2. Digits * q = Digits * p + r
        BY <2>3, <3>1
      <4>3. Digits * p \in Int /\ Digits * q \in Int
        BY <1>0, <2>2, <3>1
      <4> QED
        BY <3>1, <4>1, <4>2, <4>3
    <3>5. z = 0
      BY <1>0, <3>1, <3>2, <3>4
    <3> QED
      BY <1>0, <3>4, <3>5 DEF r
  <2>5. Rounded(w) = w
    BY <2>3, <2>4 DEF Rounded
  <2> QED
    BY <2>1, <2>3, <2>5
<1> QED
  BY <1>0, <1>1, <1>2

LEMMA NumberIs ==
    ASSUME NEW n \in Numbers
    PROVE  n = [n |-> n.n, zeros |-> n.zeros] /\ n.n \in Nat /\ n.zeros \in Nat
  BY DEF Numbers

LEMMA GivenOK ==
    ASSUME NEW number \in Seq(Numbers), NEW default \in Nat
    PROVE  Given(number, default) \in Numbers
<1>1. number # <<>> => number[1] \in Numbers
  OBVIOUS
<1>2. [n |-> default, zeros |-> 0] \in Numbers
  BY DEF Numbers
<1> QED
  BY <1>1, <1>2 DEF Given

LEMMA DefinitionOK ==
    ASSUME NEW sub \in Subs
    PROVE  DefOK(Definition(sub))
<1> DEFINE period == Given(sub.period, 60)
           periods == Given(sub.periods, 1)
           dims == Dictionary(sub.dims)
<1>1. /\ sub.dims \in Seq(STRING \X STRING) /\ sub.period \in Seq(Numbers)
      /\ sub.periods \in Seq(Numbers) /\ sub.threshold.value \in Nat
  BY DEF Subs
<1>2. period \in Numbers /\ periods \in Numbers
  BY <1>1, GivenOK
<1>3. DimsOK(dims)
  BY <1>1, DictionaryOK
<1>4. Normalized(sub.op) \in {"LT", "GT"}
  BY DEF Normalized
<1>5. Definition(sub) = [key |-> [func |-> sub.func, metric |-> sub.metric, dims |-> dims,
                                  period |-> period, periods |-> periods],
                         test |-> [op |-> Normalized(sub.op), value |-> sub.threshold.value]]
  BY DEF Definition
<1> HIDE DEF period, periods, dims
<1> QED
  BY <1>1, <1>2, <1>3, <1>4, <1>5 DEF DefOK, KeyOK, TestOK

InColumns(k) == k.period.zeros = 0 /\ k.periods.zeros = 0

LEMMA ColumnIs ==
    ASSUME NEW k, KeyOK(k)
    PROVE  /\ KeyOK(Column(k)) /\ InColumns(Column(k))
           /\ InColumns(k) => Column(k) = k
           /\ Column(k) = [func |-> k.func, metric |-> k.metric, dims |-> k.dims,
                           period |-> [n |-> k.period.n, zeros |-> 0],
                           periods |-> [n |-> k.periods.n, zeros |-> 0]]
<1> DEFINE p == [n |-> k.period.n, zeros |-> 0]
           q == [n |-> k.periods.n, zeros |-> 0]
<1>1. /\ k.period = [n |-> k.period.n, zeros |-> k.period.zeros] /\ k.period.n \in Nat
      /\ k.periods = [n |-> k.periods.n, zeros |-> k.periods.zeros] /\ k.periods.n \in Nat
  BY NumberIs DEF KeyOK
<1>2. [k.period EXCEPT !.zeros = 0] = p /\ [k.periods EXCEPT !.zeros = 0] = q
  BY <1>1
<1> HIDE DEF p, q
<1>3. k = [func |-> k.func, metric |-> k.metric, dims |-> k.dims, period |-> k.period,
           periods |-> k.periods] /\ DimsOK(k.dims)
  BY DEF KeyOK
<1>4. [k EXCEPT !.period = p, !.periods = q]
        = [func |-> k.func, metric |-> k.metric, dims |-> k.dims, period |-> p, periods |-> q]
  <2>1. PICK a, b, c, d, e : k = [func |-> a, metric |-> b, dims |-> c, period |-> d, periods |-> e]
    BY <1>3
  <2>2. [k EXCEPT !.period = p, !.periods = q]
          = [func |-> a, metric |-> b, dims |-> c, period |-> p, periods |-> q]
    <3>1. [k EXCEPT !.period = p]
            = [func |-> a, metric |-> b, dims |-> c, period |-> p, periods |-> e]
      BY <2>1
    <3>2. PICK m : m = [k EXCEPT !.period = p]
      OBVIOUS
    <3>4. m = [func |-> a, metric |-> b, dims |-> c, period |-> p, periods |-> e]
      BY <3>1, <3>2
    <3>5. [m EXCEPT !.periods = q]
            = [func |-> a, metric |-> b, dims |-> c, period |-> p, periods |-> q]
      BY <3>4
    <3>3. [k EXCEPT !.period = p, !.periods = q] = [[k EXCEPT !.period = p] EXCEPT !.periods = q]
      OBVIOUS
    <3> QED
      BY <3>2, <3>3, <3>5
  <2>3. k.func = a /\ k.metric = b /\ k.dims = c
    BY <2>1
  <2> QED
    BY <2>2, <2>3
<1>5. Column(k) = [k EXCEPT !.period = p, !.periods = q]
  <2>1. Column(k) = [k EXCEPT !.period = [k.period EXCEPT !.zeros = 0],
                              !.periods = [k.periods EXCEPT !.zeros = 0]]
    BY <1>3 DEF Column
  <2> QED
    BY <1>2, <2>1
<1>6. p \in Numbers /\ q \in Numbers /\ p.zeros = 0 /\ q.zeros = 0
  BY <1>1 DEF Numbers, p, q
<1>7. Column(k) = [func |-> k.func, metric |-> k.metric, dims |-> k.dims, period |-> p, periods |-> q]
  BY <1>4, <1>5
<1>8. KeyOK(Column(k)) /\ InColumns(Column(k))
  BY <1>3, <1>6, <1>7 DEF KeyOK, InColumns
<1>9. ASSUME InColumns(k) PROVE Column(k) = k
  <2>1. k.period = p /\ k.periods = q
    BY <1>1, <1>9 DEF InColumns, p, q
  <2> QED
    BY <1>3, <1>7, <2>1
<1> QED
  BY <1>7, <1>8, <1>9 DEF p, q

LEMMA FormattedIs ==
    ASSUME NEW def, KeyOK(def.key), TestOK(def.test), NEW x
    PROVE  /\ Definition(Formatted(def, x)) = [key |-> def.key, test |-> def.test]
           /\ Formatted(def, x).threshold.exponent = x
<1> DEFINE k == def.key
           t == def.test
           s == SetToSeq(k.dims)
           u == Formatted(def, x)
<1>1. u = [func |-> k.func, metric |-> k.metric, dims |-> s, period |-> <<k.period>>, op |-> t.op,
           threshold |-> [value |-> t.value, exponent |-> x], periods |-> <<k.periods>>]
  BY DEF Formatted
<1>2. /\ k = [func |-> k.func, metric |-> k.metric, dims |-> k.dims, period |-> k.period,
              periods |-> k.periods]
      /\ DimsOK(k.dims)
  BY DEF KeyOK
<1>3. t = [op |-> t.op, value |-> t.value] /\ t.op \in {"LT", "GT"}
  BY DEF TestOK
<1>4. Dictionary(s) = k.dims
  BY <1>2, DictionaryOfAll
<1> HIDE DEF k, t, s, u
<1>5. /\ u.func = k.func /\ u.metric = k.metric /\ u.dims = s /\ u.period = <<k.period>>
      /\ u.op = t.op /\ u.threshold.value = t.value /\ u.threshold.exponent = x
      /\ u.periods = <<k.periods>>
  BY <1>1
<1>6. Given(u.period, 60) = k.period /\ Given(u.periods, 1) = k.periods
  BY <1>5 DEF Given
<1>7. Normalized(u.op) = t.op
  BY <1>3, <1>5 DEF Normalized
<1>8. Definition(u) = [key |-> [func |-> k.func, metric |-> k.metric, dims |-> k.dims,
                                period |-> k.period, periods |-> k.periods],
                       test |-> [op |-> t.op, value |-> t.value]]
  BY <1>4, <1>5, <1>6, <1>7 DEF Definition
<1>9. Definition(u) = [key |-> k, test |-> t]
  BY <1>2, <1>3, <1>8
<1> QED
  BY <1>5, <1>9 DEF k, t, u

\* Tells, of an event of a creation or of an update.
TellsAt(created, one, row) ==
    LET def == Definition(one.text)
        metric == IF created THEN Lower[def.key.metric] ELSE def.key.metric
    IN  /\ Column([def.key EXCEPT !.metric = metric]) = row.key
        /\ IF created THEN Column(one.key) = row.key ELSE SameButDims(Column(one.key), row.key)
        /\ \A test \in {def.test, one.test} :
              test.op = row.test.op /\ Rounded(test.value) = Rounded(row.test.value)

LEMMA TellsIs ==
    ASSUME NEW one, NEW row
    PROVE  Tells(one, row) <=> TellsAt(updates = 0, one, row)
  BY DEF Tells, TellsAt

LEMMA ToldTells ==
    ASSUME NEW def, KeyOK(def.key), TestOK(def.test), NEW x, NEW row,
           Column(def.key) = row.key, def.test.op = row.test.op,
           Rounded(def.test.value) = Rounded(row.test.value)
    PROVE  TellsAt(FALSE, Told(def, x), row)
<1> DEFINE one == Told(def, x)
           k == def.key
           j == [k EXCEPT !.dims = Named(@)]
<1>1. one = [text |-> Formatted(def, x), key |-> j, test |-> def.test]
  BY DEF Told
<1>2. Definition(one.text) = [key |-> k, test |-> def.test]
  BY <1>1, FormattedIs
<1>3. k = [func |-> k.func, metric |-> k.metric, dims |-> k.dims, period |-> k.period,
           periods |-> k.periods] /\ k.period \in Numbers /\ k.periods \in Numbers
  BY DEF KeyOK
<1>4. [k EXCEPT !.metric = k.metric] = k
  BY <1>3
<1>5. Column([Definition(one.text).key EXCEPT !.metric = Definition(one.text).key.metric]) = row.key
  BY <1>2, <1>4
<1>6. SameButDims(Column(j), row.key)
  <2> DEFINE D == Named(k.dims)
  <2>1. j = [func |-> k.func, metric |-> k.metric, dims |-> D, period |-> k.period,
             periods |-> k.periods]
    BY <1>3
  <2>2. DimsOK(D)
    <3>1. D = {} \/ \E d : D = {d}
      BY DEF Named
    <3>2. IsFiniteSet(D)
      <4>1. \A d : IsFiniteSet({d})
        BY FS_Singleton
      <4>2. CASE D = {}
        BY <4>2, FS_EmptySet
      <4>3. CASE \E d : D = {d}
        BY <4>1, <4>3
      <4> QED
        BY <3>1, <4>2, <4>3
    <3> QED
      BY <3>1, <3>2 DEF DimsOK
  <2> HIDE DEF D
  <2>3. KeyOK(j) /\ j.func = k.func /\ j.metric = k.metric /\ j.period = k.period /\ j.periods = k.periods
    BY <1>3, <2>1, <2>2 DEF KeyOK
  <2> HIDE DEF j
  <2>4. Column(j) = [func |-> k.func, metric |-> k.metric, dims |-> j.dims,
                     period |-> [n |-> k.period.n, zeros |-> 0],
                     periods |-> [n |-> k.periods.n, zeros |-> 0]]
    BY <2>3, ColumnIs
  <2>5. row.key = [func |-> k.func, metric |-> k.metric, dims |-> k.dims,
                   period |-> [n |-> k.period.n, zeros |-> 0],
                   periods |-> [n |-> k.periods.n, zeros |-> 0]]
    BY ColumnIs
  <2>6. [Column(j) EXCEPT !.dims = row.key.dims] = row.key
    BY <2>4, <2>5
  <2> QED
    BY <2>6 DEF SameButDims
<1>7. \A test \in {Definition(one.text).test, one.test} :
          test.op = row.test.op /\ Rounded(test.value) = Rounded(row.test.value)
  BY <1>1, <1>2
<1>8. one.key = j
  BY <1>1
<1> QED
  BY <1>5, <1>6, <1>7, <1>8 DEF TellsAt

LEMMA WrittenTells ==
    ASSUME NEW sub \in Subs, NEW n
    PROVE  /\ TellsAt(TRUE, Written(sub), CreatedRow(n, Definition(sub)))
           /\ Readable(Written(sub))
<1> DEFINE def == Definition(sub)
           one == Written(sub)
           k == def.key
           j == [k EXCEPT !.metric = Lower[@]]
           row == CreatedRow(n, def)
<1>1. def = [key |-> k, test |-> def.test] /\ KeyOK(k)
  BY DefinitionOK DEF DefOK
<1>2. one = [text |-> sub, key |-> j, test |-> def.test]
  BY DEF Written
<1>3. j = [func |-> k.func, metric |-> Lower[k.metric], dims |-> k.dims, period |-> k.period,
           periods |-> k.periods] /\ DimsOK(k.dims) /\ k.period \in Numbers /\ k.periods \in Numbers
  BY <1>1 DEF KeyOK
<1>4. KeyOK(j)
  BY <1>3 DEF KeyOK
<1>5. Column(j) = [func |-> k.func, metric |-> Lower[k.metric], dims |-> k.dims,
                   period |-> [n |-> k.period.n, zeros |-> 0],
                   periods |-> [n |-> k.periods.n, zeros |-> 0]]
  <2>1. j.func = k.func /\ j.metric = Lower[k.metric] /\ j.dims = k.dims /\ j.period = k.period
        /\ j.periods = k.periods
    BY <1>3
  <2> HIDE DEF j
  <2> QED
    BY <1>4, <2>1, ColumnIs
<1>6. row = [id |-> <<0, n, def>>, key |-> [Column(k) EXCEPT !.metric = Lower[@]], test |-> def.test]
  BY DEF CreatedRow, Row
<1>7. [Column(k) EXCEPT !.metric = Lower[@]] = Column(j)
  <2>1. Column(k) = [func |-> k.func, metric |-> k.metric, dims |-> k.dims,
                     period |-> [n |-> k.period.n, zeros |-> 0],
                     periods |-> [n |-> k.periods.n, zeros |-> 0]]
    BY <1>1, ColumnIs
  <2> QED
    BY <1>5, <2>1
<1>8. row.key = Column(j) /\ row.test = def.test
  BY <1>6, <1>7
<1>9. one.text = sub /\ one.key = j /\ one.test = def.test
  BY <1>2
<1>10. Readable(one)
  BY <1>9 DEF Readable, Subs
<1>11. [k EXCEPT !.metric = Lower[k.metric]] = j
  BY <1>1 DEF KeyOK
<1> QED
  BY <1>8, <1>9, <1>10, <1>11 DEF TellsAt

------------------------------------------------------------------------------
(* Rows, and an update of them, given the set of old rows and the pairing  *)
(* it arrives at.                                                          *)

RowOK(row) ==
    /\ row = [id |-> row.id, key |-> row.key, test |-> row.test]
    /\ KeyOK(row.key) /\ TestOK(row.test) /\ InColumns(row.key)

\* Rows are what columns hold, and no two have one id.
RowsInv ==
    /\ text \in Texts \cup Edits /\ updates \in Nat
    /\ stage = "new" => updates = 0
    /\ \A row \in rows : RowOK(row) /\ row.id[1] \in 0..updates
    /\ \A s, t \in rows : s.id = t.id => s = t

ReadRows == {Read(row) : row \in rows}
Wanted(t) == {Definition(e) : e \in ToSet(SubExprs(t))}
Values(R) == {Value(r) : r \in R}

LEMMA ReadIs ==
    ASSUME NEW row, RowOK(row)
    PROVE  /\ Read(row).id = row.id /\ Read(row).key = row.key /\ Read(row).test.op = row.test.op
           /\ Read(row).test.value = Rounded(row.test.value) /\ TestOK(Read(row).test)
           /\ Read(row) = [id |-> row.id, key |-> row.key, test |-> Read(row).test]
<1> DEFINE u == [row.test EXCEPT !.value = Rounded(@)]
<1>1. row.test = [op |-> row.test.op, value |-> row.test.value] /\ row.test.op \in {"LT", "GT"}
      /\ row.test.value \in Nat
  BY DEF RowOK, TestOK
<1>2. u = [op |-> row.test.op, value |-> Rounded(row.test.value)]
  BY <1>1
<1>3. TestOK(u)
  BY <1>1, <1>2, RoundedIs DEF TestOK
<1>4. Read(row) = [row EXCEPT !.test = u]
  BY DEF Read, RowOK
<1> HIDE DEF u
<1>5. Read(row) = [id |-> row.id, key |-> row.key, test |-> u]
  BY <1>4 DEF RowOK
<1> QED
  BY <1>2, <1>3, <1>5

LEMMA SubExprsAre ==
    ASSUME NEW t \in Seq(Tokens)
    PROVE  \A n \in DOMAIN SubExprs(t) : SubExprs(t)[n] \in Subs
<1> DEFINE places == Parsed(t).subs
<1>1. \A n \in DOMAIN places : places[n] \in DOMAIN t
  <2>1. CASE Parsed(t) = Failed
    BY <2>1 DEF Failed
  <2>2. CASE Parsed(t) # Failed
    <3>1. ToSet(places) = {p \in DOMAIN t : t[p].kind = "sub"}
      BY <2>2, ParserIsTheGrammar
    <3> QED
      BY <3>1 DEF ToSet
  <2> QED
    BY <2>1, <2>2
<1>2. \A p \in DOMAIN t : t[p].sub \in Subs
  <2>1. \A p \in DOMAIN t : t[p] \in Tokens
    OBVIOUS
  <2>2. \A x \in Tokens : x.sub \in Subs
    BY DEF Tokens
  <2> QED
    BY <2>1, <2>2
<1>3. SubExprs(t) = [n \in DOMAIN places |-> t[places[n]].sub]
  BY DEF SubExprs
<1> QED
  BY <1>1, <1>2, <1>3

LEMMA WantedAre ==
    ASSUME NEW t \in Texts \cup Edits
    PROVE  /\ t \in Seq(Tokens)
           /\ \A s \in ToSet(SubExprs(t)) : s \in Subs
           /\ \A e \in Wanted(t) : DefOK(e) /\ \E s \in ToSet(SubExprs(t)) : e = Definition(s)
<1>1. t \in Seq(Tokens)
  BY TextsAssumption
<1>2. \A s \in ToSet(SubExprs(t)) : s \in Subs
  BY <1>1, SubExprsAre DEF ToSet
<1>3. \A e \in Wanted(t) : \E s \in ToSet(SubExprs(t)) : e = Definition(s)
  BY DEF Wanted
<1> QED
  BY <1>1, <1>2, <1>3, DefinitionOK

Stale(s, W) == Value(s) \notin W
Paired(f, s) == s \in DOMAIN f
After(f, row) == IF Paired(f, Read(row)) THEN [row EXCEPT !.test = f[Read(row)].test] ELSE row
Changes(f) == {[id |-> s.id, key |-> f[s].key, test |-> f[s].test] : s \in DOMAIN f}

Outcome(old, f, W) ==
    /\ old \subseteq ReadRows /\ \A row \in rows : \E s \in old : Value(s) = Value(Read(row))
    /\ \A s : Paired(f, s) <=> /\ s \in old /\ Stale(s, W)
                               /\ \E e \in W \ Values(ReadRows) : s.key = e.key
    /\ \A s \in DOMAIN f : f[s] \in W \ Values(ReadRows) /\ f[s].key = s.key
    /\ diff'.removed = {s.id : s \in {x \in old : Stale(x, W) /\ ~ Paired(f, x)}}
    /\ diff'.changed = Changes(f)
    /\ diff'.added = {e \in W \ Values(ReadRows) : ~ \E s \in DOMAIN f : s.key = e.key}
    /\ diff'.unchanged = {r.id : r \in ReadRows} \ {s.id : s \in {x \in old : Stale(x, W)}}
    /\ rows' = {After(f, row) : row \in rows} \cup {Row(updates + 1, 0, e) : e \in diff'.added}
    /\ updates' = updates + 1
    /\ \E one \in SUBSET diff'.changed : event' = Reported(diff', one)

\* The UPDATE by id meets the row it is for, and no other.
LEMMA UpdateChangedIs ==
    ASSUME RowsInv, NEW f, DOMAIN f \subseteq ReadRows, NEW d, d.changed = Changes(f)
    PROVE  UpdateChanged(rows, d) = {After(f, row) : row \in rows}
<1> DEFINE changed(row) == \E c \in d.changed : c.id = row.id
           chosen(row) == CHOOSE c \in d.changed : c.id = row.id
<1>1. ASSUME NEW row \in rows
      PROVE  (IF changed(row) THEN [row EXCEPT !.test = chosen(row).test] ELSE row) = After(f, row)
  <2> DEFINE r == Read(row)
             v == [id |-> row.id, key |-> f[r].key, test |-> f[r].test]
  <2>0. \A x \in rows : x.id = row.id => x = row
    BY DEF RowsInv
  <2>1. ASSUME NEW c \in d.changed, c.id = row.id
        PROVE  Paired(f, r) /\ c = v
    <3>1. PICK s \in DOMAIN f : c = [id |-> s.id, key |-> f[s].key, test |-> f[s].test]
      BY DEF Changes
    <3>2. PICK x \in rows : s = Read(x)
      BY DEF ReadRows
    <3>3. x.id = row.id
      BY <2>1, <3>1, <3>2, ReadIs DEF RowsInv
    <3>4. s = r
      BY <2>0, <3>2, <3>3
    <3> QED
      BY <2>1, <3>1, <3>4 DEF Paired
  <2>2. ASSUME Paired(f, r) PROVE v \in d.changed
    <3>1. r.id = row.id
      BY ReadIs DEF RowsInv
    <3> QED
      BY <2>2, <3>1 DEF Changes, Paired
  <2>3. changed(row) <=> Paired(f, r)
    BY <2>1, <2>2
  <2>4. changed(row) => chosen(row) \in d.changed /\ chosen(row).id = row.id
    OBVIOUS
  <2>5. changed(row) => chosen(row).test = f[r].test
    BY <2>1, <2>4
  <2> HIDE DEF changed, chosen
  <2> QED
    BY <2>3, <2>5 DEF After
<1> QED
  BY <1>1 DEF UpdateChanged

LEMMA UpdateIs ==
    ASSUME RowsInv, NEW t \in Edits, Update(t)
    PROVE  \E old, f : Outcome(old, f, Wanted(t))
<1> DEFINE R == ReadRows
           W == Wanted(t)
           missing == Missing(R, W)
<1>1. PICK d \in Diffs(R, W) :
          /\ diff' = d
          /\ rows' = UpdateChanged(DeleteRemoved(rows, d), d) \cup {Row(updates + 1, 0, e) : e \in d.added}
          /\ \E one \in SUBSET d.changed : event' = Reported(d, one)
  BY DEF Update, ReadRows, Wanted
<1> HIDE DEF R, W
<1>2. PICK old \in OldSets(R) :
          \E f \in Pairings({s \in old : Value(s) \notin W}, missing) : d = DiffOf(R, old, W, missing, f)
  BY DEF Diffs
<1>3. PICK f \in Pairings({s \in old : Value(s) \notin W}, missing) : d = DiffOf(R, old, W, missing, f)
  BY <1>2
<1>4. missing = W \ Values(R)
  BY DEF Missing, Values
<1>5. /\ DOMAIN f = {s \in {x \in old : Value(x) \notin W} : \E e \in missing : s.key = e.key}
      /\ \A s \in DOMAIN f : f[s] \in missing /\ s.key = f[s].key
  BY DEF Pairings, SameKeyFields
<1>6. old \subseteq R /\ \A r \in R : \E s \in old : Value(s) = Value(r)
  BY DEF OldSets
<1>7. /\ d.removed = {s.id : s \in {x \in old : Value(x) \notin W} \ DOMAIN f}
      /\ d.changed = Changes(f)
      /\ d.added = {e \in missing : ~ \E s \in DOMAIN f : s.key = e.key}
      /\ d.unchanged = {r.id : r \in R} \ {s.id : s \in {x \in old : Value(x) \notin W}}
  BY <1>3 DEF DiffOf, Removed, Changes, SameKeyFields
<1> HIDE DEF missing
<1>8. {x \in old : Value(x) \notin W} \ DOMAIN f = {x \in old : Stale(x, W) /\ ~ Paired(f, x)}
  BY DEF Stale, Paired
<1>9. rows' = {After(f, row) : row \in rows} \cup {Row(updates + 1, 0, e) : e \in d.added}
  BY <1>1, <1>5, <1>6, <1>7, UpdateChangedIs DEF DeleteRemoved, R
<1>10. updates' = updates + 1
  BY DEF Update
<1>11. \A s : Paired(f, s) <=> s \in old /\ Stale(s, W) /\ \E e \in W \ Values(R) : s.key = e.key
  BY <1>4, <1>5 DEF Paired, Stale
<1>12. diff'.unchanged = {r.id : r \in R} \ {s.id : s \in {x \in old : Stale(x, W)}}
  BY <1>1, <1>7 DEF Stale
<1>13. diff'.removed = {s.id : s \in {x \in old : Stale(x, W) /\ ~ Paired(f, x)}}
  BY <1>1, <1>7, <1>8
<1>14. \A s \in DOMAIN f : f[s] \in W \ Values(R) /\ f[s].key = s.key
  BY <1>4, <1>5
<1>15. diff'.added = {e \in W \ Values(R) : ~ \E s \in DOMAIN f : s.key = e.key}
  BY <1>1, <1>4, <1>7
<1>16. diff'.changed = Changes(f)
  BY <1>1, <1>7
<1>17. rows' = {After(f, row) : row \in rows} \cup {Row(updates + 1, 0, e) : e \in diff'.added}
  BY <1>1, <1>9
<1>18. \E one \in SUBSET diff'.changed : event' = Reported(diff', one)
  BY <1>1
<1>19. \A row \in rows : Read(row) \in R
  BY DEF R, ReadRows
<1>20. Outcome(old, f, W)
  BY <1>6, <1>10, <1>11, <1>12, <1>13, <1>14, <1>15, <1>16, <1>17, <1>18, <1>19 DEF Outcome, R
<1> QED
  BY <1>20 DEF W

\* The rows after an update, one by one.
LEMMA RowsAfter ==
    ASSUME RowsInv, NEW old, NEW f, NEW t \in Edits, Outcome(old, f, Wanted(t))
    PROVE  /\ \A row \in rows : /\ After(f, row) \in rows' /\ RowOK(After(f, row))
                                /\ After(f, row).id = row.id /\ After(f, row).key = row.key
                                /\ ~ Paired(f, Read(row)) => After(f, row) = row
                                /\ Paired(f, Read(row)) => After(f, row).test = f[Read(row)].test
           /\ \A e \in diff'.added :
                 LET new == Row(updates + 1, 0, e)
                 IN  /\ new \in rows' /\ RowOK(new) /\ DefOK(e) /\ e \in Wanted(t)
                     /\ new.id = <<updates + 1, 0, e>> /\ new.key = Column(e.key) /\ new.test = e.test
           /\ \A row \in rows' : \/ \E s \in rows : row = After(f, s)
                                 \/ \E e \in diff'.added : row = Row(updates + 1, 0, e)
<1>0. \A e \in Wanted(t) : DefOK(e)
  BY WantedAre
<1>1. ASSUME NEW row \in rows
      PROVE  /\ After(f, row) \in rows' /\ RowOK(After(f, row))
             /\ After(f, row).id = row.id /\ After(f, row).key = row.key
             /\ ~ Paired(f, Read(row)) => After(f, row) = row
             /\ Paired(f, Read(row)) => After(f, row).test = f[Read(row)].test
  <2>1. After(f, row) \in rows'
    BY DEF Outcome
  <2>2. RowOK(row)
    BY DEF RowsInv
  <2>3. CASE Paired(f, Read(row))
    <3> DEFINE x == f[Read(row)].test
    <3>1. TestOK(x)
      <4>1. f[Read(row)] \in Wanted(t)
        BY <2>3 DEF Outcome, Paired
      <4> QED
        BY <1>0, <4>1 DEF DefOK
    <3>2. After(f, row) = [row EXCEPT !.test = x]
      BY <2>3 DEF After
    <3> HIDE DEF x
    <3>3. After(f, row) = [id |-> row.id, key |-> row.key, test |-> x]
      BY <2>2, <3>2 DEF RowOK
    <3>4. /\ After(f, row).id = row.id /\ After(f, row).key = row.key /\ After(f, row).test = x
          /\ After(f, row) = [id |-> After(f, row).id, key |-> After(f, row).key,
                              test |-> After(f, row).test]
      BY <3>3
    <3>5. RowOK(After(f, row))
      BY <2>2, <3>1, <3>4 DEF RowOK
    <3> QED
      BY <2>1, <2>3, <3>4, <3>5 DEF x
  <2>4. CASE ~ Paired(f, Read(row))
    BY <2>1, <2>2, <2>4 DEF After
  <2> QED
    BY <2>3, <2>4
<1>2. ASSUME NEW e \in diff'.added
      PROVE  LET new == Row(updates + 1, 0, e)
             IN  /\ new \in rows' /\ RowOK(new) /\ DefOK(e) /\ e \in Wanted(t)
                 /\ new.id = <<updates + 1, 0, e>> /\ new.key = Column(e.key) /\ new.test = e.test
  <2> DEFINE new == Row(updates + 1, 0, e)
  <2>1. new \in rows' /\ e \in Wanted(t)
    BY DEF Outcome
  <2>2. DefOK(e) /\ KeyOK(Column(e.key)) /\ InColumns(Column(e.key))
    BY <1>0, <2>1, ColumnIs DEF DefOK
  <2>3. new = [id |-> <<updates + 1, 0, e>>, key |-> Column(e.key), test |-> e.test]
    BY DEF Row
  <2> HIDE DEF new
  <2>4. /\ new.id = <<updates + 1, 0, e>> /\ new.key = Column(e.key) /\ new.test = e.test
        /\ new = [id |-> new.id, key |-> new.key, test |-> new.test]
    BY <2>3
  <2>5. RowOK(new)
    BY <2>2, <2>4 DEF RowOK, DefOK
  <2> QED
    BY <2>1, <2>2, <2>4, <2>5 DEF new
<1>3. \A row \in rows' : \/ \E s \in rows : row = After(f, s)
                         \/ \E e \in diff'.added : row = Row(updates + 1, 0, e)
  BY DEF Outcome
<1> QED
  BY <1>1, <1>2, <1>3

LEMMA CreatedRowIs ==
    ASSUME NEW n, NEW def, DefOK(def)
    PROVE  LET row == CreatedRow(n, def)
           IN  /\ RowOK(row) /\ row.id = <<0, n, def>> /\ row.test = def.test
               /\ row.key = [Column(def.key) EXCEPT !.metric = Lower[@]]
<1> DEFINE row == CreatedRow(n, def)
           c == Column(def.key)
           k == [c EXCEPT !.metric = Lower[@]]
<1>1. row = [id |-> <<0, n, def>>, key |-> k, test |-> def.test]
  BY DEF CreatedRow, Row
<1>2. KeyOK(c) /\ InColumns(c)
  BY ColumnIs DEF DefOK
<1>3. k = [func |-> c.func, metric |-> Lower[c.metric], dims |-> c.dims, period |-> c.period,
           periods |-> c.periods]
  BY <1>2 DEF KeyOK
<1>4. KeyOK(k) /\ InColumns(k)
  BY <1>2, <1>3 DEF KeyOK, InColumns
<1> HIDE DEF k, row
<1>5. row.id = <<0, n, def>> /\ row.key = k /\ row.test = def.test
  BY <1>1
<1>6. RowOK(row)
  BY <1>1, <1>4, <1>5 DEF RowOK, DefOK
<1> QED
  BY <1>5, <1>6 DEF row, k

\* The rows a creation inserts.
LEMMA CreateIs ==
    ASSUME RowsInv, rows = {}, Create, stage' = "stored"
    PROVE  /\ Parsed(text) # Failed /\ text' = text /\ updates = 0 /\ updates' = 0
           /\ rows' = {CreatedRow(n, Definition(SubExprs(text)[n])) : n \in DOMAIN SubExprs(text)}
           /\ event' = {Written(sub) : sub \in ToSet(SubExprs(text))}
           /\ \A n \in DOMAIN SubExprs(text) : SubExprs(text)[n] \in Subs
<1>1. stage = "new" /\ text \in Texts \cup Edits
  BY DEF Create, RowsInv
<1>2. \A n \in DOMAIN SubExprs(text) : SubExprs(text)[n] \in Subs
  BY <1>1, SubExprsAre, TextsAssumption
<1> QED
  BY <1>1, <1>2 DEF Create, RowsInv

LEMMA RowsInit == Init => RowsInv
  BY DEF Init, RowsInv

NothingYet == stage # "stored" => rows = {}

LEMMA RowsStep == RowsInv /\ NothingYet /\ [Next]_vars => RowsInv' /\ NothingYet'
<1> SUFFICES ASSUME RowsInv, NothingYet, [Next]_vars PROVE RowsInv' /\ NothingYet'
  OBVIOUS
<1>1. CASE Create /\ stage' = "stored"
  <2> DEFINE subs == SubExprs(text)
  <2>1. stage = "new" /\ rows = {}
    BY <1>1 DEF Create, NothingYet
  <2>2. /\ text' = text /\ updates' = 0
        /\ rows' = {CreatedRow(n, Definition(subs[n])) : n \in DOMAIN subs}
        /\ \A n \in DOMAIN subs : subs[n] \in Subs
    BY <1>1, <2>1, CreateIs
  <2>3. ASSUME NEW row \in rows'
        PROVE  \E n \in DOMAIN subs : /\ row = CreatedRow(n, Definition(subs[n])) /\ RowOK(row)
                                      /\ row.id = <<0, n, Definition(subs[n])>>
    <3>1. PICK n \in DOMAIN subs : row = CreatedRow(n, Definition(subs[n]))
      BY <2>2
    <3>2. PICK def : def = Definition(subs[n])
      OBVIOUS
    <3>3. DefOK(def)
      BY <2>2, <3>2, DefinitionOK
    <3>4. RowOK(CreatedRow(n, def)) /\ CreatedRow(n, def).id = <<0, n, def>>
      BY <3>3, CreatedRowIs
    <3> QED
      BY <3>1, <3>2, <3>4
  <2> HIDE DEF subs
  <2>4. \A row \in rows' : RowOK(row) /\ row.id[1] \in 0..updates'
    BY <2>2, <2>3
  <2>5. \A s, t \in rows' : s.id = t.id => s = t
    <3> SUFFICES ASSUME NEW s \in rows', NEW t \in rows', s.id = t.id PROVE s = t
      OBVIOUS
    <3>1. PICK n \in DOMAIN subs : s = CreatedRow(n, Definition(subs[n]))
                                   /\ s.id = <<0, n, Definition(subs[n])>>
      BY <2>3
    <3>2. PICK m \in DOMAIN subs : t = CreatedRow(m, Definition(subs[m]))
                                   /\ t.id = <<0, m, Definition(subs[m])>>
      BY <2>3
    <3>3. n = m
      BY <3>1, <3>2
    <3> QED
      BY <3>1, <3>2, <3>3
  <2> QED
    BY <1>1, <2>2, <2>4, <2>5 DEF RowsInv, NothingYet
<1>2. CASE Create /\ stage' # "stored"
  BY <1>2 DEF Create, RowsInv, NothingYet
<1>3. ASSUME NEW t \in Edits, Update(t) PROVE RowsInv' /\ NothingYet'
  <2>1. PICK old, f : Outcome(old, f, Wanted(t))
    BY <1>3, UpdateIs
  <2>2. /\ updates \in Nat /\ updates' = updates + 1 /\ text' \in Texts \cup Edits
        /\ stage = "stored" /\ stage' = stage
    BY <1>3 DEF RowsInv, Update
  <2>3. ASSUME NEW row \in rows'
        PROVE  /\ RowOK(row)
               /\ \/ \E s \in rows : row = After(f, s) /\ row.id = s.id
                  \/ \E e \in diff'.added : row = Row(updates + 1, 0, e) /\ row.id = <<updates + 1, 0, e>>
    BY <2>1, RowsAfter
  <2>4. \A s \in rows : s.id[1] \in 0..updates
    BY DEF RowsInv
  <2>5. \A row \in rows' : row.id[1] \in 0..updates'
    BY <2>2, <2>3, <2>4
  <2>6. \A s \in rows : \A e : s.id # <<updates + 1, 0, e>>
    BY <2>2, <2>4
  <2>7. \A s, u \in rows' : s.id = u.id => s = u
    <3> SUFFICES ASSUME NEW s \in rows', NEW u \in rows', s.id = u.id PROVE s = u
      OBVIOUS
    <3>1. CASE \E x \in rows : s = After(f, x) /\ s.id = x.id
      <4>1. PICK x \in rows : s = After(f, x) /\ s.id = x.id
        BY <3>1
      <4>2. PICK y \in rows : u = After(f, y) /\ u.id = y.id
        BY <2>3, <2>6, <4>1
      <4> QED
        BY <4>1, <4>2 DEF RowsInv
    <3>2. CASE \E e \in diff'.added : s = Row(updates + 1, 0, e) /\ s.id = <<updates + 1, 0, e>>
      <4>1. PICK e \in diff'.added : s = Row(updates + 1, 0, e) /\ s.id = <<updates + 1, 0, e>>
        BY <3>2
      <4>2. PICK d \in diff'.added : u = Row(updates + 1, 0, d) /\ u.id = <<updates + 1, 0, d>>
        BY <2>3, <2>6, <4>1
      <4> QED
        BY <4>1, <4>2
    <3> QED
      BY <2>3, <3>1, <3>2
  <2> QED
    BY <2>2, <2>3, <2>5, <2>7 DEF RowsInv, NothingYet
<1>4. CASE UNCHANGED vars
  BY <1>4 DEF RowsInv, NothingYet, vars
<1> QED
  BY <1>1, <1>2, <1>3, <1>4 DEF Next

\* Which of the parts of the diff a row is in.
LEMMA Parts ==
    ASSUME RowsInv, NEW old, NEW f, NEW t \in Edits, Outcome(old, f, Wanted(t)), NEW row \in rows
    PROVE  /\ Paired(f, Read(row)) <=> \E c \in diff'.changed : c.id = row.id
           /\ Paired(f, Read(row)) <=> row.id \notin diff'.removed \cup diff'.unchanged
<1> DEFINE r == Read(row)
           W == Wanted(t)
<1>0. \A x \in rows : x.id = row.id => Read(x) = r
  BY DEF RowsInv
<1>1. \A x \in rows : Read(x).id = x.id
  BY ReadIs DEF RowsInv
<1>2. r \in ReadRows /\ \A s \in ReadRows : s.id = row.id => s = r
  BY <1>0, <1>1 DEF ReadRows
<1>3. \A s : Paired(f, s) => s \in old /\ Stale(s, W)
  BY DEF Outcome
<1>4. old \subseteq ReadRows
  BY DEF Outcome
<1> HIDE DEF r, W
<1>5. ASSUME Paired(f, r) PROVE \E c \in diff'.changed : c.id = row.id
  <2>0. diff'.changed = Changes(f)
    BY DEF Outcome
  <2>1. [id |-> r.id, key |-> f[r].key, test |-> f[r].test] \in diff'.changed
    BY <1>5, <2>0 DEF Changes, Paired
  <2> QED
    BY <1>1, <2>1 DEF r
<1>6. ASSUME NEW c \in diff'.changed, c.id = row.id PROVE Paired(f, r)
  <2>1. PICK s \in DOMAIN f : c = [id |-> s.id, key |-> f[s].key, test |-> f[s].test]
    BY DEF Outcome, Changes
  <2>2. s \in ReadRows /\ s.id = row.id
    BY <1>3, <1>4, <1>6, <2>1 DEF Paired
  <2> QED
    BY <1>2, <2>1, <2>2 DEF Paired
<1>7. row.id \in diff'.removed <=> r \in old /\ Stale(r, W) /\ ~ Paired(f, r)
  <2>1. diff'.removed = {s.id : s \in {x \in old : Stale(x, W) /\ ~ Paired(f, x)}}
    BY DEF Outcome, W
  <2> QED
    BY <1>1, <1>2, <1>4, <2>1 DEF r
<1>8. row.id \in diff'.unchanged <=> ~ (r \in old /\ Stale(r, W))
  <2>1. diff'.unchanged = {s.id : s \in ReadRows} \ {s.id : s \in {x \in old : Stale(x, W)}}
    BY DEF Outcome, W
  <2> QED
    BY <1>1, <1>2, <1>4, <2>1 DEF r
<1> QED
  BY <1>3, <1>5, <1>6, <1>7, <1>8 DEF r

------------------------------------------------------------------------------
(* Events.                                                                 *)

EventTells(created, ev, rs, changed) ==
    /\ \A one \in ev : IF Readable(one) THEN \E row \in rs : TellsAt(created, one, row)
                                        ELSE one.test.value < Small
    /\ \A row \in rs : \/ \E one \in ev : TellsAt(created, one, row)
                       \/ \E c \in changed : c.id = row.id

LEMMA EventIs ==
    EventTellsTheRows <=> (stage = "stored" => EventTells(updates = 0, event, rows, diff.changed))
  BY TellsIs DEF EventTellsTheRows, EventTells

LEMMA CreateTells ==
    ASSUME RowsInv, NothingYet, Create, stage' = "stored"
    PROVE  EventTells(TRUE, event', rows', diff'.changed)
<1> DEFINE subs == SubExprs(text)
<1>1. rows = {}
  BY DEF NothingYet, Create
<1>2. /\ rows' = {CreatedRow(n, Definition(subs[n])) : n \in DOMAIN subs}
      /\ event' = {Written(sub) : sub \in ToSet(subs)}
      /\ \A n \in DOMAIN subs : subs[n] \in Subs
  BY <1>1, CreateIs
<1>3. \A sub : sub \in ToSet(subs) <=> \E n \in DOMAIN subs : sub = subs[n]
  BY DEF ToSet
<1> HIDE DEF subs
<1>4. ASSUME NEW n \in DOMAIN subs
      PROVE  /\ TellsAt(TRUE, Written(subs[n]), CreatedRow(n, Definition(subs[n])))
             /\ Readable(Written(subs[n]))
             /\ CreatedRow(n, Definition(subs[n])) \in rows' /\ Written(subs[n]) \in event'
  <2>1. subs[n] \in Subs
    BY <1>2
  <2>2. PICK sub \in Subs : sub = subs[n]
    BY <2>1
  <2>3. TellsAt(TRUE, Written(sub), CreatedRow(n, Definition(sub))) /\ Readable(Written(sub))
    BY WrittenTells
  <2> QED
    BY <1>2, <1>3, <2>2, <2>3
<1>5. \A one \in event' : \E n \in DOMAIN subs : one = Written(subs[n])
  BY <1>2, <1>3
<1>6. \A row \in rows' : \E n \in DOMAIN subs : row = CreatedRow(n, Definition(subs[n]))
  BY <1>2
<1>7. \A one \in event' : Readable(one) /\ \E row \in rows' : TellsAt(TRUE, one, row)
  BY <1>4, <1>5
<1>8. \A row \in rows' : \E one \in event' : TellsAt(TRUE, one, row)
  BY <1>4, <1>6
<1> QED
  BY <1>7, <1>8 DEF EventTells

\* What an update tells of a row it leaves alone, of a new one and of a changed one.
LEMMA ToldRowTells ==
    ASSUME NEW row, RowOK(row)
    PROVE  /\ TellsAt(FALSE, ToldRow(row), row)
           /\ Readable(ToldRow(row)) \/ ToldRow(row).test.value < Small
<1> DEFINE def == Read(row)
           x == row.test.value < Small
<1>1. /\ def.key = row.key /\ def.test.op = row.test.op
      /\ def.test.value = Rounded(row.test.value) /\ TestOK(def.test)
  BY ReadIs
<1>2. KeyOK(def.key) /\ Column(def.key) = row.key
  BY <1>1, ColumnIs DEF RowOK
<1>3. row.test.value \in Nat
  BY DEF RowOK, TestOK
<1>4. Rounded(def.test.value) = Rounded(row.test.value)
  BY <1>1, <1>3, RoundedIs
<1>5. ToldRow(row) = Told(def, x)
  BY DEF ToldRow
<1> HIDE DEF def, x
<1>6. TellsAt(FALSE, Told(def, x), row)
  BY <1>1, <1>2, <1>4, ToldTells
<1>7. Told(def, x).text.threshold.exponent = x /\ Told(def, x).test = def.test
  <2>1. Told(def, x).text = Formatted(def, x) /\ Told(def, x).test = def.test
    BY DEF Told
  <2> QED
    BY <1>1, <1>2, <2>1, FormattedIs
<1>8. x => def.test.value < Small
  BY <1>1 DEF x, Rounded
<1> QED
  BY <1>5, <1>6, <1>7, <1>8 DEF Readable

LEMMA ToldTextReadable ==
    ASSUME NEW def, KeyOK(def.key), TestOK(def.test)
    PROVE  Readable(Told(def, FALSE))
<1>1. Told(def, FALSE).text = Formatted(def, FALSE)
  BY DEF Told
<1>2. Formatted(def, FALSE).threshold.exponent = FALSE
  BY FormattedIs
<1> QED
  BY <1>1, <1>2 DEF Readable

LEMMA UpdateTells ==
    ASSUME RowsInv, NEW t \in Edits, Update(t)
    PROVE  EventTells(FALSE, event', rows', diff'.changed)
<1>1. PICK old, f : Outcome(old, f, Wanted(t))
  BY UpdateIs
<1>2. PICK one0 \in SUBSET diff'.changed : event' = Reported(diff', one0)
  BY <1>1 DEF Outcome
<1> DEFINE kept == {x \in rows : x.id \in diff'.removed \cup diff'.unchanged}
           Tellable(one) == IF Readable(one) THEN \E row \in rows' : TellsAt(FALSE, one, row)
                                             ELSE one.test.value < Small
<1>3. event' = {ToldRow(row) : row \in kept} \cup {Told(e, FALSE) : e \in diff'.added}
                 \cup {Told(c, FALSE) : c \in one0}
  BY <1>2 DEF Reported
<1>4. ASSUME NEW row \in kept
      PROVE  /\ Tellable(ToldRow(row)) /\ TellsAt(FALSE, ToldRow(row), row)
             /\ row \in rows'
  <2>1. ~ Paired(f, Read(row))
    BY <1>1, Parts
  <2>2. row \in rows'
    BY <1>1, <2>1, RowsAfter
  <2>3. RowOK(row)
    BY DEF RowsInv
  <2> QED
    BY <2>2, <2>3, ToldRowTells
<1>5. ASSUME NEW e \in diff'.added
      PROVE  Tellable(Told(e, FALSE)) /\ TellsAt(FALSE, Told(e, FALSE), Row(updates + 1, 0, e))
  <2> DEFINE new == Row(updates + 1, 0, e)
  <2>1. new \in rows' /\ DefOK(e) /\ new.key = Column(e.key) /\ new.test = e.test
    BY <1>1, RowsAfter
  <2> HIDE DEF new
  <2>2. TellsAt(FALSE, Told(e, FALSE), new)
    BY <2>1, ToldTells DEF DefOK
  <2>3. Readable(Told(e, FALSE))
    BY <2>1, ToldTextReadable DEF DefOK
  <2> QED
    BY <2>1, <2>2, <2>3 DEF new
<1>6. ASSUME NEW c \in diff'.changed
      PROVE  Tellable(Told(c, FALSE))
  <2>1. PICK s \in DOMAIN f : c = [id |-> s.id, key |-> f[s].key, test |-> f[s].test]
    BY <1>1 DEF Outcome, Changes
  <2>2. s \in ReadRows /\ f[s] \in Wanted(t) /\ f[s].key = s.key
    BY <1>1, <2>1 DEF Outcome, Paired
  <2>3. PICK row \in rows : s = Read(row)
    BY <2>2 DEF ReadRows
  <2>4. RowOK(row) /\ s.key = row.key
    BY <2>3, ReadIs DEF RowsInv
  <2>5. After(f, row) \in rows' /\ After(f, row).key = row.key /\ After(f, row).test = f[s].test
    BY <1>1, <2>1, <2>3, RowsAfter DEF Paired
  <2>6. c.key = row.key /\ c.test = f[s].test
    BY <2>1, <2>2, <2>4
  <2>7. KeyOK(c.key) /\ Column(c.key) = row.key
    BY <2>4, <2>6, ColumnIs DEF RowOK
  <2>8. TestOK(c.test)
    BY <2>2, <2>6, WantedAre DEF DefOK
  <2>9. TellsAt(FALSE, Told(c, FALSE), After(f, row))
    BY <2>5, <2>6, <2>7, <2>8, ToldTells
  <2>10. Readable(Told(c, FALSE))
    BY <2>7, <2>8, ToldTextReadable
  <2> QED
    BY <2>5, <2>9, <2>10
<1> HIDE DEF Tellable
<1>7. \A one \in event' : Tellable(one)
  BY <1>2, <1>3, <1>4, <1>5, <1>6
<1>8. ASSUME NEW row \in rows'
      PROVE  \/ \E one \in event' : TellsAt(FALSE, one, row)
             \/ \E c \in diff'.changed : c.id = row.id
  <2>1. CASE \E s \in rows : row = After(f, s)
    <3>1. PICK s \in rows : row = After(f, s)
      BY <2>1
    <3>2. CASE Paired(f, Read(s))
      <4>1. row.id = s.id
        BY <1>1, <3>1, RowsAfter
      <4>2. \E c \in diff'.changed : c.id = s.id
        BY <1>1, <3>2, Parts
      <4> QED
        BY <4>1, <4>2
    <3>3. CASE ~ Paired(f, Read(s))
      <4>1. row = s
        BY <1>1, <3>1, <3>3, RowsAfter
      <4>2. s \in kept
        BY <1>1, <3>3, Parts
      <4> QED
        BY <1>3, <1>4, <4>1, <4>2
    <3> QED
      BY <3>2, <3>3
  <2>2. CASE \E e \in diff'.added : row = Row(updates + 1, 0, e)
    BY <1>3, <1>5, <2>2
  <2>3. \/ \E s \in rows : row = After(f, s)
        \/ \E e \in diff'.added : row = Row(updates + 1, 0, e)
    BY <1>1, RowsAfter
  <2> QED
    BY <2>1, <2>2, <2>3
<1> QED
  BY <1>7, <1>8 DEF EventTells, Tellable

LEMMA EventStep ==
    RowsInv /\ NothingYet /\ EventTellsTheRows /\ [Next]_vars => EventTellsTheRows'
<1> SUFFICES ASSUME RowsInv, NothingYet, EventTellsTheRows, [Next]_vars PROVE EventTellsTheRows'
  OBVIOUS
<1>0. EventTellsTheRows' <=>
        (stage' = "stored" => EventTells(updates' = 0, event', rows', diff'.changed))
  <2>1. \A one, row : Tells(one, row)' <=> TellsAt(updates' = 0, one, row)
    BY DEF Tells, TellsAt
  <2> QED
    BY <2>1 DEF EventTellsTheRows, EventTells
<1>1. CASE Create /\ stage' = "stored"
  <2>1. updates' = 0
    BY <1>1 DEF Create, RowsInv
  <2>2. EventTells(TRUE, event', rows', diff'.changed)
    BY <1>1, CreateTells
  <2>3. (updates' = 0) = TRUE
    BY <2>1
  <2>4. EventTells(updates' = 0, event', rows', diff'.changed)
    BY <2>2, <2>3
  <2> QED
    BY <1>0, <2>4
<1>2. CASE Create /\ stage' # "stored"
  BY <1>0, <1>2
<1>3. ASSUME NEW t \in Edits, Update(t) PROVE EventTellsTheRows'
  <2>1. updates' # 0
    BY <1>3 DEF Update, RowsInv
  <2>2. EventTells(FALSE, event', rows', diff'.changed)
    BY <1>3, UpdateTells
  <2>3. (updates' = 0) = FALSE
    BY <2>1
  <2>4. EventTells(updates' = 0, event', rows', diff'.changed)
    BY <2>2, <2>3
  <2> QED
    BY <1>0, <2>4
<1>4. CASE UNCHANGED vars
  BY <1>0, <1>4, EventIs DEF vars
<1> QED
  BY <1>1, <1>2, <1>3, <1>4 DEF Next

------------------------------------------------------------------------------
(* Texts that survive being stored, and what an update makes of another    *)
(* text of their meaning.                                                  *)

Clean(s) == ~ (Capital(s) \/ Padded(s) \/ Long(s))
AllClean(t) == \A s \in ToSet(SubExprs(t)) : Clean(s)
OneTestEach(W) == \A d, e \in W : d.key = e.key => d = e

HeldBy(t, rs) ==
    AllClean(t) /\ OneTestEach(Wanted(t)) => \A e \in Wanted(t) : \E row \in rs : Value(Read(row)) = e
MeantIsHeld == stage = "stored" => HeldBy(text, rows)

LEMMA CleanIs ==
    ASSUME NEW s \in Subs, Clean(s)
    PROVE  LET e == Definition(s)
           IN  /\ Meaning(s) = e /\ DefOK(e) /\ Column(e.key) = e.key
               /\ Lower[e.key.metric] = e.key.metric /\ Rounded(e.test.value) = e.test.value
<1> DEFINE e == Definition(s)
           k == e.key
<1>1. DefOK(e)
  BY DefinitionOK
<1>2. /\ k.metric = s.metric /\ k.period = Given(s.period, 60) /\ k.periods = Given(s.periods, 1)
      /\ e.test.value = s.threshold.value
  BY DEF Definition
<1>3. k.period.zeros \in Nat /\ k.periods.zeros \in Nat
  BY <1>1, NumberIs DEF DefOK, KeyOK
<1>4. k.period.zeros = 0 /\ k.periods.zeros = 0
  BY <1>2, <1>3 DEF Clean, Padded
<1>5. Lower[k.metric] = k.metric /\ Rounded(e.test.value) = e.test.value
  BY <1>2 DEF Clean, Capital, Long
<1>6. Column(k) = k
  BY <1>1, <1>4, ColumnIs DEF DefOK, InColumns
<1>7. Meaning(s) = [key |-> [Column(k) EXCEPT !.metric = Lower[@]], test |-> e.test]
  BY DEF Meaning
<1> HIDE DEF e
<1>8. [Column(k) EXCEPT !.metric = Lower[@]] = k
  BY <1>1, <1>5, <1>6 DEF DefOK, KeyOK
<1>9. Meaning(s) = e
  BY <1>1, <1>7, <1>8 DEF DefOK
<1> QED
  BY <1>1, <1>5, <1>6, <1>9 DEF e

LEMMA ReadBack ==
    ASSUME NEW row, RowOK(row), NEW e, DefOK(e), row.key = e.key, row.test = e.test,
           Rounded(e.test.value) = e.test.value
    PROVE  Value(Read(row)) = e
<1> DEFINE r == Read(row)
<1>1. r.key = e.key /\ r.test.op = e.test.op /\ r.test.value = e.test.value /\ TestOK(r.test)
  BY ReadIs
<1>2. r.test = [op |-> r.test.op, value |-> r.test.value]
      /\ e.test = [op |-> e.test.op, value |-> e.test.value]
  BY <1>1 DEF TestOK, DefOK
<1>3. r.test = e.test
  BY <1>1, <1>2
<1>4. Value(r) = [key |-> r.key, test |-> r.test]
  BY DEF Value
<1> HIDE DEF r
<1>5. Value(r) = e
  BY <1>1, <1>3, <1>4 DEF DefOK
<1> QED
  BY <1>5 DEF r

LEMMA CreateHolds ==
    ASSUME RowsInv, NothingYet, Create, stage' = "stored"
    PROVE  HeldBy(text', rows')
<1> DEFINE subs == SubExprs(text)
<1>1. rows = {}
  BY DEF NothingYet, Create
<1>2. /\ rows' = {CreatedRow(n, Definition(subs[n])) : n \in DOMAIN subs} /\ text' = text
      /\ \A n \in DOMAIN subs : subs[n] \in Subs
  BY <1>1, CreateIs
<1> SUFFICES ASSUME AllClean(text), NEW e \in Wanted(text)
             PROVE  \E row \in rows' : Value(Read(row)) = e
  BY <1>2 DEF HeldBy
<1>3. PICK n \in DOMAIN subs : e = Definition(subs[n]) /\ Clean(subs[n])
  BY DEF Wanted, AllClean, ToSet
<1>4. PICK s \in Subs : s = subs[n]
  BY <1>2
<1>5. /\ DefOK(e) /\ Column(e.key) = e.key /\ Lower[e.key.metric] = e.key.metric
      /\ Rounded(e.test.value) = e.test.value
  BY <1>3, <1>4, CleanIs
<1> DEFINE row == CreatedRow(n, e)
<1>6. RowOK(row) /\ row.test = e.test /\ row.key = [Column(e.key) EXCEPT !.metric = Lower[@]]
  BY <1>5, CreatedRowIs
<1>7. row \in rows'
  BY <1>2, <1>3
<1> HIDE DEF row
<1>8. row.key = e.key
  BY <1>5, <1>6 DEF DefOK, KeyOK
<1>9. Value(Read(row)) = e
  BY <1>5, <1>6, <1>8, ReadBack
<1> QED
  BY <1>7, <1>9

LEMMA UpdateHolds ==
    ASSUME RowsInv, NEW t \in Edits, Update(t)
    PROVE  HeldBy(t, rows')
<1> DEFINE W == Wanted(t)
<1> SUFFICES ASSUME AllClean(t), OneTestEach(W), NEW e \in W
             PROVE  \E row \in rows' : Value(Read(row)) = e
  BY DEF HeldBy
<1>1. PICK old, f : Outcome(old, f, W)
  BY UpdateIs
<1>2. PICK s \in Subs : e = Definition(s) /\ Clean(s)
  BY WantedAre DEF AllClean
<1>3. DefOK(e) /\ Column(e.key) = e.key /\ Rounded(e.test.value) = e.test.value
  BY <1>2, CleanIs
<1>4. CASE e \in Values(ReadRows)
  <2>1. PICK row \in rows : e = Value(Read(row))
    BY <1>4 DEF Values, ReadRows
  <2>2. ~ Paired(f, Read(row))
    BY <1>1, <2>1 DEF Outcome, Stale
  <2>3. row \in rows'
    BY <1>1, <2>2, RowsAfter
  <2> QED
    BY <2>1, <2>3
<1>5. CASE e \notin Values(ReadRows) /\ e \notin diff'.added
  <2>1. PICK r \in DOMAIN f : r.key = e.key
    BY <1>1, <1>5 DEF Outcome
  <2>2. f[r] \in W /\ f[r].key = r.key /\ r \in ReadRows
    BY <1>1, <2>1 DEF Outcome, Paired
  <2>3. f[r] = e
    BY <2>1, <2>2 DEF OneTestEach
  <2>4. PICK row \in rows : r = Read(row)
    BY <2>2 DEF ReadRows
  <2>5. /\ After(f, row) \in rows' /\ RowOK(After(f, row)) /\ After(f, row).key = row.key
        /\ After(f, row).test = e.test
    BY <1>1, <2>1, <2>3, <2>4, RowsAfter DEF Paired
  <2>6. row.key = e.key
    BY <2>1, <2>4, ReadIs DEF RowsInv
  <2>7. Value(Read(After(f, row))) = e
    BY <1>3, <2>5, <2>6, ReadBack
  <2> QED
    BY <2>5, <2>7
<1>6. CASE e \in diff'.added
  <2> DEFINE new == Row(updates + 1, 0, e)
  <2>1. new \in rows' /\ RowOK(new) /\ new.key = Column(e.key) /\ new.test = e.test
    BY <1>1, <1>6, RowsAfter
  <2> HIDE DEF new
  <2>2. Value(Read(new)) = e
    BY <1>3, <2>1, ReadBack
  <2> QED
    BY <2>1, <2>2
<1> QED
  BY <1>4, <1>5, <1>6

LEMMA HeldStep ==
    RowsInv /\ NothingYet /\ MeantIsHeld /\ [Next]_vars => MeantIsHeld'
<1> SUFFICES ASSUME RowsInv, NothingYet, MeantIsHeld, [Next]_vars PROVE MeantIsHeld'
  OBVIOUS
<1>0. MeantIsHeld' <=> (stage' = "stored" => HeldBy(text', rows'))
  BY DEF MeantIsHeld
<1>1. CASE Create /\ stage' = "stored"
  BY <1>0, <1>1, CreateHolds
<1>2. CASE Create /\ stage' # "stored"
  BY <1>0, <1>2
<1>3. ASSUME NEW t \in Edits, Update(t) PROVE MeantIsHeld'
  <2>1. text' = t
    BY <1>3 DEF Update
  <2> QED
    BY <1>0, <1>3, <2>1, UpdateHolds
<1>4. CASE UNCHANGED vars
  BY <1>0, <1>4 DEF MeantIsHeld, vars
<1> QED
  BY <1>1, <1>2, <1>3, <1>4 DEF Next

\* Nothing is missing in the rows, so nothing is added or changed.
LEMMA NothingNew ==
    ASSUME RowsInv, NEW t \in Edits, Update(t), \A e \in Wanted(t) : \E row \in rows : Value(Read(row)) = e
    PROVE  diff'.added \cup diff'.changed = {}
<1>1. PICK old, f : Outcome(old, f, Wanted(t))
  BY UpdateIs
<1>2. Wanted(t) \ Values(ReadRows) = {}
  BY DEF Values, ReadRows
<1>3. diff'.added = {}
  BY <1>1, <1>2 DEF Outcome
<1>4. \A s : s \notin DOMAIN f
  BY <1>1, <1>2 DEF Outcome, Paired
<1>5. diff'.changed = Changes(f)
  BY <1>1 DEF Outcome
<1>6. diff'.changed = {}
  BY <1>4, <1>5 DEF Changes
<1> QED
  BY <1>3, <1>6

\* The sub-expressions of two texts in a row are those of each.
LEMMA BothWritten ==
    ASSUME NEW t \in Seq(Tokens), NEW u \in Seq(Tokens)
    PROVE  ToSet(SubExprs(t) \o SubExprs(u)) = ToSet(SubExprs(t)) \cup ToSet(SubExprs(u))
<1>1. ASSUME NEW w \in Seq(Tokens) PROVE SubExprs(w) \in Seq(Subs)
  <2> DEFINE places == Parsed(w).subs
  <2>1. places \in Seq(Nat)
    <3>1. CASE Parsed(w) = Failed
      BY <3>1 DEF Failed
    <3>2. CASE Parsed(w) # Failed
      BY <3>2, ParsedSound DEF Reads, Found
    <3> QED
      BY <3>1, <3>2
  <2>2. DOMAIN places = 1..Len(places) /\ Len(places) \in Nat
    BY <2>1
  <2>3. SubExprs(w) = [n \in DOMAIN places |-> w[places[n]].sub]
    BY DEF SubExprs
  <2>4. \A n \in DOMAIN SubExprs(w) : SubExprs(w)[n] \in Subs
    BY SubExprsAre
  <2> HIDE DEF places
  <2>5. SubExprs(w) = [n \in 1..Len(places) |-> SubExprs(w)[n]]
    BY <2>2, <2>3
  <2> QED
    BY <2>2, <2>3, <2>4, <2>5
<1>2. PICK a, b : a = SubExprs(t) /\ b = SubExprs(u) /\ a \in Seq(Subs) /\ b \in Seq(Subs)
  BY <1>1
<1>3. /\ Len(a) \in Nat /\ Len(b) \in Nat /\ DOMAIN a = 1..Len(a) /\ DOMAIN b = 1..Len(b)
      /\ DOMAIN (a \o b) = 1..(Len(a) + Len(b))
      /\ \A n \in 1..(Len(a) + Len(b)) : (a \o b)[n] = IF n <= Len(a) THEN a[n] ELSE b[n - Len(a)]
  BY <1>2
<1>4. ASSUME NEW n \in DOMAIN (a \o b)
      PROVE  (a \o b)[n] \in ToSet(a) \cup ToSet(b)
  BY <1>3 DEF ToSet
<1>5. ASSUME NEW n \in DOMAIN a PROVE a[n] \in ToSet(a \o b)
  BY <1>3 DEF ToSet
<1>6. ASSUME NEW n \in DOMAIN b PROVE b[n] \in ToSet(a \o b)
  <2>1. n + Len(a) \in DOMAIN (a \o b) /\ (a \o b)[n + Len(a)] = b[n]
    BY <1>3
  <2> QED
    BY <2>1 DEF ToSet
<1>7. ToSet(a \o b) \subseteq ToSet(a) \cup ToSet(b)
  BY <1>4 DEF ToSet
<1>8. ToSet(a) \subseteq ToSet(a \o b) /\ ToSet(b) \subseteq ToSet(a \o b)
  <2>1. \A x \in ToSet(a) : \E n \in DOMAIN a : x = a[n]
    BY DEF ToSet
  <2>2. \A x \in ToSet(b) : \E n \in DOMAIN b : x = b[n]
    BY DEF ToSet
  <2> QED
    BY <1>5, <1>6, <2>1, <2>2
<1> QED
  BY <1>2, <1>7, <1>8

\* Texts of clean sub-expressions mean what their definitions are.
LEMMA CleanMeaning ==
    ASSUME NEW t \in Texts \cup Edits, AllClean(t)
    PROVE  {Meaning(s) : s \in ToSet(SubExprs(t))} = Wanted(t)
<1>1. \A s \in ToSet(SubExprs(t)) : Meaning(s) = Definition(s)
  BY WantedAre, CleanIs DEF AllClean
<1> QED
  BY <1>1 DEF Wanted

SameMeaningStep ==
    LET before == {Meaning(s) : s \in ToSet(SubExprs(text))}
        written == ToSet(SubExprs(text) \o SubExprs(text'))
    IN  stage = "stored" /\ updates' > updates
        /\ before = {Meaning(s) : s \in ToSet(SubExprs(text'))}
        /\ (\A m1, m2 \in before : SameKeyFields(m1, m2) => m1 = m2) =>
          (diff'.added \cup diff'.changed # {} =>
              \E s \in written : Capital(s) \/ Padded(s) \/ Long(s))

LEMMA MeaningStep == RowsInv /\ MeantIsHeld /\ [Next]_vars => SameMeaningStep
<1> DEFINE before == {Meaning(s) : s \in ToSet(SubExprs(text))}
           after == {Meaning(s) : s \in ToSet(SubExprs(text'))}
           written == ToSet(SubExprs(text) \o SubExprs(text'))
<1> SUFFICES ASSUME RowsInv, MeantIsHeld, [Next]_vars, stage = "stored", updates' > updates,
                    before = after, \A m1, m2 \in before : SameKeyFields(m1, m2) => m1 = m2,
                    \A s \in written : Clean(s)
             PROVE  diff'.added \cup diff'.changed = {}
  BY DEF SameMeaningStep, Clean
<1>1. updates \in Nat /\ text \in Texts \cup Edits
  BY DEF RowsInv
<1>2. PICK t \in Edits : Update(t)
  BY <1>1 DEF Next, Create, vars
<1>3. text' = t
  BY <1>2 DEF Update
<1>4. text \in Seq(Tokens) /\ t \in Seq(Tokens) /\ t \in Texts \cup Edits
  BY <1>1, WantedAre
<1>5. AllClean(text) /\ AllClean(t)
  BY <1>3, <1>4, BothWritten DEF AllClean
<1>6. before = Wanted(text) /\ after = Wanted(t)
  BY <1>1, <1>3, <1>4, <1>5, CleanMeaning
<1>7. OneTestEach(Wanted(text))
  BY <1>6 DEF OneTestEach, SameKeyFields
<1>8. \A e \in Wanted(t) : \E row \in rows : Value(Read(row)) = e
  BY <1>5, <1>6, <1>7 DEF MeantIsHeld, HeldBy
<1> QED
  BY <1>2, <1>8, NothingNew

------------------------------------------------------------------------------
(* The theorems of the specification.                                      *)

\* The inductive invariant.
Stored == RowsInv /\ NothingYet /\ MeantIsHeld /\ EventTellsTheRows

\* The rows of a definition have one id each and whole numbers in their columns, there
\* are none before it is stored, they hold whatever its expression means unless the
\* expression is spelled in a way the columns do not keep, and the last event tells
\* them (create_alarm_definition, update_or_patch_alarm_definition).
THEOREM StoredAlways == Spec => []Stored
<1>1. Init => Stored
  BY RowsInit DEF Init, Stored, NothingYet, MeantIsHeld, EventTellsTheRows
<1>2. Stored /\ [Next]_vars => Stored'
  BY RowsStep, HeldStep, EventStep DEF Stored
<1> QED
  BY <1>1, <1>2, PTL DEF Spec

\* Whatever is posted: the parser takes the well-formed texts, and finds all of their
\* sub-expressions (AlarmExprParser in _alarm_definition_create and _update_or_patch).
THEOREM PostedTextsAreRead == Spec => []ParserReadsTheLanguage
<1>1. Stored => ParserReadsTheLanguage
  <2> SUFFICES ASSUME Stored PROVE ParserReadsTheLanguage
    OBVIOUS
  <2>1. text \in Seq(Tokens)
    BY TextsAssumption DEF Stored, RowsInv
  <2> QED
    BY <2>1, ParserIsTheGrammar DEF ParserReadsTheLanguage
<1> QED
  BY <1>1, StoredAlways, PTL

\* The engine reads in the last alarm-definition-created or -updated event what it would
\* read in table sub_alarm_definition, however numbers and metrics are spelled.
THEOREM EventsTellTheRows == Spec => []EventTellsTheRows
<1>1. Stored => EventTellsTheRows
  BY DEF Stored
<1> QED
  BY <1>1, StoredAlways, PTL

\* A PUT or PATCH that means what is stored adds and changes nothing, unless a metric
\* has capitals, a number leading zeros, or a threshold more digits than str() keeps.
THEOREM SpellingIsNoChange == Spec => SameMeaningChangesNothing
<1>1. Stored /\ [Next]_vars => SameMeaningStep
  BY MeaningStep DEF Stored
<1> QED
  BY <1>1, StoredAlways, PTL DEF Spec, SameMeaningChangesNothing, SameMeaningStep

==============================================================================
