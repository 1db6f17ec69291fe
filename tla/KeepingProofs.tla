--------------------------- MODULE KeepingProofs ---------------------------
(***************************************************************************)
(* What the proofs need to know of sequences: Keep is determined by its    *)
(* value for the empty sequence and for Append, and distributes over       *)
(* concatenation; Times adds up.                                           *)
(***************************************************************************)
EXTENDS Keeping, FiniteSetTheorems, SequenceTheorems, TLAPS

(* A nonempty set of naturals has a least element: what the proofs use in  *)
(* the place of an induction rule.                                         *)
LEMMA LeastNatural ==
    ASSUME NEW S, S \subseteq Nat, S # {}
    PROVE  \E n \in S : \A m \in S : n <= m
<1> DEFINE R == {ss \in Nat \X Nat : ss[1] < ss[2]}
<1>1. IsWellFoundedOn(R, Nat)
  BY NatLessThanWellFounded, Zenon DEF OpToRel
<1>2. \E n \in S : \A m \in S : <<m, n>> \notin R
  <2> HIDE DEF R
  <2> QED BY <1>1, WFMin, Zenon
<1>3. PICK n \in S : \A m \in S : <<m, n>> \notin R
  BY <1>2
<1>4. \A m \in S : ~ (m < n)
  BY <1>3
<1> QED BY <1>4

(* What the proofs use in the place of induction over sequences: when a    *)
(* set of sequences does not hold the empty one, it holds one that becomes *)
(* a member with its last element.                                         *)
LEMMA FirstBad ==
    ASSUME NEW T, NEW Bad, Bad \subseteq Seq(T), Bad # {}, << >> \notin Bad
    PROVE  \E s \in Seq(T), e \in T : s \notin Bad /\ Append(s, e) \in Bad
<1> DEFINE N == {Len(s) : s \in Bad}
<1>1. N \subseteq Nat
  BY LenProperties
<1>2. N # {}
  OBVIOUS
<1>3. PICK n \in N : \A m \in N : n <= m
  <2> HIDE DEF N
  <2> QED BY <1>1, <1>2, LeastNatural
<1>4. PICK t \in Bad : Len(t) = n
  BY DEF N
<1>5. PICK s \in Seq(T), e \in T : t = Append(s, e)
  BY <1>4, SequenceEmptyOrAppend
<1>6. Len(t) = Len(s) + 1 /\ Len(s) \in Nat
  BY <1>5, AppendProperties, LenProperties
<1>7. s \notin Bad
  <2>1. s \in Bad => n <= Len(s)
    BY <1>3
  <2> QED BY <2>1, <1>4, <1>6
<1> QED BY <1>4, <1>5, <1>7

-----------------------------------------------------------------------------
(* f tabulates Keep for the prefixes of s up to length n.                  *)
Table(f, s, S, n) ==
    f = [k \in 0..n |->
            IF k = 0 THEN << >>
            ELSE IF s[k] \in S THEN Append(f[k - 1], s[k])
            ELSE f[k - 1]]

HasTable(s, S, n) == \E f : Table(f, s, S, n)

(* The entries of a table.                                                 *)
LEMMA TableEntry ==
    ASSUME NEW f, NEW s, NEW S, NEW n \in Nat, Table(f, s, S, n)
    PROVE  /\ f[0] = << >>
           /\ \A k \in 1..n : f[k] = IF s[k] \in S THEN Append(f[k - 1], s[k])
                                     ELSE f[k - 1]
<1>1. \A k \in 0..n : f[k] = IF k = 0 THEN << >>
                             ELSE IF s[k] \in S THEN Append(f[k - 1], s[k])
                             ELSE f[k - 1]
  BY DEF Table
<1> QED BY <1>1

(* The recursion of Keep is well defined: every prefix has a table.        *)
LEMMA TableExists ==
    ASSUME NEW s, NEW S
    PROVE  \A n \in Nat : HasTable(s, S, n)
<1> DEFINE T == {n \in Nat : ~ HasTable(s, S, n)}
<1> SUFFICES ASSUME T # {} PROVE FALSE
  OBVIOUS
<1>2. PICK n \in T : \A m \in T : n <= m
  BY LeastNatural
<1>3. CASE n = 0
  <2>1. Table([k \in 0..0 |-> << >>], s, S, 0)
    BY DEF Table
  <2> QED BY <2>1, <1>3 DEF HasTable
<1>4. CASE n > 0
  <2>1. HasTable(s, S, n - 1)
    BY <1>2, <1>4
  <2>2. PICK f : Table(f, s, S, n - 1)
    BY <2>1 DEF HasTable
  <2> DEFINE g == [k \in 0..n |->
                      IF k < n THEN f[k]
                      ELSE IF s[n] \in S THEN Append(f[n - 1], s[n])
                      ELSE f[n - 1]]
  <2>3. ASSUME NEW k \in 0..n
        PROVE  g[k] = IF k = 0 THEN << >>
                      ELSE IF s[k] \in S THEN Append(g[k - 1], s[k])
                      ELSE g[k - 1]
    <3>1. CASE k = n
      BY <3>1, <1>4
    <3>2. CASE k < n
      <4>1. k \in 0..(n - 1)
        BY <3>2
      <4>2. f[k] = IF k = 0 THEN << >>
                   ELSE IF s[k] \in S THEN Append(f[k - 1], s[k])
                   ELSE f[k - 1]
        BY <4>1, <2>2 DEF Table
      <4>3. k # 0 => g[k - 1] = f[k - 1]
        BY <3>2
      <4> QED BY <4>2, <4>3, <3>2
    <3> QED BY <3>1, <3>2
  <2>4. Table(g, s, S, n)
    BY <2>3 DEF Table
  <2> QED BY <2>4 DEF HasTable
<1> QED BY <1>2, <1>3, <1>4

(* Tables of sequences that begin alike agree on that beginning.           *)
LEMMA TablesAgree ==
    ASSUME NEW s, NEW t, NEW S, NEW f, NEW g, NEW m \in Nat, NEW n \in Nat,
           m <= n, Table(f, s, S, m), Table(g, t, S, n),
           \A k \in 1..m : s[k] = t[k]
    PROVE  \A k \in 0..m : f[k] = g[k]
<1> DEFINE T == {k \in 0..m : f[k] # g[k]}
<1> SUFFICES ASSUME T # {} PROVE FALSE
  OBVIOUS
<1>1. T \subseteq Nat
  OBVIOUS
<1>2. PICK k \in T : \A l \in T : k <= l
  BY <1>1, LeastNatural
<1>3. /\ f[0] = << >> /\ g[0] = << >>
      /\ \A l \in 1..m : f[l] = IF s[l] \in S THEN Append(f[l - 1], s[l])
                                ELSE f[l - 1]
  BY TableEntry
<1>4. \A l \in 1..n : g[l] = IF t[l] \in S THEN Append(g[l - 1], t[l])
                             ELSE g[l - 1]
  BY TableEntry
<1>5. k # 0 => f[k - 1] = g[k - 1]
  BY <1>2
<1> QED BY <1>2, <1>3, <1>4, <1>5

(* Keep is the last entry of a table.                                      *)
LEMMA KeepTable ==
    ASSUME NEW s, Len(s) \in Nat, NEW S
    PROVE  \E f : Table(f, s, S, Len(s)) /\ Keep(s, S) = f[Len(s)]
<1> DEFINE kept[n \in 0..Len(s)] ==
                IF n = 0 THEN << >>
                ELSE IF s[n] \in S THEN Append(kept[n - 1], s[n])
                ELSE kept[n - 1]
<1> DEFINE IsTable(f) ==
      f = [n \in 0..Len(s) |->
              IF n = 0 THEN << >>
              ELSE IF s[n] \in S THEN Append(f[n - 1], s[n])
              ELSE f[n - 1]]
<1>1. \E f : IsTable(f)
  <2>1. HasTable(s, S, Len(s))
    BY TableExists
  <2> QED BY <2>1 DEF HasTable, Table
<1>2. IsTable(kept)
  <2> HIDE DEF IsTable
  <2>1. IsTable(CHOOSE f : IsTable(f))
    BY <1>1
  <2> QED BY <2>1 DEF IsTable
<1>3. Table(kept, s, S, Len(s))
  BY <1>2 DEF Table
<1>4. Keep(s, S) = kept[Len(s)]
  BY DEF Keep
<1> HIDE DEF kept, IsTable
<1> QED BY <1>3, <1>4

-----------------------------------------------------------------------------
(* Keep of the empty sequence, and of one with an element more.            *)
LEMMA KeepEmpty == ASSUME NEW S PROVE Keep(<< >>, S) = << >>
<1>1. Len(<< >>) = 0
  OBVIOUS
<1>2. PICK f : Table(f, << >>, S, 0) /\ Keep(<< >>, S) = f[0]
  BY <1>1, KeepTable
<1> QED BY <1>2, TableEntry

(* One more element is kept when it is in the set.                         *)
LEMMA KeepAppend ==
    ASSUME NEW T, NEW s \in Seq(T), NEW x, NEW S
    PROVE  Keep(Append(s, x), S) = IF x \in S THEN Append(Keep(s, S), x)
                                   ELSE Keep(s, S)
<1> DEFINE t == Append(s, x)
<1>1. /\ Len(s) \in Nat /\ Len(t) = Len(s) + 1
      /\ \A k \in 1..Len(s) : s[k] = t[k]
      /\ t[Len(s) + 1] = x
  OBVIOUS
<1> HIDE DEF t
<1>2. PICK f : Table(f, s, S, Len(s)) /\ Keep(s, S) = f[Len(s)]
  BY <1>1, KeepTable
<1>3. PICK g : Table(g, t, S, Len(s) + 1) /\ Keep(t, S) = g[Len(s) + 1]
  BY <1>1, KeepTable
<1>4. f[Len(s)] = g[Len(s)]
  BY <1>1, <1>2, <1>3, TablesAgree
<1>5. g[Len(s) + 1] = IF t[Len(s) + 1] \in S
                      THEN Append(g[Len(s)], t[Len(s) + 1]) ELSE g[Len(s)]
  <2>1. \A k \in 1..(Len(s) + 1) :
           g[k] = IF t[k] \in S THEN Append(g[k - 1], t[k]) ELSE g[k - 1]
    BY <1>1, <1>3, TableEntry
  <2> QED BY <1>1, <2>1
<1> QED BY <1>1, <1>2, <1>3, <1>4, <1>5 DEF t

(* Keep returns a sequence of elements that are kept.                      *)
LEMMA KeepType ==
    ASSUME NEW T, NEW S
    PROVE  \A s \in Seq(T) : Keep(s, S) \in Seq(T \cap S)
<1> DEFINE Bad == {s \in Seq(T) : Keep(s, S) \notin Seq(T \cap S)}
<1> SUFFICES ASSUME Bad # {} PROVE FALSE
  OBVIOUS
<1>1. << >> \notin Bad
  <2>1. Keep(<< >>, S) = << >>
    BY KeepEmpty
  <2>2. << >> \in Seq(T \cap S)
    BY EmptySeq
  <2> QED BY <2>1, <2>2
<1>2. PICK s \in Seq(T), e \in T : s \notin Bad /\ Append(s, e) \in Bad
  <2>1. Bad \subseteq Seq(T)
    OBVIOUS
  <2> HIDE DEF Bad
  <2> QED BY <1>1, <2>1, FirstBad
<1>3. Keep(s, S) \in Seq(T \cap S)
  BY <1>2
<1>4. Keep(Append(s, e), S) = IF e \in S THEN Append(Keep(s, S), e)
                              ELSE Keep(s, S)
  BY KeepAppend
<1>5. e \in S => Append(Keep(s, S), e) \in Seq(T \cap S)
  BY <1>3
<1>6. Keep(Append(s, e), S) \in Seq(T \cap S)
  BY <1>3, <1>4, <1>5
<1> QED BY <1>2, <1>6

(* What is kept is a sequence of elements of both sets.                    *)
LEMMA KeepIsSeq ==
    ASSUME NEW T, NEW S, NEW s \in Seq(T)
    PROVE  Keep(s, S) \in Seq(T) /\ Keep(s, S) \in Seq(S)
<1>1. Keep(s, S) \in Seq(T \cap S)
  BY KeepType
<1>2. T \cap S \subseteq T /\ T \cap S \subseteq S
  OBVIOUS
<1> QED BY <1>1, <1>2, SeqMonotonic

(* What a concatenation is made of.                                        *)
LEMMA ConcatParts ==
    ASSUME NEW T, NEW s \in Seq(T), NEW t \in Seq(T)
    PROVE  /\ Len(s \o t) = Len(s) + Len(t)
           /\ SubSeq(s \o t, 1, Len(s)) = s
           /\ SubSeq(s \o t, Len(s) + 1, Len(s \o t)) = t
<1> DEFINE u == s \o t
<1>1. /\ u \in Seq(T) /\ Len(u) = Len(s) + Len(t)
      /\ \A k \in 1..Len(s) : u[k] = s[k]
      /\ \A k \in 1..Len(t) : u[Len(s) + k] = t[k]
      /\ Len(s) \in Nat /\ Len(t) \in Nat
  OBVIOUS
<1> HIDE DEF u
<1>2. SubSeq(u, 1, Len(s)) = s
  <2>1. /\ SubSeq(u, 1, Len(s)) \in Seq(T)
        /\ Len(SubSeq(u, 1, Len(s))) = Len(s)
        /\ \A k \in 1..Len(s) : SubSeq(u, 1, Len(s))[k] = u[k]
    BY <1>1
  <2> QED BY <1>1, <2>1, SeqEqual
<1>3. SubSeq(u, Len(s) + 1, Len(u)) = t
  <2>1. /\ SubSeq(u, Len(s) + 1, Len(u)) \in Seq(T)
        /\ Len(SubSeq(u, Len(s) + 1, Len(u))) = Len(t)
        /\ \A k \in 1..Len(t) : SubSeq(u, Len(s) + 1, Len(u))[k] = u[Len(s) + k]
    BY <1>1
  <2> QED BY <1>1, <2>1, SeqEqual
<1> QED BY <1>1, <1>2, <1>3 DEF u

(* The elements of a concatenation.                                        *)
LEMMA ConcatAt ==
    ASSUME NEW T, NEW s \in Seq(T), NEW t \in Seq(T)
    PROVE  /\ s \o t \in Seq(T) /\ Len(s \o t) = Len(s) + Len(t)
           /\ \A k \in 1..Len(s) : (s \o t)[k] = s[k]
           /\ \A k \in 1..Len(t) : (s \o t)[Len(s) + k] = t[k]
OBVIOUS

(* What precedes the last element.                                         *)
LEMMA FrontAppend ==
    ASSUME NEW T, NEW s \in Seq(T), NEW e
    PROVE  SubSeq(Append(s, e), 1, Len(Append(s, e)) - 1) = s
<1> DEFINE t == Append(s, e)
           u == SubSeq(t, 1, Len(t) - 1)
<1>1. /\ Len(t) = Len(s) + 1 /\ Len(s) \in Nat
      /\ \A k \in 1..Len(s) : t[k] = s[k] /\ s[k] \in T
  OBVIOUS
<1> HIDE DEF t
<1>2. /\ u \in Seq(T) /\ Len(u) = Len(s)
      /\ \A k \in 1..Len(s) : u[k] = s[k]
  <2>1. Len(t) - 1 = Len(s) /\ \A k \in 1..Len(s) : t[k] \in T
    BY <1>1
  <2>2. /\ SubSeq(t, 1, Len(s)) \in Seq(T)
        /\ Len(SubSeq(t, 1, Len(s))) =
              IF 1 <= Len(s) THEN Len(s) - 1 + 1 ELSE 0
        /\ \A k \in 1..(Len(s) - 1 + 1) :
              SubSeq(t, 1, Len(s))[k] = t[1 + k - 1]
    BY <1>1, <2>1, SubSeqProperties
  <2> HIDE DEF u
  <2>3. u = SubSeq(t, 1, Len(s))
    BY <2>1 DEF u
  <2>4. Len(u) = Len(s) /\ u \in Seq(T)
    BY <1>1, <2>2, <2>3
  <2>5. ASSUME NEW k \in 1..Len(s) PROVE u[k] = s[k]
    <3>1. u[k] = t[1 + k - 1] /\ 1 + k - 1 = k
      BY <1>1, <2>2, <2>3
    <3> QED BY <1>1, <3>1
  <2> QED BY <2>4, <2>5
<1> QED BY <1>2, SeqEqual DEF t

(* Appending to the second part appends to the whole.                      *)
LEMMA AppendConcat ==
    ASSUME NEW T, NEW s \in Seq(T), NEW t \in Seq(T), NEW e \in T
    PROVE  s \o Append(t, e) = Append(s \o t, e) /\ s \o t \in Seq(T)
OBVIOUS

(* Keep distributes over concatenation.                                    *)
LEMMA KeepConcat ==
    ASSUME NEW T, NEW S, NEW s \in Seq(T)
    PROVE  \A t \in Seq(T) : Keep(s \o t, S) = Keep(s, S) \o Keep(t, S)
<1> DEFINE Bad == {t \in Seq(T) : Keep(s \o t, S) # Keep(s, S) \o Keep(t, S)}
<1> SUFFICES ASSUME Bad # {} PROVE FALSE
  OBVIOUS
<1>1. << >> \notin Bad
  <2>1. Keep(s, S) \in Seq(T)
    BY KeepIsSeq
  <2>2. s \o << >> = s /\ Keep(s, S) \o << >> = Keep(s, S)
    BY <2>1, ConcatEmptySeq
  <2> QED BY <2>2, KeepEmpty
<1>2. PICK t \in Seq(T), e \in T : t \notin Bad /\ Append(t, e) \in Bad
  <2>1. Bad \subseteq Seq(T)
    OBVIOUS
  <2> HIDE DEF Bad
  <2> QED BY <1>1, <2>1, FirstBad
<1>3. Keep(s \o t, S) = Keep(s, S) \o Keep(t, S)
  BY <1>2
<1>4. s \o Append(t, e) = Append(s \o t, e) /\ s \o t \in Seq(T)
  BY AppendConcat
<1>5. Keep(s \o Append(t, e), S) = IF e \in S THEN Append(Keep(s \o t, S), e)
                                   ELSE Keep(s \o t, S)
  BY <1>4, KeepAppend
<1>6. Keep(Append(t, e), S) = IF e \in S THEN Append(Keep(t, S), e)
                              ELSE Keep(t, S)
  BY KeepAppend
<1>7. Keep(s, S) \in Seq(T) /\ Keep(t, S) \in Seq(T)
  BY KeepIsSeq
<1>8. Keep(s, S) \o Append(Keep(t, S), e) = Append(Keep(s, S) \o Keep(t, S), e)
  <2>1. ASSUME NEW u \in Seq(T), NEW v \in Seq(T)
        PROVE  u \o Append(v, e) = Append(u \o v, e)
    BY AppendConcat
  <2> QED BY <1>7, <2>1, Zenon
<1>9. Keep(s \o Append(t, e), S) = Keep(s, S) \o Keep(Append(t, e), S)
  BY <1>3, <1>5, <1>6, <1>8, Zenon
<1> QED BY <1>2, <1>9

(* Keep makes no sequence longer; it changes nothing when every element is *)
(* kept, and leaves nothing when none is; only the elements that the       *)
(* sequence may have matter.                                               *)
LEMMA KeepLen ==
    ASSUME NEW T, NEW S
    PROVE  \A s \in Seq(T) : Len(Keep(s, S)) <= Len(s)
<1> DEFINE Bad == {s \in Seq(T) : ~ (Len(Keep(s, S)) <= Len(s))}
<1> SUFFICES ASSUME Bad # {} PROVE FALSE
  OBVIOUS
<1>1. << >> \notin Bad
  BY KeepEmpty
<1>2. PICK s \in Seq(T), e \in T : s \notin Bad /\ Append(s, e) \in Bad
  <2>1. Bad \subseteq Seq(T)
    OBVIOUS
  <2> HIDE DEF Bad
  <2> QED BY <1>1, <2>1, FirstBad
<1>3. Len(Keep(s, S)) <= Len(s)
  BY <1>2
<1>4. Keep(Append(s, e), S) = IF e \in S THEN Append(Keep(s, S), e)
                              ELSE Keep(s, S)
  BY KeepAppend
<1>5. Keep(s, S) \in Seq(T)
  BY KeepIsSeq
<1>6. /\ Len(Append(Keep(s, S), e)) = Len(Keep(s, S)) + 1
      /\ Len(Append(s, e)) = Len(s) + 1
      /\ Len(Keep(s, S)) \in Nat /\ Len(s) \in Nat
  BY <1>5
<1>7. Len(Keep(Append(s, e), S)) <= Len(Append(s, e))
  BY <1>3, <1>4, <1>6
<1> QED BY <1>2, <1>7

(* A sequence of elements of the set is kept as it is.                     *)
LEMMA KeepAll ==
    ASSUME NEW S
    PROVE  \A s \in Seq(S) : Keep(s, S) = s
<1> DEFINE Bad == {s \in Seq(S) : Keep(s, S) # s}
<1> SUFFICES ASSUME Bad # {} PROVE FALSE
  OBVIOUS
<1>1. << >> \notin Bad
  BY KeepEmpty
<1>2. PICK s \in Seq(S), e \in S : s \notin Bad /\ Append(s, e) \in Bad
  <2>1. Bad \subseteq Seq(S)
    OBVIOUS
  <2> HIDE DEF Bad
  <2> QED BY <1>1, <2>1, FirstBad
<1>3. Keep(s, S) = s
  BY <1>2
<1>4. Keep(Append(s, e), S) = Append(Keep(s, S), e)
  BY KeepAppend
<1> QED BY <1>2, <1>3, <1>4

(* Nothing is kept of a sequence without elements of the set.              *)
LEMMA KeepNone ==
    ASSUME NEW T, NEW S, T \cap S = {}, NEW s \in Seq(T)
    PROVE  Keep(s, S) = << >>
<1>1. Keep(s, S) \in Seq({})
  BY KeepType
<1> QED BY <1>1

-----------------------------------------------------------------------------
(* The places of x in a sequence are finite in number; one element more,   *)
(* and a second sequence, add up.                                          *)
LEMMA TimesType ==
    ASSUME NEW T, NEW s \in Seq(T), NEW x
    PROVE  IsFiniteSet({k \in 1..Len(s) : s[k] = x}) /\ Times(x, s) \in Nat
<1>1. Len(s) \in Nat
  OBVIOUS
<1>2. IsFiniteSet(1..Len(s))
  BY <1>1, FS_Interval
<1>3. IsFiniteSet({k \in 1..Len(s) : s[k] = x})
  BY <1>2, FS_Subset
<1> QED BY <1>3, FS_CardinalityType DEF Times

(* Nothing is in the empty sequence.                                       *)
LEMMA TimesEmpty == ASSUME NEW x PROVE Times(x, << >>) = 0
<1>1. {k \in 1..Len(<< >>) : << >>[k] = x} = {}
  OBVIOUS
<1> QED BY <1>1, FS_EmptySet DEF Times

(* One more element counts once.                                           *)
LEMMA TimesAppend ==
    ASSUME NEW T, NEW s \in Seq(T), NEW e \in T, NEW x
    PROVE  Times(x, Append(s, e)) = Times(x, s) + (IF e = x THEN 1 ELSE 0)
<1> DEFINE t == Append(s, e)
           P == {k \in 1..Len(s) : s[k] = x}
           Q == {k \in 1..Len(t) : t[k] = x}
<1>1. /\ Len(s) \in Nat /\ Len(t) = Len(s) + 1
      /\ \A k \in 1..Len(s) : t[k] = s[k]
      /\ t[Len(s) + 1] = e
  OBVIOUS
<1>2. IsFiniteSet(P) /\ Cardinality(P) \in Nat
  BY TimesType DEF Times
<1>3. Times(x, t) = Cardinality(Q) /\ Times(x, s) = Cardinality(P)
  BY DEF Times
<1>4. CASE e = x
  <2>1. Q = P \cup {Len(s) + 1} /\ Len(s) + 1 \notin P
    <3> HIDE DEF t
    <3> QED BY <1>1, <1>4
  <2> HIDE DEF P, Q, t
  <2>2. Cardinality(Q) = Cardinality(P) + 1
    BY <1>2, <2>1, FS_AddElement
  <2> QED BY <1>3, <1>4, <2>2 DEF t
<1>5. CASE e # x
  <2>1. Q = P
    <3> HIDE DEF t
    <3> QED BY <1>1, <1>5
  <2> HIDE DEF P, Q, t
  <2> QED BY <1>2, <1>3, <1>5, <2>1 DEF t
<1> QED BY <1>4, <1>5

(* Counts add up over a concatenation.                                     *)
LEMMA TimesConcat ==
    ASSUME NEW T, NEW s \in Seq(T), NEW x
    PROVE  \A t \in Seq(T) : Times(x, s \o t) = Times(x, s) + Times(x, t)
<1> DEFINE Bad == {t \in Seq(T) : Times(x, s \o t) # Times(x, s) + Times(x, t)}
<1> SUFFICES ASSUME Bad # {} PROVE FALSE
  OBVIOUS
<1>0. Times(x, s) \in Nat /\ \A u \in Seq(T) : Times(x, u) \in Nat
  BY TimesType
<1>1. << >> \notin Bad
  <2>1. s \o << >> = s
    BY ConcatEmptySeq
  <2> QED BY <1>0, <2>1, TimesEmpty
<1>2. PICK t \in Seq(T), e \in T : t \notin Bad /\ Append(t, e) \in Bad
  <2>1. Bad \subseteq Seq(T)
    OBVIOUS
  <2> HIDE DEF Bad
  <2> QED BY <1>1, <2>1, FirstBad
<1>3. Times(x, s \o t) = Times(x, s) + Times(x, t)
  BY <1>2
<1>4. s \o Append(t, e) = Append(s \o t, e) /\ s \o t \in Seq(T)
  BY AppendConcat
<1>5. Times(x, s \o Append(t, e)) = Times(x, s \o t) + (IF e = x THEN 1 ELSE 0)
  <2>1. Times(x, Append(s \o t, e)) = Times(x, s \o t) + (IF e = x THEN 1 ELSE 0)
    BY <1>4, TimesAppend, Zenon
  <2> QED BY <1>4, <2>1
<1>6. Times(x, Append(t, e)) = Times(x, t) + (IF e = x THEN 1 ELSE 0)
  BY TimesAppend
<1>7. Times(x, s) \in Nat /\ Times(x, t) \in Nat
  BY <1>0
<1>8. Times(x, s \o Append(t, e)) = Times(x, s) + Times(x, Append(t, e))
  BY <1>3, <1>5, <1>6, <1>7
<1> QED BY <1>2, <1>8

(* A prefix and the rest of a sequence; a prefix and its last element.     *)
LEMMA CutAt ==
    ASSUME NEW T, NEW s \in Seq(T), NEW n \in 0..Len(s)
    PROVE  /\ SubSeq(s, 1, n) \in Seq(T) /\ Len(SubSeq(s, 1, n)) = n
           /\ \A k \in 1..n : SubSeq(s, 1, n)[k] = s[k]
           /\ SubSeq(s, n + 1, Len(s)) \in Seq(T)
           /\ Len(SubSeq(s, n + 1, Len(s))) = Len(s) - n
           /\ \A k \in 1..(Len(s) - n) : SubSeq(s, n + 1, Len(s))[k] = s[n + k]
OBVIOUS

(* A sequence is one of whatever all its elements are.                     *)
LEMMA SeqOf ==
    ASSUME NEW T, NEW S, NEW s \in Seq(T), \A k \in 1..Len(s) : s[k] \in S
    PROVE  s \in Seq(S)
OBVIOUS

(* A sequence is its two halves.                                           *)
LEMMA Halves ==
    ASSUME NEW T, NEW s \in Seq(T), NEW n \in 0..Len(s)
    PROVE  SubSeq(s, 1, n) \o SubSeq(s, n + 1, Len(s)) = s
<1> DEFINE p == SubSeq(s, 1, n)
           q == SubSeq(s, n + 1, Len(s))
<1>1. /\ p \in Seq(T) /\ Len(p) = n /\ \A k \in 1..n : p[k] = s[k]
      /\ q \in Seq(T) /\ Len(q) = Len(s) - n
      /\ \A k \in 1..(Len(s) - n) : q[k] = s[n + k]
      /\ Len(s) \in Nat
  BY CutAt
<1> HIDE DEF p, q
<1>2. /\ p \o q \in Seq(T) /\ Len(p \o q) = Len(p) + Len(q)
      /\ \A k \in 1..Len(p) : (p \o q)[k] = p[k]
      /\ \A k \in 1..Len(q) : (p \o q)[Len(p) + k] = q[k]
  BY <1>1, ConcatAt
<1> DEFINE r == p \o q
<1> HIDE DEF r
<1>3. /\ r \in Seq(T) /\ Len(r) = Len(s)
      /\ \A k \in 1..n : r[k] = s[k]
      /\ \A k \in 1..(Len(s) - n) : r[n + k] = s[n + k]
  BY <1>1, <1>2 DEF r
<1>4. ASSUME NEW k \in 1..Len(s)
      PROVE  r[k] = s[k]
  <2>1. CASE k <= n
    BY <1>3, <2>1
  <2>2. CASE k > n
    <3>1. k - n \in 1..(Len(s) - n) /\ n + (k - n) = k
      BY <1>1, <2>2
    <3> QED BY <1>3, <3>1
  <2> QED BY <2>1, <2>2
<1>5. r = s
  BY <1>3, <1>4, SeqEqual
<1> QED BY <1>5 DEF r, p, q

(* A longer prefix has one element more.                                   *)
LEMMA PrefixAppend ==
    ASSUME NEW T, NEW s \in Seq(T), NEW k \in 1..Len(s)
    PROVE  SubSeq(s, 1, k) = Append(SubSeq(s, 1, k - 1), s[k])
<1> DEFINE p == SubSeq(s, 1, k - 1)
           r == SubSeq(s, 1, k)
<1>1. k - 1 \in 0..Len(s) /\ k \in 0..Len(s) /\ s[k] \in T
  OBVIOUS
<1>2. /\ p \in Seq(T) /\ Len(p) = k - 1 /\ \A l \in 1..(k - 1) : p[l] = s[l]
      /\ r \in Seq(T) /\ Len(r) = k /\ \A l \in 1..k : r[l] = s[l]
  BY <1>1, CutAt
<1> HIDE DEF p, r
<1>3. /\ Append(p, s[k]) \in Seq(T) /\ Len(Append(p, s[k])) = k
      /\ \A l \in 1..k : Append(p, s[k])[l] = s[l]
  BY <1>1, <1>2
<1>4. r = Append(p, s[k])
  BY <1>2, <1>3, SeqEqual
<1> QED BY <1>4 DEF p, r

(* Taking the k-th element out of a sequence.                              *)
Without(s, k) == SubSeq(s, 1, k - 1) \o SubSeq(s, k + 1, Len(s))

(* The element at k parts a sequence.                                      *)
LEMMA TakenOut ==
    ASSUME NEW T, NEW s \in Seq(T), NEW k \in 1..Len(s)
    PROVE  /\ SubSeq(s, 1, k - 1) \in Seq(T)
           /\ SubSeq(s, k + 1, Len(s)) \in Seq(T)
           /\ s = Append(SubSeq(s, 1, k - 1), s[k]) \o SubSeq(s, k + 1, Len(s))
<1>1. k - 1 \in 0..Len(s) /\ k \in 0..Len(s)
  OBVIOUS
<1>2. SubSeq(s, 1, k - 1) \in Seq(T) /\ SubSeq(s, k + 1, Len(s)) \in Seq(T)
  BY <1>1, CutAt
<1>3. SubSeq(s, 1, k) \o SubSeq(s, k + 1, Len(s)) = s
  BY <1>1, Halves
<1>4. SubSeq(s, 1, k) = Append(SubSeq(s, 1, k - 1), s[k])
  BY PrefixAppend
<1> QED BY <1>2, <1>3, <1>4, Zenon

(* One element less counts once less.                                      *)
LEMMA TimesTaken ==
    ASSUME NEW T, NEW s \in Seq(T), NEW k \in 1..Len(s), NEW x
    PROVE  Times(x, s) = Times(x, Without(s, k)) + (IF s[k] = x THEN 1 ELSE 0)
<1> DEFINE p == SubSeq(s, 1, k - 1)
           q == SubSeq(s, k + 1, Len(s))
<1>0. p \in Seq(T) /\ q \in Seq(T)
  BY TakenOut
<1>1. s = Append(p, s[k]) \o q /\ Without(s, k) = p \o q
  BY TakenOut DEF Without
<1> HIDE DEF p, q
<1>2. s[k] \in T
  OBVIOUS
<1> DEFINE e == s[k]
           r == Append(p, e)
<1> HIDE DEF e, r
<1>3. r \in Seq(T)
  BY <1>0, <1>2 DEF r, e
<1>4. Times(x, r \o q) = Times(x, r) + Times(x, q)
  BY <1>0, <1>3, TimesConcat
<1>5. Times(x, r) = Times(x, p) + (IF e = x THEN 1 ELSE 0)
  BY <1>0, <1>2, TimesAppend DEF r, e
<1>6. Times(x, p \o q) = Times(x, p) + Times(x, q)
  BY <1>0, TimesConcat
<1>7. Times(x, p) \in Nat /\ Times(x, q) \in Nat
  BY <1>0, TimesType
<1>8. Times(x, r \o q) = Times(x, p \o q) + (IF e = x THEN 1 ELSE 0)
  BY <1>4, <1>5, <1>6, <1>7
<1>9. s = r \o q
  BY <1>1 DEF r, e
<1> QED BY <1>1, <1>8, <1>9, Zenon DEF e

(* Taking out an element that is not kept changes nothing.                 *)
LEMMA KeepTaken ==
    ASSUME NEW T, NEW S, NEW s \in Seq(T), NEW k \in 1..Len(s), s[k] \notin S
    PROVE  Keep(s, S) = Keep(Without(s, k), S)
<1> DEFINE p == SubSeq(s, 1, k - 1)
           q == SubSeq(s, k + 1, Len(s))
<1>0. p \in Seq(T) /\ q \in Seq(T)
  BY TakenOut
<1>1. s = Append(p, s[k]) \o q /\ Without(s, k) = p \o q
  BY TakenOut DEF Without
<1> HIDE DEF p, q
<1>2. s[k] \in T
  OBVIOUS
<1> DEFINE r == Append(p, s[k])
<1>3. r \in Seq(T)
  BY <1>0, <1>2
<1>4. Keep(r, S) = Keep(p, S)
  BY <1>0, KeepAppend
<1> HIDE DEF r
<1>5. Keep(r \o q, S) = Keep(r, S) \o Keep(q, S)
  BY <1>0, <1>3, KeepConcat
<1>6. Keep(p \o q, S) = Keep(p, S) \o Keep(q, S)
  BY <1>0, KeepConcat
<1>7. s = r \o q
  BY <1>1 DEF r
<1> QED BY <1>1, <1>4, <1>5, <1>6, <1>7, Zenon
=============================================================================
