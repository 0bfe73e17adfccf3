--------------------------- MODULE ConnectorProofs --------------------------
(***************************************************************************)
(* What the connectors list, what their readers announce and give to a     *)
(* client, and what they leave at the source, for any catalogs, tables,    *)
(* requests, sizes of batches and failures.                                *)
(***************************************************************************)
EXTENDS TableListing, DataReaders, SequenceTheorems, FiniteSetTheorems, WellFoundedInduction, TLAPS

(***************************************************************************)
(* Sequences.  The provers know no induction; a least counterexample is    *)
(* what stands for it.                                                     *)
(***************************************************************************)
LEMMA LeastNat ==
    ASSUME NEW T, T \subseteq Nat, T # {}
    PROVE  \E m \in T : \A n \in T : m <= n
<1> DEFINE R == OpToRel(<, Nat)
<1>1. IsWellFoundedOn(R, Nat)
    BY NatLessThanWellFounded
<1>2. \A x, y \in Nat : y < x => <<y, x>> \in R
    BY DEF OpToRel
<1> HIDE DEF R
<1>3. \E x \in T : \A y \in T : ~ (<<y, x>> \in R)
    BY <1>1, WFMin
<1>4. PICK x \in T : \A y \in T : ~ (y < x)
    BY <1>2, <1>3
<1> QED
    BY <1>4

\* A set of numbers that has 0, and with a number the next one, has all of
\* them up to n.
LEMMA Inductive ==
    ASSUME NEW n \in Nat, NEW G, 0 \in G, \A i \in 0 .. n - 1 : i \in G => i + 1 \in G
    PROVE  0 .. n \subseteq G
<1> DEFINE T == {i \in 0 .. n : i \notin G}
<1> SUFFICES ASSUME T # {} PROVE FALSE
    OBVIOUS
<1>1. T \subseteq Nat
    OBVIOUS
<1>2. PICK m \in T : \A i \in T : m <= i
    BY <1>1, LeastNat
<1>3. m # 0 /\ m - 1 \in 0 .. n - 1 /\ m - 1 \notin T /\ m = (m - 1) + 1
    BY <1>2
<1> QED
    BY <1>2, <1>3

\* Only, step by step.
OnlySteps(f, s, S) ==
    /\ f[0] = <<>>
    /\ \A i \in 1 .. Len(s) : f[i] = IF s[i] \in S THEN Append(f[i - 1], s[i]) ELSE f[i - 1]

LEMMA OnlyDef ==
    ASSUME NEW A, NEW s \in Seq(A), NEW S
    PROVE  \E f \in [0 .. Len(s) -> Seq(A \cap S)] :
             Only(s, S) = f[Len(s)] /\ OnlySteps(f, s, S)
<1> DEFINE Next1(f, i) == IF i = 0 THEN <<>> ELSE IF s[i] \in S THEN Append(f[i - 1], s[i]) ELSE f[i - 1]
           Good(n) == \E f \in [0 .. n -> Seq(A \cap S)] : \A i \in 0 .. n : f[i] = Next1(f, i)
           N == Len(s)
<1>0. N \in Nat
    BY LenProperties
<1> HIDE DEF N
<1>1. Good(0)
    <2> DEFINE e == [i \in 0 .. 0 |-> <<>>]
    <2>1. e \in [0 .. 0 -> Seq(A \cap S)] /\ \A i \in 0 .. 0 : e[i] = Next1(e, i)
        OBVIOUS
    <2> QED
        BY <2>1
<1>2. ASSUME NEW n \in 0 .. N - 1, Good(n) PROVE Good(n + 1)
    <2>1. PICK f \in [0 .. n -> Seq(A \cap S)] : \A i \in 0 .. n : f[i] = Next1(f, i)
        BY <1>2
    <2> DEFINE x == IF s[n + 1] \in S THEN Append(f[n], s[n + 1]) ELSE f[n]
               g == [i \in 0 .. n + 1 |-> IF i = n + 1 THEN x ELSE f[i]]
    <2>2. n + 1 \in 1 .. N /\ n \in 0 .. n /\ s[n + 1] \in A
        BY <1>0, ElementOfSeq DEF N
    <2>3. x \in Seq(A \cap S)
        BY <2>2
    <2>4. g \in [0 .. n + 1 -> Seq(A \cap S)]
        BY <2>3
    <2>5. \A i \in 0 .. n + 1 : g[i] = Next1(g, i)
        <3> SUFFICES ASSUME NEW i \in 0 .. n + 1 PROVE g[i] = Next1(g, i)
            OBVIOUS
        <3>1. CASE i = n + 1
            <4>1. g[n] = f[n] /\ n = i - 1 /\ i # 0
                BY <3>1
            <4> QED
                BY <3>1, <4>1
        <3>2. CASE i # n + 1
            <4>1. i \in 0 .. n /\ g[i] = f[i]
                BY <3>2
            <4>2. i # 0 => g[i - 1] = f[i - 1]
                BY <4>1
            <4> HIDE DEF g
            <4> QED
                BY <2>1, <4>1, <4>2
        <3> QED
            BY <3>1, <3>2
    <2> HIDE DEF g
    <2> QED
        BY <2>4, <2>5
<1>3. Good(N)
    <2> DEFINE G == {i \in Nat : Good(i)}
    <2> HIDE DEF Good
    <2>1. 0 \in G /\ \A i \in 0 .. N - 1 : i \in G => i + 1 \in G
        BY <1>0, <1>1, <1>2
    <2> HIDE DEF G
    <2>2. 0 .. N \subseteq G
        BY <1>0, <2>1, Inductive
    <2> QED
        BY <1>0, <2>2 DEF G
<1>4. PICK f \in [0 .. N -> Seq(A \cap S)] : \A i \in 0 .. N : f[i] = Next1(f, i)
    BY <1>3
<1> DEFINE h == CHOOSE g : g = [i \in 0 .. N |-> Next1(g, i)]
<1>5. f = [i \in 0 .. N |-> Next1(f, i)]
    BY <1>4
<1>6. h = [i \in 0 .. N |-> Next1(h, i)]
    BY <1>5
<1>7. Only(s, S) = h[N]
    BY DEF Only, N
<1> HIDE DEF h
<1>8. \A i \in 0 .. N : h[i] = Next1(h, i)
    BY <1>6
<1>9. h[N] = f[N]
    <2> DEFINE G == {i \in Nat : h[i] = f[i]}
    <2>1. 0 \in G
        BY <1>0, <1>4, <1>8
    <2>2. \A i \in 0 .. N - 1 : i \in G => i + 1 \in G
        <3> SUFFICES ASSUME NEW i \in 0 .. N - 1, h[i] = f[i] PROVE h[i + 1] = f[i + 1]
            OBVIOUS
        <3>1. i + 1 \in 0 .. N /\ i + 1 # 0 /\ (i + 1) - 1 = i
            BY <1>0
        <3> QED
            BY <1>4, <1>8, <3>1
    <2> HIDE DEF G
    <2>3. 0 .. N \subseteq G
        BY <1>0, <2>1, <2>2, Inductive
    <2> QED
        BY <1>0, <2>3 DEF G
<1>10. \A i \in 1 .. N : f[i] = IF s[i] \in S THEN Append(f[i - 1], s[i]) ELSE f[i - 1]
    <2> TAKE i \in 1 .. N
    <2>1. i \in 0 .. N /\ i # 0
        BY <1>0
    <2> QED
        BY <1>4, <2>1
<1>11. f[0] = <<>>
    BY <1>0, <1>4
<1> QED
    BY <1>4, <1>7, <1>9, <1>10, <1>11 DEF N, OnlySteps

LEMMA OnlyType ==
    ASSUME NEW A, NEW s \in Seq(A), NEW S
    PROVE  Only(s, S) \in Seq(A \cap S) /\ Only(s, S) \in Seq(A)
<1>1. PICK f \in [0 .. Len(s) -> Seq(A \cap S)] : Only(s, S) = f[Len(s)]
    BY OnlyDef
<1>2. Only(s, S) \in Seq(A \cap S)
    BY <1>1, LenProperties
<1> QED
    BY <1>2, SeqMonotonic

LEMMA OnlyEmpty == ASSUME NEW S PROVE Only(<<>>, S) = <<>>
<1> DEFINE e == <<>>
<1>1. e \in Seq({}) /\ Len(e) = 0
    OBVIOUS
<1> HIDE DEF e
<1>2. \E f \in [0 .. Len(e) -> Seq({} \cap S)] : Only(e, S) = f[Len(e)] /\ OnlySteps(f, e, S)
    BY <1>1, OnlyDef
<1>3. \E f : Only(e, S) = f[Len(e)] /\ f[0] = <<>>
    BY <1>2 DEF OnlySteps
<1> QED
    BY <1>1, <1>3 DEF e

LEMMA OnlyAppend ==
    ASSUME NEW A, NEW s \in Seq(A), NEW x \in A, NEW S
    PROVE  Only(Append(s, x), S) = IF x \in S THEN Append(Only(s, S), x) ELSE Only(s, S)
<1> DEFINE t == Append(s, x)
           N == Len(s)
<1>1. /\ t \in Seq(A) /\ Len(t) = N + 1 /\ N \in Nat /\ t[N + 1] = x
      /\ \A i \in 1 .. N : t[i] = s[i]
    BY AppendProperties, LenProperties
<1> HIDE DEF t
<1>2. PICK f \in [0 .. Len(s) -> Seq(A \cap S)] : Only(s, S) = f[Len(s)] /\ OnlySteps(f, s, S)
    BY OnlyDef
<1>3. PICK g \in [0 .. Len(t) -> Seq(A \cap S)] : Only(t, S) = g[Len(t)] /\ OnlySteps(g, t, S)
    BY <1>1, OnlyDef
<1>4. /\ Only(s, S) = f[N]
      /\ f[0] = <<>>
      /\ \A i \in 1 .. N : f[i] = IF s[i] \in S THEN Append(f[i - 1], s[i]) ELSE f[i - 1]
    BY <1>2 DEF OnlySteps
<1> HIDE DEF N
<1>5. /\ Only(t, S) = g[N + 1]
      /\ g[0] = <<>>
      /\ \A i \in 1 .. N + 1 : g[i] = IF t[i] \in S THEN Append(g[i - 1], t[i]) ELSE g[i - 1]
    BY <1>1, <1>3 DEF OnlySteps
<1>6. g[N] = f[N]
    <2> DEFINE G == {i \in Nat : g[i] = f[i]}
    <2>1. 0 \in G
        BY <1>4, <1>5
    <2>2. \A i \in 0 .. N - 1 : i \in G => i + 1 \in G
        <3> SUFFICES ASSUME NEW i \in 0 .. N - 1, i \in G PROVE i + 1 \in G
            OBVIOUS
        <3>1. i + 1 \in 1 .. N /\ i + 1 \in 1 .. N + 1 /\ (i + 1) - 1 = i /\ i + 1 \in Nat
            BY <1>1
        <3>2. g[i + 1] = f[i + 1]
            BY <1>1, <1>4, <1>5, <3>1, ZenonT(30)
        <3> QED
            BY <3>1, <3>2
    <2> HIDE DEF G
    <2>3. 0 .. N \subseteq G
        BY <1>1, <2>1, <2>2, Inductive
    <2> QED
        BY <1>1, <2>3 DEF G
<1>7. N + 1 \in 1 .. N + 1 /\ (N + 1) - 1 = N
    BY <1>1
<1>8. Only(t, S) = IF x \in S THEN Append(g[N], x) ELSE g[N]
    BY <1>1, <1>5, <1>7
<1> QED
    BY <1>4, <1>6, <1>8 DEF t

\* Sequences grow by appending.
LEMMA SeqInductive ==
    ASSUME NEW A, NEW G, <<>> \in G, \A s \in Seq(A), x \in A : s \in G => Append(s, x) \in G
    PROVE  Seq(A) \subseteq G
<1> DEFINE T == {Len(s) : s \in Seq(A) \ G}
<1> SUFFICES ASSUME T # {} PROVE FALSE
    OBVIOUS
<1>1. T \subseteq Nat
    BY LenProperties
<1>2. PICK m \in T : \A i \in T : m <= i
    BY <1>1, LeastNat
<1>3. PICK s \in Seq(A) \ G : Len(s) = m
    BY <1>2
<1>4. PICK t \in Seq(A), x \in A : s = Append(t, x)
    BY <1>3, SequenceEmptyOrAppend
<1>5. Len(t) \in Nat /\ Len(s) = Len(t) + 1
    BY <1>4, AppendProperties, LenProperties
<1>6. t \in G
    BY <1>2, <1>3, <1>5
<1> QED
    BY <1>3, <1>4, <1>6

LEMMA OnlyOnly ==
    ASSUME NEW A, NEW s \in Seq(A), NEW S, NEW T
    PROVE  Only(Only(s, S), T) = Only(s, S \cap T)
<1> DEFINE G == {q \in Seq(A) : Only(Only(q, S), T) = Only(q, S \cap T)}
<1>1. <<>> \in G
    BY OnlyEmpty
<1>2. ASSUME NEW q \in Seq(A), NEW x \in A, q \in G PROVE Append(q, x) \in G
    <2>1. Only(q, S) \in Seq(A) /\ Append(q, x) \in Seq(A)
        <3>1. Append(q, x) \in Seq(A)
            BY AppendProperties
        <3> QED
            BY <3>1, OnlyType
    <2>2. Only(Append(q, x), S \cap T) = IF x \in S \cap T THEN Append(Only(q, S \cap T), x) ELSE Only(q, S \cap T)
        BY OnlyAppend
    <2>3. Only(Append(q, x), S) = IF x \in S THEN Append(Only(q, S), x) ELSE Only(q, S)
        BY OnlyAppend
    <2>4. Only(Append(Only(q, S), x), T) = IF x \in T THEN Append(Only(Only(q, S), T), x) ELSE Only(Only(q, S), T)
        BY <2>1, OnlyAppend
    <2>5. Only(Only(q, S), T) = Only(q, S \cap T)
        BY <1>2
    <2>6. Only(Only(Append(q, x), S), T) = Only(Append(q, x), S \cap T)
        <3>1. CASE x \in S
            <4>1. Only(Append(q, x), S) = Append(Only(q, S), x)
                BY <2>3, <3>1
            <4>2. Only(Append(Only(q, S), x), T) = Only(Append(q, x), S \cap T)
                BY <2>2, <2>4, <2>5, <3>1
            <4> QED
                BY <4>1, <4>2
        <3>2. CASE x \notin S
            BY <2>2, <2>3, <2>5, <3>2
        <3> QED
            BY <3>1, <3>2
    <2> QED
        BY <2>1, <2>6
<1> HIDE DEF G
<1>3. Seq(A) \subseteq G
    BY <1>1, <1>2, SeqInductive
<1> QED
    BY <1>3 DEF G

LEMMA OnlySame ==
    ASSUME NEW A, NEW s \in Seq(A), NEW S, NEW T, \A e \in A : e \in S <=> e \in T
    PROVE  Only(s, S) = Only(s, T)
<1> DEFINE G == {q \in Seq(A) : Only(q, S) = Only(q, T)}
<1>1. <<>> \in G
    BY OnlyEmpty
<1>2. ASSUME NEW q \in Seq(A), NEW x \in A, q \in G PROVE Append(q, x) \in G
    <2>1. Only(Append(q, x), S) = IF x \in S THEN Append(Only(q, S), x) ELSE Only(q, S)
        BY OnlyAppend
    <2>2. Only(Append(q, x), T) = IF x \in T THEN Append(Only(q, T), x) ELSE Only(q, T)
        BY OnlyAppend
    <2>3. Only(Append(q, x), S) = Only(Append(q, x), T)
        BY <1>2, <2>1, <2>2
    <2> QED
        BY <2>3
<1> HIDE DEF G
<1>3. Seq(A) \subseteq G
    BY <1>1, <1>2, SeqInductive
<1> QED
    BY <1>3 DEF G

\* To choose by the name and then to take the names is to take the names
\* and then to choose.
NamesOf(list) == [i \in DOMAIN list |-> list[i].name]

LEMMA NamesAppend ==
    ASSUME NEW A, NEW s \in Seq(A), NEW x \in A
    PROVE  /\ NamesOf(s) \in Seq({e.name : e \in A}) /\ Len(NamesOf(s)) = Len(s)
           /\ NamesOf(Append(s, x)) = Append(NamesOf(s), x.name)
<1>1. NamesOf(s) \in Seq({e.name : e \in A}) /\ Len(NamesOf(s)) = Len(s)
    BY LenProperties, ElementOfSeq, IsASeq DEF NamesOf
<1>2. /\ Append(s, x) \in Seq(A) /\ Len(Append(s, x)) = Len(s) + 1 /\ Len(s) \in Nat
      /\ Append(s, x)[Len(s) + 1] = x
      /\ \A i \in 1 .. Len(s) : Append(s, x)[i] = s[i]
    BY AppendProperties, LenProperties
<1>3. /\ Append(NamesOf(s), x.name) \in Seq({e.name : e \in A})
      /\ Len(Append(NamesOf(s), x.name)) = Len(s) + 1
      /\ Append(NamesOf(s), x.name)[Len(s) + 1] = x.name
      /\ \A i \in 1 .. Len(s) : Append(NamesOf(s), x.name)[i] = NamesOf(s)[i]
    BY <1>1, AppendProperties
<1>4. /\ NamesOf(Append(s, x)) \in Seq({e.name : e \in A}) /\ Len(NamesOf(Append(s, x))) = Len(s) + 1
    BY <1>2, LenProperties, ElementOfSeq, IsASeq DEF NamesOf
<1>5. \A i \in 1 .. Len(s) + 1 : NamesOf(Append(s, x))[i] = Append(NamesOf(s), x.name)[i]
    BY <1>2, <1>3, LenProperties DEF NamesOf
<1> QED
    BY <1>1, <1>3, <1>4, <1>5, SeqEqual

LEMMA NamesType ==
    ASSUME NEW A, NEW s \in Seq(A)
    PROVE  NamesOf(s) \in Seq({e.name : e \in A}) /\ Len(NamesOf(s)) = Len(s)
<1> QED
    BY LenProperties, ElementOfSeq, IsASeq DEF NamesOf

LEMMA NamesOnly ==
    ASSUME NEW A, NEW s \in Seq(A), NEW S, NEW N, \A e \in A : e \in S <=> e.name \in N
    PROVE  NamesOf(Only(s, S)) = Only(NamesOf(s), N)
<1> DEFINE G == {q \in Seq(A) : NamesOf(Only(q, S)) = Only(NamesOf(q), N)}
           B == {e.name : e \in A}
<1>1. <<>> \in G
    <2>1. NamesOf(<<>>) = <<>>
        BY DEF NamesOf
    <2> QED
        BY <2>1, OnlyEmpty
<1>2. ASSUME NEW q \in Seq(A), NEW x \in A, q \in G PROVE Append(q, x) \in G
    <2>1. Only(q, S) \in Seq(A) /\ Append(q, x) \in Seq(A)
        <3>1. Append(q, x) \in Seq(A)
            BY AppendProperties
        <3> QED
            BY <3>1, OnlyType
    <2>2. Only(Append(q, x), S) = IF x \in S THEN Append(Only(q, S), x) ELSE Only(q, S)
        BY OnlyAppend
    <2>3. NamesOf(q) \in Seq(B) /\ NamesOf(Append(q, x)) = Append(NamesOf(q), x.name) /\ x.name \in B
        BY NamesAppend
    <2>4. NamesOf(Append(Only(q, S), x)) = Append(NamesOf(Only(q, S)), x.name)
        BY <2>1, NamesAppend
    <2>5. Only(Append(NamesOf(q), x.name), N)
            = IF x.name \in N THEN Append(Only(NamesOf(q), N), x.name) ELSE Only(NamesOf(q), N)
        <3> DEFINE nq == NamesOf(q)
                   y == x.name
        <3>1. nq \in Seq(B) /\ y \in B
            BY <2>3
        <3> HIDE DEF B, nq, y
        <3>2. Only(Append(nq, y), N) = IF y \in N THEN Append(Only(nq, N), y) ELSE Only(nq, N)
            BY <3>1, OnlyAppend
        <3> QED
            BY <3>2 DEF nq, y
    <2> QED
        BY <1>2, <2>1, <2>2, <2>3, <2>4, <2>5
<1> HIDE DEF G
<1>3. Seq(A) \subseteq G
    BY <1>1, <1>2, SeqInductive
<1> QED
    BY <1>3 DEF G
-----------------------------------------------------------------------------
(***************************************************************************)
(* LIKE.  A name that a pattern matches has a way through it, along which  *)
(* the loop of sql_like_match never has to give up: the last % it has seen *)
(* may always stand for as much as on that way.                            *)
(***************************************************************************)
IsWay(at, name, pattern) ==
    /\ at \in [0 .. Len(pattern) -> 0 .. Len(name)]
    /\ at[0] = 0
    /\ at[Len(pattern)] = Len(name)
    /\ \A j \in 1 .. Len(pattern) :
         IF pattern[j] = AnyText THEN at[j - 1] <= at[j]
         ELSE at[j] = at[j - 1] + 1 /\ pattern[j] \in {AnyChar, name[at[j]]}

LEMMA Letters == AnyText # AnyChar /\ "Q" # AnyText /\ "Q" # AnyChar
<1> QED
    BY Zenon DEF AnyText, AnyChar

LEMMA LikeWay ==
    ASSUME NEW name, NEW pattern, Like(name, pattern)
    PROVE  \E at : IsWay(at, name, pattern)
<1> QED
    BY DEF Like, IsWay

\* SQLite hides only names that begin with "sqlite".
LEMMA LikeHead ==
    ASSUME NEW A, NEW name \in Seq(A), Like(name, <<"Q", AnyChar, AnyText>>)
    PROVE  Head(name) = "Q"
<1> DEFINE p == <<"Q", AnyChar, AnyText>>
<1>1. Len(p) = 3 /\ p[1] = "Q"
    OBVIOUS
<1> HIDE DEF p
<1>2. PICK at : IsWay(at, name, p)
    BY LikeWay DEF p
<1>3. at \in [0 .. 3 -> 0 .. Len(name)] /\ at[0] = 0 /\ at[1] = at[0] + 1 /\ name[at[1]] = "Q"
    BY <1>1, <1>2, Letters DEF IsWay
<1>4. name # <<>>
    BY <1>3
<1> QED
    BY <1>3, <1>4

\* What stands before the first wildcard is the beginning of the name.
LEMMA LikePrefix ==
    ASSUME NEW A, NEW name \in Seq(A), NEW B, NEW pattern \in Seq(B), Like(name, pattern)
    PROVE  IsPrefix(like_prefix(pattern), name)
<1> DEFINE n == Len(name)
           m == Len(pattern)
           W == {i \in DOMAIN pattern : pattern[i] \in {AnyText, AnyChar}} \cup {m + 1}
           k == Min(W) - 1
<1>1. n \in Nat /\ m \in Nat /\ DOMAIN pattern = 1 .. m /\ DOMAIN name = 1 .. n
    BY LenProperties
<1>2. PICK at : IsWay(at, name, pattern)
    BY LikeWay
<1>3. /\ at \in [0 .. m -> 0 .. n] /\ at[0] = 0
      /\ \A j \in 1 .. m : pattern[j] # AnyText =>
             at[j] = at[j - 1] + 1 /\ pattern[j] \in {AnyChar, name[at[j]]}
    BY <1>2 DEF IsWay
<1> HIDE DEF n, m
<1>4. Min(W) \in W /\ \A i \in W : Min(W) <= i
    <2>1. W \subseteq Nat /\ W # {}
        BY <1>1
    <2> HIDE DEF W
    <2> QED
        BY <2>1, LeastNat DEF Min
<1>5. k \in 0 .. m /\ \A j \in 1 .. k : pattern[j] \notin {AnyText, AnyChar}
    <2>1. m + 1 \in W /\ W \subseteq 1 .. m + 1
        BY <1>1
    <2>2. Min(W) \in 1 .. m + 1
        BY <1>1, <1>4, <2>1
    <2>3. ASSUME NEW j \in 1 .. k PROVE pattern[j] \notin {AnyText, AnyChar}
        <3>1. j \notin W
            <4> DEFINE w == Min(W)
            <4>1. w \in 1 .. m + 1 /\ (\A i \in W : w <= i) /\ j \in 1 .. w - 1
                BY <1>4, <2>2
            <4> HIDE DEF w, W
            <4> QED
                BY <1>1, <4>1
        <3>2. j \in 1 .. m
            BY <1>1, <2>2
        <3> QED
            BY <1>1, <3>1, <3>2
    <2> HIDE DEF W
    <2> QED
        BY <1>1, <2>2, <2>3
<1> HIDE DEF k
<1>6. \A j \in 0 .. k : at[j] = j
    <2> DEFINE G == {j \in Nat : at[j] = j}
    <2>1. 0 \in G
        BY <1>3
    <2>2. \A j \in 0 .. k - 1 : j \in G => j + 1 \in G
        <3> SUFFICES ASSUME NEW j \in 0 .. k - 1, at[j] = j PROVE at[j + 1] = j + 1
            OBVIOUS
        <3>1. j + 1 \in 1 .. k /\ j + 1 \in 1 .. m /\ (j + 1) - 1 = j
            BY <1>1, <1>5
        <3> QED
            BY <1>3, <1>5, <3>1
    <2> HIDE DEF G
    <2>3. k \in Nat /\ 0 .. k \subseteq G
        BY <1>1, <1>5, <2>1, <2>2, Inductive
    <2> QED
        BY <2>3 DEF G
<1>7. k <= n /\ \A j \in 1 .. k : j \in 1 .. m /\ j \in 1 .. n /\ name[j] = pattern[j]
    <2>1. k \in 0 .. m /\ at[k] \in 0 .. n /\ at[k] = k
        BY <1>1, <1>3, <1>5, <1>6
    <2>2. ASSUME NEW j \in 1 .. k PROVE name[j] = pattern[j]
        <3>1. j \in 1 .. m /\ j \in 0 .. k
            BY <1>1, <2>1
        <3>2. pattern[j] # AnyText /\ pattern[j] # AnyChar /\ at[j] = j
            BY <1>5, <1>6, <3>1
        <3> QED
            BY <1>3, <3>1, <3>2
    <2> QED
        BY <1>1, <2>1, <2>2
<1>8. like_prefix(pattern) = SubSeq(pattern, 1, k)
    BY DEF like_prefix, k, m
<1>9. /\ SubSeq(pattern, 1, k) \in Seq(B) /\ Len(SubSeq(pattern, 1, k)) = k
      /\ SubSeq(name, 1, k) \in Seq(A) /\ Len(SubSeq(name, 1, k)) = k
      /\ \A j \in 1 .. k : SubSeq(pattern, 1, k)[j] = pattern[j] /\ SubSeq(name, 1, k)[j] = name[j]
    BY <1>1, <1>5, <1>7, SubSeqProperties DEF n, m
<1>10. SubSeq(pattern, 1, k) = SubSeq(name, 1, k)
    BY <1>7, <1>9, SeqEqual
<1>11. SubSeq(SubSeq(pattern, 1, k), 1, k) = SubSeq(pattern, 1, k)
    BY <1>9, SubSeqFull
<1> QED
    BY <1>7, <1>8, <1>9, <1>10, <1>11 DEF IsPrefix, n

(***************************************************************************)
(* The loop.  A state of it is sound if the last % and the place to go     *)
(* back to are behind it.                                                  *)
(***************************************************************************)
LikeStates(value, pattern) ==
    {st \in [vi : 0 .. Len(value), pi : 0 .. Len(pattern), star : 0 .. Len(pattern), star_vi : 0 .. Len(value)] :
       st.star <= st.pi /\ st.star_vi <= st.vi}

LEMMA LikeRounds ==
    ASSUME NEW A, NEW value \in Seq(A), NEW B, NEW pattern \in Seq(B),
           NEW st \in LikeStates(value, pattern)
    PROVE  LikeRound(value, pattern, st) \in LikeStates(value, pattern)
<1> DEFINE n == Len(value)
           m == Len(pattern)
<1>1. n \in Nat /\ m \in Nat
    BY LenProperties
<1> HIDE DEF n, m
<1> DEFINE S == {q \in [vi : 0 .. n, pi : 0 .. m, star : 0 .. m, star_vi : 0 .. n] :
                   q.star <= q.pi /\ q.star_vi <= q.vi}
<1>2. /\ st \in [vi : 0 .. n, pi : 0 .. m, star : 0 .. m, star_vi : 0 .. n]
      /\ st.star <= st.pi /\ st.star_vi <= st.vi
    BY DEF LikeStates, n, m
<1>3. /\ st \in S
      /\ st.vi \in 0 .. n /\ st.pi \in 0 .. m /\ st.star \in 0 .. m /\ st.star_vi \in 0 .. n
      /\ st \in [vi : Nat, pi : Nat, star : Nat, star_vi : Nat]
    BY <1>1, <1>2
<1>4. ASSUME st.vi # n, st.pi < m PROVE [st EXCEPT !.vi = st.vi + 1, !.pi = st.pi + 1] \in S
    <2> DEFINE t == [st EXCEPT !.vi = st.vi + 1, !.pi = st.pi + 1]
    <2>1. t.vi = st.vi + 1 /\ t.pi = st.pi + 1 /\ t.star = st.star /\ t.star_vi = st.star_vi
        BY <1>3
    <2>2. st.vi + 1 \in 0 .. n /\ st.pi + 1 \in 0 .. m /\ st.star <= st.pi + 1 /\ st.star_vi <= st.vi + 1
        BY <1>1, <1>2, <1>3, <1>4
    <2>3. t \in [vi : 0 .. n, pi : 0 .. m, star : 0 .. m, star_vi : 0 .. n]
        BY <1>3, <2>2
    <2> HIDE DEF t
    <2>4. t \in S
        BY <2>1, <2>2, <2>3
    <2> QED
        BY <2>4 DEF t
<1>5. ASSUME st.pi < m PROVE [st EXCEPT !.pi = st.pi + 1, !.star = st.pi + 1, !.star_vi = st.vi] \in S
    <2> DEFINE t == [st EXCEPT !.pi = st.pi + 1, !.star = st.pi + 1, !.star_vi = st.vi]
    <2>1. t.vi = st.vi /\ t.pi = st.pi + 1 /\ t.star = st.pi + 1 /\ t.star_vi = st.vi
        BY <1>3
    <2>2. st.pi + 1 \in 0 .. m /\ st.pi + 1 <= st.pi + 1 /\ st.vi <= st.vi
        BY <1>1, <1>3, <1>5
    <2>3. t \in [vi : 0 .. n, pi : 0 .. m, star : 0 .. m, star_vi : 0 .. n]
        BY <1>3, <2>2
    <2> HIDE DEF t
    <2>4. t \in S
        BY <2>1, <2>2, <2>3
    <2> QED
        BY <2>4 DEF t
<1>6. ASSUME st.vi # n PROVE [st EXCEPT !.pi = st.star, !.star_vi = st.star_vi + 1, !.vi = st.star_vi + 1] \in S
    <2> DEFINE t == [st EXCEPT !.pi = st.star, !.star_vi = st.star_vi + 1, !.vi = st.star_vi + 1]
    <2>1. t.vi = st.star_vi + 1 /\ t.pi = st.star /\ t.star = st.star /\ t.star_vi = st.star_vi + 1
        BY <1>3
    <2>2. st.star_vi + 1 \in 0 .. n /\ st.star <= st.star /\ st.star_vi + 1 <= st.star_vi + 1
        BY <1>1, <1>2, <1>3, <1>6
    <2>3. t \in [vi : 0 .. n, pi : 0 .. m, star : 0 .. m, star_vi : 0 .. n]
        BY <1>3, <2>2
    <2> HIDE DEF t
    <2>4. t \in S
        BY <2>1, <2>2, <2>3
    <2> QED
        BY <2>4 DEF t
<1> HIDE DEF S
<1>7. LikeRound(value, pattern, st) \in S
    BY <1>3, <1>4, <1>5, <1>6 DEF LikeRound, n, m
<1> QED
    BY <1>7 DEF LikeStates, S, n, m

\* What is iterated some times is a sequence of states.
IsRun(r, N, start, next) == \A k \in 0 .. N : r[k] = IF k = 0 THEN start ELSE next[r[k - 1]]

LEMMA Iterated ==
    ASSUME NEW S, NEW start \in S, NEW next \in [S -> S], NEW N \in Nat
    PROVE  \E r \in [0 .. N -> S] : IsRun(r, N, start, next)
<1> DEFINE Good(n) == \E r \in [0 .. n -> S] : \A k \in 0 .. n : r[k] = IF k = 0 THEN start ELSE next[r[k - 1]]
<1>1. Good(0)
    <2> DEFINE e == [i \in 0 .. 0 |-> start]
    <2>1. e \in [0 .. 0 -> S] /\ \A k \in 0 .. 0 : e[k] = IF k = 0 THEN start ELSE next[e[k - 1]]
        OBVIOUS
    <2> QED
        BY <2>1
<1>2. ASSUME NEW n \in 0 .. N - 1, Good(n) PROVE Good(n + 1)
    <2>1. PICK r \in [0 .. n -> S] : \A k \in 0 .. n : r[k] = IF k = 0 THEN start ELSE next[r[k - 1]]
        BY <1>2
    <2> DEFINE g == [i \in 0 .. n + 1 |-> IF i = n + 1 THEN next[r[n]] ELSE r[i]]
    <2>2. g \in [0 .. n + 1 -> S]
        OBVIOUS
    <2>3. ASSUME NEW k \in 0 .. n + 1 PROVE g[k] = IF k = 0 THEN start ELSE next[g[k - 1]]
        <3>1. CASE k = n + 1
            <4>1. g[n] = r[n] /\ n = k - 1 /\ k # 0 /\ g[k] = next[r[n]]
                BY <3>1
            <4> QED
                BY <4>1
        <3>2. CASE k # n + 1
            <4>1. k \in 0 .. n /\ g[k] = r[k]
                BY <3>2
            <4>2. k # 0 => g[k - 1] = r[k - 1]
                BY <4>1
            <4> HIDE DEF g
            <4> QED
                BY <2>1, <4>1, <4>2
        <3> QED
            BY <3>1, <3>2
    <2> HIDE DEF g
    <2> QED
        BY <2>2, <2>3
<1> DEFINE G == {i \in Nat : Good(i)}
<1> HIDE DEF Good
<1>3. 0 \in G /\ \A i \in 0 .. N - 1 : i \in G => i + 1 \in G
    BY <1>1, <1>2
<1> HIDE DEF G
<1>4. 0 .. N \subseteq G
    BY <1>3, Inductive
<1> QED
    BY <1>4 DEF G, Good, IsRun

\* The run of the loop that sql_like_match is about.
IsLikeRun(r, value, pattern) ==
    /\ r[0] = LikeStart
    /\ \A k \in 1 .. Rounds(value, pattern) : r[k] = LikeRound(value, pattern, r[k - 1])
    /\ sql_like_match(value, pattern) <=>
         /\ r[Rounds(value, pattern)].vi = Len(value)
         /\ \A i \in r[Rounds(value, pattern)].pi + 1 .. Len(pattern) : pattern[i] = AnyText

LEMMA LikeRun ==
    ASSUME NEW A, NEW value \in Seq(A), NEW B, NEW pattern \in Seq(B)
    PROVE  /\ Rounds(value, pattern) \in Nat
           /\ \E r \in [0 .. Rounds(value, pattern) -> LikeStates(value, pattern)] :
                IsLikeRun(r, value, pattern)
<1> DEFINE N == Rounds(value, pattern)
           S == LikeStates(value, pattern)
           next == [st \in S |-> LikeRound(value, pattern, st)]
           Then(r, k) == IF k = 0 THEN LikeStart ELSE LikeRound(value, pattern, r[k - 1])
<1>1. Len(value) \in Nat /\ Len(pattern) \in Nat
    BY LenProperties
<1>2. N \in Nat
    <2>1. \A a, b \in Nat : a * b \in Nat
        OBVIOUS
    <2> QED
        BY <1>1, <2>1 DEF Rounds
<1>3. LikeStart \in S
    BY <1>1 DEF LikeStart, LikeStates
<1> HIDE DEF N, S
<1>4. next \in [S -> S]
    BY LikeRounds DEF S
<1>5. PICK r \in [0 .. N -> S] : IsRun(r, N, LikeStart, next)
    <2> HIDE DEF next
    <2> QED
        BY <1>2, <1>3, <1>4, Iterated
<1>6. \A k \in 0 .. N : r[k] = Then(r, k)
    <2> TAKE k \in 0 .. N
    <2>1. k # 0 => r[k - 1] \in S
        BY <1>2
    <2> QED
        BY <1>5, <2>1 DEF IsRun
<1> DEFINE h == CHOOSE run : run = [k \in 0 .. N |-> Then(run, k)]
<1>7. r = [k \in 0 .. N |-> Then(r, k)]
    BY <1>6
<1>8. h = [k \in 0 .. N |-> Then(h, k)]
    BY <1>7
<1>9. sql_like_match(value, pattern) <=>
        /\ h[N].vi = Len(value)
        /\ \A i \in h[N].pi + 1 .. Len(pattern) : pattern[i] = AnyText
    BY DEF sql_like_match, N
<1> HIDE DEF h
<1>10. \A k \in 0 .. N : h[k] = Then(h, k)
    BY <1>8
<1>11. h[N] = r[N]
    <2> DEFINE G == {k \in Nat : h[k] = r[k]}
    <2>1. 0 \in G
        BY <1>2, <1>6, <1>10
    <2>2. \A k \in 0 .. N - 1 : k \in G => k + 1 \in G
        <3> SUFFICES ASSUME NEW k \in 0 .. N - 1, h[k] = r[k] PROVE h[k + 1] = r[k + 1]
            BY <1>2
        <3>1. k + 1 \in 0 .. N /\ k + 1 # 0 /\ (k + 1) - 1 = k
            BY <1>2
        <3> QED
            BY <1>6, <1>10, <3>1
    <2> HIDE DEF G
    <2>3. 0 .. N \subseteq G
        BY <1>2, <2>1, <2>2, Inductive
    <2> QED
        BY <1>2, <2>3 DEF G
<1>12. /\ r[0] = LikeStart
       /\ \A k \in 1 .. N : r[k] = LikeRound(value, pattern, r[k - 1])
    <2>1. \A k \in 1 .. N : k \in 0 .. N /\ k # 0
        BY <1>2
    <2> QED
        BY <1>2, <1>6, <2>1
<1>13. IsLikeRun(r, value, pattern)
    BY <1>9, <1>11, <1>12 DEF N, IsLikeRun
<1> QED
    BY <1>2, <1>5, <1>13 DEF N, S

(***************************************************************************)
(* The loop on a way: before the first % it is where the way is, and after *)
(* one it has not let the % stand for more than the way does.              *)
(***************************************************************************)
OnWay(st, at) ==
    /\ st.star = 0 => at[st.pi] = st.vi
    /\ st.star > 0 => /\ st.star_vi <= at[st.star]
                      /\ st.pi - st.star = st.vi - st.star_vi
                      /\ at[st.pi] = at[st.star] + (st.pi - st.star)

LikeRank(value, st) == st.star + st.star_vi * (Len(value) + 1) + st.vi

LEMMA Products ==
    ASSUME NEW a \in Nat, NEW b \in Nat, NEW w \in Nat
    PROVE  a * w \in Nat /\ (a + 1) * w = a * w + w /\ (a <= b => a * w <= b * w)
<1>1. a * w \in Nat /\ (a + 1) * w = a * w + w
    OBVIOUS
<1>2. ASSUME a <= b PROVE a * w <= b * w
    <2>1. b - a \in Nat /\ b = a + (b - a)
        BY <1>2
    <2>2. (b - a) * w \in Nat /\ b * w = a * w + (b - a) * w
        BY <2>1
    <2> QED
        BY <1>1, <2>2
<1> QED
    BY <1>1, <1>2

\* A round keeps to the way and comes closer to the end of the value.
LEMMA LikeRoundOnWay ==
    ASSUME NEW A, NEW value \in Seq(A), NEW B, NEW pattern \in Seq(B),
           \A i \in 1 .. Len(value) : value[i] # AnyText,
           NEW at, IsWay(at, value, pattern),
           NEW st \in LikeStates(value, pattern), OnWay(st, at), st.vi # Len(value)
    PROVE  /\ OnWay(LikeRound(value, pattern, st), at)
           /\ LikeRank(value, LikeRound(value, pattern, st)) > LikeRank(value, st)
<1> DEFINE n == Len(value)
           m == Len(pattern)
           t == LikeRound(value, pattern, st)
           w == n + 1
<1>1. n \in Nat /\ m \in Nat /\ w \in Nat
    BY LenProperties
<1>2. /\ st \in [vi : 0 .. n, pi : 0 .. m, star : 0 .. m, star_vi : 0 .. n]
      /\ st.star <= st.pi /\ st.star_vi <= st.vi /\ st.vi # n
    BY DEF LikeStates
<1>3. /\ at \in [0 .. m -> 0 .. n] /\ at[m] = n
      /\ \A j \in 1 .. m :
           IF pattern[j] = AnyText THEN at[j - 1] <= at[j]
           ELSE at[j] = at[j - 1] + 1 /\ pattern[j] \in {AnyChar, value[at[j]]}
    BY DEF IsWay
<1>4. \A i \in 1 .. n : value[i] # AnyText
    OBVIOUS
<1> DEFINE matches == st.pi < m /\ pattern[st.pi + 1] \in {AnyChar, value[st.vi + 1]}
           wild == st.pi < m /\ pattern[st.pi + 1] = AnyText
<1>5. t = IF matches THEN [st EXCEPT !.vi = st.vi + 1, !.pi = st.pi + 1]
          ELSE IF wild THEN [st EXCEPT !.pi = st.pi + 1, !.star = st.pi + 1, !.star_vi = st.vi]
          ELSE IF st.star > 0
          THEN [st EXCEPT !.pi = st.star, !.star_vi = st.star_vi + 1, !.vi = st.star_vi + 1]
          ELSE st
    BY <1>2 DEF LikeRound
<1> HIDE DEF n, m, t, w
<1>6. /\ st.vi \in 0 .. n /\ st.vi < n /\ st.pi \in 0 .. m /\ st.star \in 0 .. m /\ st.star_vi \in 0 .. n
      /\ at[st.pi] \in 0 .. n /\ at[st.star] \in 0 .. n
    BY <1>1, <1>2, <1>3
<1>7. ASSUME st.pi < m
      PROVE  /\ st.pi + 1 \in 1 .. m /\ at[st.pi + 1] \in 0 .. n
             /\ IF pattern[st.pi + 1] = AnyText THEN at[st.pi] <= at[st.pi + 1]
                ELSE /\ at[st.pi + 1] = at[st.pi] + 1
                     /\ pattern[st.pi + 1] \in {AnyChar, value[at[st.pi + 1]]}
    <2>1. st.pi + 1 \in 1 .. m /\ st.pi + 1 \in 0 .. m /\ (st.pi + 1) - 1 = st.pi
        BY <1>1, <1>6, <1>7, SMTT(30)
    <2> QED
        BY <1>3, <2>1
<1>8. st.star_vi * w \in Nat /\ st.vi * w \in Nat /\ (st.star_vi + 1) * w = st.star_vi * w + w
      /\ (st.star_vi * w <= st.vi * w)
    BY <1>1, <1>2, <1>6, Products
<1> DEFINE x == st.star_vi * w
           y == st.vi * w
           z == (st.star_vi + 1) * w
<1>rank. /\ LikeRank(value, st) = st.star + x + st.vi
         /\ LikeRank(value, t) = t.star + t.star_vi * w + t.vi
    BY DEF LikeRank, w, n
<1>sizes. x \in Nat /\ y \in Nat /\ z = x + w /\ x <= y /\ w = n + 1
    BY <1>8 DEF w
<1> HIDE DEF x, y, z
<1>9. CASE matches
    <2>1. t.vi = st.vi + 1 /\ t.pi = st.pi + 1 /\ t.star = st.star /\ t.star_vi = st.star_vi
        BY <1>2, <1>5, <1>9
    <2>2. pattern[st.pi + 1] # AnyText
        <3>1. st.vi + 1 \in 1 .. n
            BY <1>1, <1>6
        <3> QED
            BY <1>4, <1>9, <3>1, Letters
    <2>3. at[st.pi + 1] = at[st.pi] + 1
        BY <1>7, <1>9, <2>2
    <2>4. OnWay(t, at)
        <3>1. CASE st.star = 0
            BY <1>6, <2>1, <2>3, <3>1 DEF OnWay
        <3>2. CASE st.star > 0
            <4>1. /\ st.star_vi <= at[st.star] /\ st.pi - st.star = st.vi - st.star_vi
                  /\ at[st.pi] = at[st.star] + (st.pi - st.star)
                BY <3>2 DEF OnWay
            <4>2. /\ (st.pi + 1) - st.star = (st.vi + 1) - st.star_vi
                  /\ at[st.pi + 1] = at[st.star] + ((st.pi + 1) - st.star)
                <5> DEFINE a == at[st.pi]
                           b == at[st.star]
                           p == st.pi
                           q == st.star
                           u == st.star_vi
                           v == st.vi
                <5>1. a \in Int /\ b \in Int /\ p \in Int /\ q \in Int /\ u \in Int /\ v \in Int
                    BY <1>1, <1>6
                <5>2. p - q = v - u /\ a = b + (p - q) /\ at[st.pi + 1] = a + 1
                    BY <2>3, <4>1
                <5> HIDE DEF a, b, p, q, u, v
                <5>3. (p + 1) - q = (v + 1) - u /\ a + 1 = b + ((p + 1) - q)
                    BY <5>1, <5>2
                <5> QED
                    BY <5>2, <5>3 DEF b, p, q, u, v
            <4> QED
                BY <2>1, <3>2, <4>1, <4>2 DEF OnWay
        <3> QED
            BY <1>1, <1>6, <3>1, <3>2
    <2>5. LikeRank(value, t) > LikeRank(value, st)
        <3>1. LikeRank(value, t) = st.star + x + (st.vi + 1)
            BY <1>rank, <2>1 DEF x
        <3> QED
            BY <1>1, <1>6, <1>rank, <1>sizes, <3>1
    <2> QED
        BY <2>4, <2>5 DEF t
<1>10. CASE ~ matches /\ wild
    <2>1. t.vi = st.vi /\ t.pi = st.pi + 1 /\ t.star = st.pi + 1 /\ t.star_vi = st.vi
        BY <1>2, <1>5, <1>10
    <2>2. at[st.pi] <= at[st.pi + 1] /\ at[st.pi + 1] \in 0 .. n
        BY <1>7, <1>10
    <2>3. st.vi <= at[st.pi]
        BY <1>1, <1>2, <1>6 DEF OnWay
    <2>4. OnWay(t, at)
        BY <1>1, <1>6, <2>1, <2>2, <2>3 DEF OnWay
    <2>5. LikeRank(value, t) > LikeRank(value, st)
        <3>1. LikeRank(value, t) = (st.pi + 1) + y + st.vi
            BY <1>rank, <2>1 DEF y
        <3> QED
            BY <1>1, <1>2, <1>6, <1>rank, <1>sizes, <3>1
    <2> QED
        BY <2>4, <2>5 DEF t
<1>11. CASE ~ matches /\ ~ wild
    <2>1. at[st.pi] # st.vi
        <3> SUFFICES ASSUME at[st.pi] = st.vi PROVE FALSE
            OBVIOUS
        <3>1. st.pi < m
            BY <1>1, <1>3, <1>6
        <3> QED
            BY <1>6, <1>7, <1>11, <3>1
    <2>2. st.star > 0 /\ st.star_vi < at[st.star]
        BY <1>1, <1>6, <2>1 DEF OnWay
    <2>3. t.vi = st.star_vi + 1 /\ t.pi = st.star /\ t.star = st.star /\ t.star_vi = st.star_vi + 1
        BY <1>2, <1>5, <1>11, <2>2
    <2>4. OnWay(t, at)
        BY <1>1, <1>6, <2>2, <2>3 DEF OnWay
    <2>5. LikeRank(value, t) > LikeRank(value, st)
        <3>1. LikeRank(value, t) = st.star + z + (st.star_vi + 1)
            BY <1>rank, <2>3 DEF z
        <3> QED
            BY <1>1, <1>6, <1>rank, <1>sizes, <3>1, SMTT(30)
    <2> QED
        BY <2>4, <2>5 DEF t
<1> QED
    BY <1>9, <1>10, <1>11

\* What the way reaches at the end of the value, the rest of the pattern
\* must be able to stand for nothing.
LEMMA LikeRest ==
    ASSUME NEW A, NEW value \in Seq(A), NEW B, NEW pattern \in Seq(B),
           NEW at, IsWay(at, value, pattern),
           NEW k \in 0 .. Len(pattern), at[k] = Len(value)
    PROVE  \A i \in k + 1 .. Len(pattern) : pattern[i] = AnyText
<1> DEFINE n == Len(value)
           m == Len(pattern)
           G == {i \in Nat : at[k + i] = n}
<1>1. n \in Nat /\ m \in Nat /\ k \in 0 .. m
    BY LenProperties
<1>2. /\ at \in [0 .. m -> 0 .. n] /\ at[k] = n
      /\ \A j \in 1 .. m : at[j - 1] <= at[j] /\ (pattern[j] # AnyText => at[j] = at[j - 1] + 1)
    <2>1. at \in [0 .. m -> 0 .. n]
        BY DEF IsWay
    <2>2. ASSUME NEW j \in 1 .. m
          PROVE  at[j - 1] <= at[j] /\ (pattern[j] # AnyText => at[j] = at[j - 1] + 1)
        <3>1. j - 1 \in 0 .. m /\ at[j - 1] \in 0 .. n
            BY <1>1, <2>1
        <3> QED
            BY <1>1, <3>1 DEF IsWay
    <2> QED
        BY <2>1, <2>2
<1> HIDE DEF n, m
<1>3. m - k \in Nat /\ 0 \in G
    BY <1>1, <1>2
<1>4. \A i \in 0 .. (m - k) - 1 : i \in G => i + 1 \in G
    <2> SUFFICES ASSUME NEW i \in 0 .. (m - k) - 1, at[k + i] = n PROVE at[k + (i + 1)] = n
        BY <1>1
    <2>1. k + (i + 1) \in 1 .. m /\ (k + (i + 1)) - 1 = k + i /\ k + (i + 1) \in 0 .. m
        BY <1>1
    <2>2. at[k + (i + 1)] \in 0 .. n /\ at[k + i] <= at[k + (i + 1)]
        BY <1>2, <2>1
    <2> QED
        BY <1>1, <2>2
<1> HIDE DEF G
<1>5. 0 .. m - k \subseteq G
    BY <1>3, <1>4, Inductive
<1>6. ASSUME NEW i \in k + 1 .. m PROVE pattern[i] = AnyText
    <2>1. i - k \in 0 .. m - k /\ (i - 1) - k \in 0 .. m - k /\ i \in 1 .. m
          /\ k + (i - k) = i /\ k + ((i - 1) - k) = i - 1
        BY <1>1
    <2>2. at[i] = n /\ at[i - 1] = n
        BY <1>5, <2>1 DEF G
    <2> QED
        BY <1>1, <1>2, <2>1, <2>2
<1> QED
    BY <1>6 DEF m

(***************************************************************************)
(* sql_like_match accepts every name that the pattern matches, if the name *)
(* has no % in it.                                                         *)
(***************************************************************************)
LEMMA LikeGreedy ==
    ASSUME NEW A, NEW value \in Seq(A), NEW B, NEW pattern \in Seq(B),
           AnyText \notin Range(value), Like(value, pattern)
    PROVE  sql_like_match(value, pattern)
<1> DEFINE n == Len(value)
           m == Len(pattern)
           N == Rounds(value, pattern)
           S == LikeStates(value, pattern)
<1>1. n \in Nat /\ m \in Nat /\ N \in Nat /\ DOMAIN value = 1 .. n
    BY LenProperties, LikeRun
<1>2. \A i \in 1 .. n : value[i] # AnyText
    BY <1>1 DEF Range
<1>3. PICK at : IsWay(at, value, pattern)
    BY LikeWay
<1>run. PICK r \in [0 .. N -> S] : IsLikeRun(r, value, pattern)
    BY LikeRun
<1>4. /\ r[0] = LikeStart
      /\ \A k \in 1 .. N : r[k] = LikeRound(value, pattern, r[k - 1])
      /\ sql_like_match(value, pattern) <=>
           r[N].vi = n /\ \A i \in r[N].pi + 1 .. m : pattern[i] = AnyText
    BY <1>run DEF IsLikeRun
<1> DEFINE Beyond(k) == r[k].vi = n \/ LikeRank(value, r[k]) >= k
           G == {k \in Nat : OnWay(r[k], at) /\ Beyond(k)}
<1> HIDE DEF N
<1>5. 0 \in G
    <2>1. OnWay(LikeStart, at)
        BY <1>3 DEF OnWay, LikeStart, IsWay
    <2>2. LikeRank(value, LikeStart) >= 0
        <3>1. 0 * (Len(value) + 1) = 0
            BY <1>1
        <3> QED
            BY <3>1 DEF LikeRank, LikeStart
    <2> QED
        BY <1>4, <2>1, <2>2
<1>6. \A k \in 0 .. N - 1 : k \in G => k + 1 \in G
    <2> SUFFICES ASSUME NEW k \in 0 .. N - 1, OnWay(r[k], at), Beyond(k)
                 PROVE  OnWay(r[k + 1], at) /\ Beyond(k + 1)
        BY <1>1
    <2>1. k \in Nat /\ k + 1 \in 1 .. N /\ k \in 0 .. N /\ (k + 1) - 1 = k
        BY <1>1
    <2>2. r[k] \in S /\ r[k + 1] = LikeRound(value, pattern, r[k])
        BY <1>4, <2>1
    <2>3. CASE r[k].vi = n
        BY <2>2, <2>3 DEF LikeRound
    <2>4. CASE r[k].vi # n
        <3>1. OnWay(r[k + 1], at) /\ LikeRank(value, r[k + 1]) > LikeRank(value, r[k])
            BY <1>2, <1>3, <2>2, <2>4, LikeRoundOnWay
        <3>2. LikeRank(value, r[k]) \in Nat /\ LikeRank(value, r[k + 1]) \in Nat
            <4>1. \A st \in S : LikeRank(value, st) \in Nat
                <5> TAKE st \in S
                <5>1. st.star \in Nat /\ st.star_vi \in Nat /\ st.vi \in Nat
                    BY <1>1 DEF LikeStates
                <5>2. st.star_vi * (n + 1) \in Nat
                    BY <1>1, <5>1, Products
                <5> QED
                    BY <5>1, <5>2 DEF LikeRank
            <4>2. k + 1 \in 0 .. N
                BY <2>1
            <4>3. r[k + 1] \in S
                BY <4>2
            <4> QED
                BY <2>2, <4>1, <4>3
        <3> QED
            BY <2>1, <2>4, <3>1, <3>2
    <2> QED
        BY <2>3, <2>4
<1> HIDE DEF G
<1>7. N \in G
    <2>1. 0 .. N \subseteq G
        BY <1>1, <1>5, <1>6, Inductive
    <2> QED
        BY <1>1, <2>1
<1> DEFINE last == r[N]
<1>8. last \in S /\ OnWay(last, at) /\ (last.vi = n \/ LikeRank(value, last) >= N)
    BY <1>1, <1>7 DEF G
<1> HIDE DEF last
<1>9. /\ last.vi \in 0 .. n /\ last.pi \in 0 .. m /\ last.star \in 0 .. m /\ last.star_vi \in 0 .. n
    BY <1>8 DEF LikeStates
<1>10. last.vi = n
    <2> DEFINE x == last.star_vi * (n + 1)
               y == n * (n + 1)
    <2>1. x \in Nat /\ y \in Nat /\ x <= y /\ N = m + (y + (n + 1))
        <3>1. x \in Nat /\ y \in Nat /\ x <= y /\ (n + 1) * (n + 1) = y + (n + 1)
            <4> HIDE DEF n
            <4>1. last.star_vi \in Nat /\ n \in Nat /\ n + 1 \in Nat /\ last.star_vi <= n
                BY <1>1, <1>9
            <4>2. x \in Nat /\ x <= y
                BY <4>1, Products
            <4>3. y \in Nat /\ (n + 1) * (n + 1) = y + (n + 1)
                BY <4>1, Products
            <4> QED
                BY <4>2, <4>3
        <3> QED
            BY <3>1 DEF N, Rounds
    <2>2. LikeRank(value, last) = last.star + x + last.vi
        BY DEF LikeRank
    <2> HIDE DEF x, y
    <2> QED
        BY <1>1, <1>8, <1>9, <2>1, <2>2
<1>11. at[last.pi] = n
    <2>1. /\ at[last.pi] \in 0 .. n /\ at[last.star] \in 0 .. n
        BY <1>3, <1>9 DEF IsWay
    <2>2. CASE last.star = 0
        BY <1>8, <1>10, <2>2 DEF OnWay
    <2>3. CASE last.star > 0
        <3>1. /\ last.star_vi <= at[last.star] /\ last.pi - last.star = n - last.star_vi
              /\ at[last.pi] = at[last.star] + (last.pi - last.star)
            BY <1>8, <1>10, <2>3 DEF OnWay
        <3> QED
            BY <1>1, <1>9, <2>1, <3>1
    <2> QED
        BY <1>9, <2>2, <2>3
<1>12. \A i \in last.pi + 1 .. m : pattern[i] = AnyText
    BY <1>3, <1>9, <1>11, LikeRest
<1> QED
    BY <1>4, <1>10, <1>12 DEF last

-----------------------------------------------------------------------------
(***************************************************************************)
(* The inductive invariant of a listing.                                   *)
(***************************************************************************)
ShownBy(entry) ==
    IF lister = "postgres" THEN PgShows(entry)
    ELSE IF lister = "sqlite" THEN SqliteShows(entry) ELSE S3Shows(entry)
ShownOf(cat) == Only(cat, {e \in Range(cat) : ShownBy(e)})

\* The items of a list, and the schemas that one may have.
Items == [name : {e.name : e \in Entries}, cols : {e.cols : e \in Entries} \cup {Empty}]
Seen(t) == \E c \in Range(past) : \E e \in Range(c) : e.name = t.name /\ e.cols = t.cols
SchemaKnown(t) == (lister = "s3" /\ t.cols = Empty) \/ Seen(t)

\* What list_tables holds while it goes through the tables: the schemas of
\* those it has been through, and the rest of the names that it listed.
UnderWay ==
    /\ past # <<>> /\ Last(past) = catalog /\ ask.include_schema
    /\ lister \in {"postgres", "sqlite", "s3"}
    /\ Range(todo) \subseteq Range(Head(past))
    /\ NamesOf(tables) \o NamesOf(todo) = NamesOf(ShownOf(Head(past)))
    /\ \A t \in Range(tables) : SchemaKnown(t)

ListingInv ==
    /\ ListingTypeOK
    /\ past \in Seq(Catalogs[lister]) /\ todo \in Seq(Entries) /\ tables \in Seq(Items)
    /\ step = "list" => past = <<>> /\ todo = <<>> /\ tables = <<>>
    /\ step # "done" => answer = NoAnswer
    /\ step = "describe" => UnderWay
    /\ ListingExact
    /\ ListingErrorsHaveReason

LEMMA RangeSeq ==
    ASSUME NEW A, NEW s \in Seq(A)
    PROVE  Range(s) \subseteq A /\ s \in Seq(Range(s))
<1>1. Len(s) \in Nat /\ DOMAIN s = 1 .. Len(s) /\ s \in [1 .. Len(s) -> A]
    BY LenProperties
<1>2. Range(s) \subseteq A /\ \A i \in 1 .. Len(s) : s[i] \in Range(s)
    BY <1>1 DEF Range
<1>3. s = [i \in 1 .. Len(s) |-> s[i]]
    BY <1>1
<1>4. [i \in 1 .. Len(s) |-> s[i]] \in Seq(Range(s))
    BY <1>1, <1>2, IsASeq
<1> QED
    BY <1>2, <1>3, <1>4

LEMMA RangeAppend ==
    ASSUME NEW A, NEW s \in Seq(A), NEW x
    PROVE  Range(Append(s, x)) = Range(s) \cup {x}
<1>1. Len(s) \in Nat /\ DOMAIN s = 1 .. Len(s) /\ s \in Seq(A \cup {x})
    BY LenProperties, SeqMonotonic
<1>2. /\ Append(s, x) \in Seq(A \cup {x}) /\ Len(Append(s, x)) = Len(s) + 1
      /\ Append(s, x)[Len(s) + 1] = x /\ \A i \in 1 .. Len(s) : Append(s, x)[i] = s[i]
    BY <1>1, AppendProperties
<1>3. DOMAIN Append(s, x) = 1 .. Len(s) + 1
    BY <1>2, LenProperties
<1>4. ASSUME NEW y \in Range(s) PROVE y \in Range(Append(s, x))
    <2>1. PICK i \in 1 .. Len(s) : y = s[i]
        BY <1>1 DEF Range
    <2>2. i \in 1 .. Len(s) + 1 /\ Append(s, x)[i] = y
        BY <1>1, <1>2, <2>1
    <2> QED
        BY <1>3, <2>2 DEF Range
<1>5. x \in Range(Append(s, x))
    <2>1. Len(s) + 1 \in 1 .. Len(s) + 1
        BY <1>1
    <2> QED
        BY <1>2, <1>3, <2>1 DEF Range
<1>6. ASSUME NEW y \in Range(Append(s, x)) PROVE y \in Range(s) \cup {x}
    <2>1. PICK i \in 1 .. Len(s) + 1 : y = Append(s, x)[i]
        BY <1>3 DEF Range
    <2>2. CASE i = Len(s) + 1
        BY <1>2, <2>1, <2>2
    <2>3. CASE i # Len(s) + 1
        <3>1. i \in 1 .. Len(s)
            BY <1>1, <2>3
        <3> QED
            BY <1>1, <1>2, <2>1, <3>1 DEF Range
    <2> QED
        BY <2>2, <2>3
<1> QED
    BY <1>4, <1>5, <1>6

LEMMA OnlyRange ==
    ASSUME NEW A, NEW s \in Seq(A), NEW S
    PROVE  Range(Only(s, S)) = Range(s) \cap S
<1> DEFINE G == {q \in Seq(A) : Range(Only(q, S)) = Range(q) \cap S}
<1>1. <<>> \in G
    <2>1. Range(<<>>) = {}
        BY DEF Range
    <2> QED
        BY <2>1, OnlyEmpty
<1>2. ASSUME NEW q \in Seq(A), NEW x \in A, q \in G PROVE Append(q, x) \in G
    <2>1. Append(q, x) \in Seq(A) /\ Only(q, S) \in Seq(A)
        BY AppendProperties, OnlyType
    <2>2. Only(Append(q, x), S) = IF x \in S THEN Append(Only(q, S), x) ELSE Only(q, S)
        BY OnlyAppend
    <2>3. Range(Append(q, x)) = Range(q) \cup {x}
        BY RangeAppend
    <2>4. Range(Append(Only(q, S), x)) = Range(Only(q, S)) \cup {x}
        BY <2>1, RangeAppend
    <2> QED
        BY <1>2, <2>1, <2>2, <2>3, <2>4
<1> HIDE DEF G
<1>3. Seq(A) \subseteq G
    BY <1>1, <1>2, SeqInductive
<1> QED
    BY <1>3 DEF G

(***************************************************************************)
(* A connector shows the names that are wanted, but for the misjudged.     *)
(***************************************************************************)
LEMMA InCatalog ==
    ASSUME lister \in DOMAIN Catalogs, NEW c \in Catalogs[lister]
    PROVE  c \in Seq(Entries) /\ Range(c) \subseteq Entries /\ c \in Seq(Range(c))
<1>1. c \in Seq(Entries)
    BY ListingAssumption
<1> QED
    BY <1>1, RangeSeq

LEMMA ShownRight ==
    ASSUME lister \in DOMAIN Catalogs, lister \in {"postgres", "sqlite", "s3"}, ask \in Asks,
           NEW c \in Catalogs[lister], NEW e \in Range(c), ~ Misjudged(e)
    PROVE  (ShownBy(e) /\ Filtered(Like, e)) <=> Wanted(e)
<1>1. e \in Entries
    BY InCatalog
<1>2. /\ e.kind \in IF lister = "s3" THEN {"file", "dir"} ELSE {"user", "system"}
      /\ lister = "sqlite" /\ e.kind = "system" => Head(e.name) = "Q"
    BY ListingAssumption
<1>3. e.name # <<>> /\ e.name \in Seq(Range(e.name))
    BY <1>1, ListingAssumption
<1>4. \A p \in ask.filter : p \in Seq(Range(p))
    BY ListingAssumption
<1>5. CASE lister = "postgres"
    BY <1>2, <1>5 DEF ShownBy, PgShows, Wanted, Filtered
<1>6. CASE lister = "sqlite"
    <2>1. Head(e.name) # "Q"
        BY <1>6 DEF Misjudged
    <2>2. ~ Like(e.name, <<"Q", AnyChar, AnyText>>)
        BY <1>3, <2>1, LikeHead
    <2> QED
        BY <1>2, <1>6, <2>1, <2>2 DEF ShownBy, SqliteShows, Wanted, Filtered
<1>7. CASE lister = "s3"
    <2>1. AnyText \notin Range(e.name)
        BY <1>7 DEF Misjudged
    <2>2. ASSUME NEW p \in ask.filter, Like(e.name, p)
          PROVE  IsPrefix(like_prefix(p), e.name) /\ sql_like_match(e.name, p)
        BY <1>3, <1>4, <2>1, <2>2, LikePrefix, LikeGreedy
    <2> QED
        BY <1>2, <1>7, <2>2 DEF ShownBy, S3Shows, Wanted, Filtered
<1> QED
    BY <1>5, <1>6, <1>7

\* The names of entries that a connector judges right and the filter lets through.
RightNames ==
    {n \in {e.name : e \in Entries} : ~ Misjudged([name |-> n]) /\ Filtered(Like, [name |-> n])}

LEMMA RightName ==
    ASSUME NEW x, x.name \in {e.name : e \in Entries}
    PROVE  x.name \in RightNames <=> ~ Misjudged(x) /\ Filtered(Like, x)
<1> DEFINE y == [name |-> x.name]
<1>1. y.name = x.name
    OBVIOUS
<1> HIDE DEF y
<1>2. (Misjudged(y) <=> Misjudged(x)) /\ (Filtered(Like, y) <=> Filtered(Like, x))
    BY <1>1 DEF Misjudged, Filtered
<1> QED
    BY <1>2 DEF RightNames, y

\* What is judged right of what some condition leaves.
LEMMA ListedOnly ==
    ASSUME NEW A, NEW s \in Seq(A), NEW S
    PROVE  ListedNames(Only(s, S)) = NamesOf(Only(s, {x \in Range(s) : x \in S /\ ~ Misjudged(x)}))
<1> DEFINE o == Only(s, S)
           J == {t \in Range(o) : ~ Misjudged(t)}
           T == {x \in Range(s) : x \in S /\ ~ Misjudged(x)}
<1>1. s \in Seq(Range(s)) /\ Range(o) = Range(s) \cap S
    BY RangeSeq, OnlyRange
<1>2. Only(o, J) = Only(s, S \cap J)
    BY <1>1, OnlyOnly
<1>3. \A e \in Range(s) : e \in S \cap J <=> e \in T
    BY <1>1
<1> HIDE DEF J, T
<1>4. Only(s, S \cap J) = Only(s, T)
    BY <1>1, <1>3, OnlySame
<1> QED
    BY <1>2, <1>4 DEF ListedNames, NamesOf, J, T

LEMMA AnswerRight ==
    ASSUME lister \in DOMAIN Catalogs, lister \in {"postgres", "sqlite", "s3"}, ask \in Asks,
           NEW c \in Catalogs[lister], NEW list \in Seq(Items), NamesOf(list) = NamesOf(ShownOf(c))
    PROVE  /\ Answered(list).kind = "tables"
           /\ Range(Answered(list).tables) \subseteq Range(list)
           /\ ListedNames(Answered(list).tables) = ListedNames(Only(c, {e \in Range(c) : Wanted(e)}))
<1> DEFINE F == {t \in Range(list) : Filtered(Like, t)}
           L == {t \in Range(list) : t \in F /\ ~ Misjudged(t)}
           B == {e \in Range(c) : ShownBy(e)}
           N == RightNames
           R == {e \in Range(c) : e.name \in N}
           W == {e \in Range(c) : Wanted(e)}
           V == {e \in Range(c) : e \in W /\ ~ Misjudged(e)}
<1>1. Answered(list).kind = "tables" /\ Answered(list).tables = Only(list, F)
    BY DEF Answered
<1>2. Range(list) \subseteq Items /\ list \in Seq(Range(list))
    BY RangeSeq
<1>3. c \in Seq(Entries) /\ Range(c) \subseteq Entries /\ c \in Seq(Range(c))
    BY InCatalog
<1>4. Range(Only(list, F)) \subseteq Range(list)
    BY OnlyRange
<1>5. ListedNames(Only(list, F)) = NamesOf(Only(list, L))
    BY ListedOnly
<1>6. NamesOf(Only(list, L)) = Only(NamesOf(list), N)
    <2>1. ASSUME NEW t \in Range(list) PROVE t \in L <=> t.name \in N
        <3>1. t.name \in {e.name : e \in Entries}
            BY <1>2 DEF Items
        <3> QED
            BY <3>1, RightName
    <2> HIDE DEF L, N
    <2> QED
        BY <1>2, <2>1, NamesOnly
<1>7. NamesOf(Only(ShownOf(c), R)) = Only(NamesOf(ShownOf(c)), N)
    <2>1. ShownOf(c) \in Seq(Range(c))
        BY <1>3, OnlyType DEF ShownOf
    <2> HIDE DEF N
    <2>2. \A e \in Range(c) : e \in R <=> e.name \in N
        OBVIOUS
    <2> HIDE DEF R
    <2> QED
        BY <2>1, <2>2, NamesOnly
<1>8. Only(ShownOf(c), R) = Only(c, V)
    <2>1. Only(ShownOf(c), R) = Only(c, B \cap R)
        BY <1>3, OnlyOnly DEF ShownOf
    <2>2. ASSUME NEW e \in Range(c) PROVE e \in B \cap R <=> e \in V
        <3>1. e.name \in {x.name : x \in Entries}
            BY <1>3
        <3>2. e.name \in N <=> ~ Misjudged(e) /\ Filtered(Like, e)
            BY <3>1, RightName
        <3> HIDE DEF N
        <3>3. ~ Misjudged(e) => ((ShownBy(e) /\ Filtered(Like, e)) <=> Wanted(e))
            BY ShownRight
        <3> QED
            BY <3>2, <3>3
    <2> HIDE DEF B, R, V
    <2> QED
        BY <1>3, <2>1, <2>2, OnlySame
<1>9. ListedNames(Only(c, W)) = NamesOf(Only(c, V))
    BY <1>3, ListedOnly
<1> HIDE DEF F, L, N, R, W, V
<1>10. ListedNames(Only(list, F)) = ListedNames(Only(c, W))
    BY <1>5, <1>6, <1>7, <1>8, <1>9
<1> QED
    BY <1>1, <1>4, <1>10 DEF W

(***************************************************************************)
(* Steps.  What is judged by the connector and the request stays so.       *)
(***************************************************************************)
LEMMA JudgedSame ==
    ASSUME lister' = lister, ask' = ask, NEW s
    PROVE  ListedNames(s)' = ListedNames(s) /\ ShownOf(s)' = ShownOf(s)
<1> DEFINE J == {t \in Range(s) : ~ Misjudged(t)}
           B == {t \in Range(s) : ShownBy(t)}
<1>1. \A t : Misjudged(t)' <=> Misjudged(t)
    BY DEF Misjudged
<1>2. \A t : ShownBy(t)' <=> ShownBy(t)
    BY DEF ShownBy, PgShows, SqliteShows, S3Shows, Filtered
<1>3. J' = J /\ B' = B
    BY <1>1, <1>2
<1> QED
    BY <1>3 DEF ListedNames, ShownOf

LEMMA ExactAnswer ==
    ASSUME lister' = lister, ask' = ask, NEW c, Head(past') = c,
           NEW list, answer' = Answered(list),
           ListedNames(Answered(list).tables) = ListedNames(Only(c, {e \in Range(c) : Wanted(e)})),
           \A t \in Range(Answered(list).tables) :
              \/ t.cols = Empty /\ (lister = "s3" \/ ~ ask.include_schema)
              \/ ask.include_schema
                 /\ \E d \in Range(past') : \E e \in Range(d) : e.name = t.name /\ e.cols = t.cols
    PROVE  ListingExact'
<1> DEFINE W == {e \in Range(Head(past)) : Wanted(e)}
           w == {e \in Range(c) : Wanted(e)}
<1>1. W' = w
    BY DEF Wanted, Filtered
<1>2. ListedNames(answer.tables)' = ListedNames(Answered(list).tables)
    BY JudgedSame
<1>3. ListedNames(Only(Head(past), W))' = ListedNames(Only(c, w))
    BY <1>1, JudgedSame
<1> QED
    BY <1>2, <1>3 DEF ListingExact

\* To move the first of some names behind others is to keep all of them in order.
LEMMA MoveHead ==
    ASSUME NEW A, NEW s \in Seq(A), NEW t \in Seq(A), t # <<>>
    PROVE  Append(s, Head(t)) \o Tail(t) = s \o t
<1> DEFINE a == Append(s, Head(t))
           n == Len(s)
           m == Len(t)
<1>1. n \in Nat /\ m \in Nat /\ m > 0 /\ Head(t) \in A /\ Head(t) = t[1]
    BY LenProperties, EmptySeq, HeadTailProperties
<1>2. /\ Tail(t) \in Seq(A) /\ Len(Tail(t)) = m - 1 /\ \A i \in 1 .. m - 1 : Tail(t)[i] = t[i + 1]
    BY HeadTailProperties
<1>3. /\ a \in Seq(A) /\ Len(a) = n + 1 /\ a[n + 1] = t[1] /\ \A i \in 1 .. n : a[i] = s[i]
    BY <1>1, AppendProperties
<1> HIDE DEF a
<1>4. /\ s \o t \in Seq(A) /\ Len(s \o t) = n + m
      /\ \A i \in 1 .. n + m : (s \o t)[i] = IF i <= n THEN s[i] ELSE t[i - n]
    BY ConcatProperties
<1>5. /\ a \o Tail(t) \in Seq(A) /\ Len(a \o Tail(t)) = n + m
      /\ \A i \in 1 .. n + m : (a \o Tail(t))[i] = IF i <= n + 1 THEN a[i] ELSE Tail(t)[i - (n + 1)]
    <2> DEFINE b == Tail(t)
    <2>1. (n + 1) + (m - 1) = n + m /\ b \in Seq(A) /\ Len(b) = m - 1
        BY <1>1, <1>2
    <2> HIDE DEF b, n, m
    <2>2. /\ a \o b \in Seq(A) /\ Len(a \o b) = Len(a) + Len(b)
          /\ \A i \in 1 .. Len(a) + Len(b) : (a \o b)[i] = IF i <= Len(a) THEN a[i] ELSE b[i - Len(a)]
        BY <1>3, <2>1, ConcatProperties
    <2> QED
        BY <1>3, <2>1, <2>2 DEF b
<1>6. ASSUME NEW i \in 1 .. n + m PROVE (a \o Tail(t))[i] = (s \o t)[i]
    <2>1. CASE i <= n
        BY <1>1, <1>3, <1>4, <1>5, <2>1
    <2>2. CASE i = n + 1
        BY <1>1, <1>3, <1>4, <1>5, <2>2
    <2>3. CASE i > n + 1
        <3>1. i - (n + 1) \in 1 .. m - 1 /\ (i - (n + 1)) + 1 = i - n /\ ~ (i <= n) /\ ~ (i <= n + 1)
            BY <1>1, <2>3
        <3> QED
            BY <1>2, <1>4, <1>5, <3>1
    <2>4. i <= n \/ i = n + 1 \/ i > n + 1
        <3> HIDE DEF n, m
        <3> QED
            BY <1>1
    <2> QED
        BY <2>1, <2>2, <2>3, <2>4
<1>7. a \o Tail(t) = s \o t
    BY <1>4, <1>5, <1>6, SeqEqual
<1> QED
    BY <1>7 DEF a

LEMMA NamesTail ==
    ASSUME NEW A, NEW t \in Seq(A), t # <<>>
    PROVE  /\ NamesOf(t) \in Seq({e.name : e \in A}) /\ NamesOf(t) # <<>>
           /\ Head(NamesOf(t)) = Head(t).name /\ Tail(NamesOf(t)) = NamesOf(Tail(t))
<1> DEFINE B == {e.name : e \in A}
           m == Len(t)
           nt == NamesOf(t)
<1>1. m \in Nat /\ m > 0 /\ DOMAIN t = 1 .. m /\ Head(t) \in A /\ Head(t) = t[1]
    BY LenProperties, EmptySeq, HeadTailProperties
<1>2. /\ Tail(t) \in Seq(A) /\ Len(Tail(t)) = m - 1 /\ \A i \in 1 .. m - 1 : Tail(t)[i] = t[i + 1]
    BY HeadTailProperties
<1>3. nt \in Seq(B) /\ Len(nt) = m /\ NamesOf(Tail(t)) \in Seq(B) /\ Len(NamesOf(Tail(t))) = m - 1
    BY <1>1, <1>2, NamesAppend
<1>4. \A i \in 1 .. m : nt[i] = t[i].name
    BY <1>1 DEF NamesOf
<1> HIDE DEF nt, B
<1>5. nt # <<>>
    BY <1>1, <1>3, EmptySeq
<1>6. Head(nt) = nt[1] /\ Tail(nt) \in Seq(B) /\ Len(Tail(nt)) = m - 1
      /\ \A i \in 1 .. m - 1 : Tail(nt)[i] = nt[i + 1]
    BY <1>3, <1>5, HeadTailProperties
<1>7. ASSUME NEW i \in 1 .. m - 1 PROVE Tail(nt)[i] = NamesOf(Tail(t))[i]
    <2>1. i + 1 \in 1 .. m /\ DOMAIN Tail(t) = 1 .. m - 1
        BY <1>1, <1>2, LenProperties
    <2>2. NamesOf(Tail(t))[i] = Tail(t)[i].name
        BY <2>1 DEF NamesOf
    <2> QED
        BY <1>2, <1>4, <1>6, <2>1, <2>2
<1>8. Tail(nt) = NamesOf(Tail(t))
    BY <1>3, <1>6, <1>7, SeqEqual
<1>9. 1 \in 1 .. m
    BY <1>1
<1> QED
    BY <1>1, <1>3, <1>4, <1>5, <1>6, <1>8, <1>9 DEF nt, B

LEMMA ListingStarts == ListingInit => ListingInv
<1> SUFFICES ASSUME ListingInit PROVE ListingInv
    OBVIOUS
<1>1. Range(<<>>) = {}
    BY DEF Range
<1>2. ListingTypeOK
    BY <1>1, ListingAssumption DEF ListingInit, ListingTypeOK, NoAnswer
<1>3. past \in Seq(Catalogs[lister]) /\ todo \in Seq(Entries) /\ tables \in Seq(Items)
    BY EmptySeq DEF ListingInit
<1> QED
    BY <1>2, <1>3 DEF ListingInit, ListingInv, ListingExact, ListingErrorsHaveReason, NoAnswer

Bare(list) == [i \in DOMAIN list |-> Table(list[i], Empty)]

LEMMA BareList ==
    ASSUME NEW list \in Seq(Entries)
    PROVE  /\ Bare(list) \in Seq(Items) /\ NamesOf(Bare(list)) = NamesOf(list)
           /\ \A t \in Range(Bare(list)) : t.cols = Empty /\ \E e \in Entries : e.name = t.name
<1>1. Len(list) \in Nat /\ DOMAIN list = 1 .. Len(list) /\ \A i \in 1 .. Len(list) : list[i] \in Entries
    BY LenProperties, ElementOfSeq
<1>2. \A e \in Entries : Table(e, Empty) \in Items
    BY DEF Table, Items
<1>3. Bare(list) = [i \in 1 .. Len(list) |-> Table(list[i], Empty)]
    BY <1>1 DEF Bare
<1>4. Bare(list) \in Seq(Items)
    BY <1>1, <1>2, <1>3, IsASeq
<1>5. DOMAIN Bare(list) = DOMAIN list /\ \A i \in DOMAIN list : Bare(list)[i] = Table(list[i], Empty)
    BY DEF Bare
<1>6. NamesOf(Bare(list)) = NamesOf(list)
    BY <1>5 DEF NamesOf, Table
<1>7. ASSUME NEW t \in Range(Bare(list)) PROVE t.cols = Empty /\ \E e \in Entries : e.name = t.name
    <2>1. PICK i \in DOMAIN list : t = Table(list[i], Empty)
        BY <1>5 DEF Range
    <2>2. t.cols = Empty /\ t.name = list[i].name
        BY <2>1 DEF Table
    <2> QED
        BY <1>1, <2>2
<1> QED
    BY <1>4, <1>6, <1>7

\* One catalog that is past.
LEMMA FirstPast ==
    ASSUME NEW S, NEW c \in S
    PROVE  <<c>> \in Seq(S) /\ <<c>> # <<>> /\ Head(<<c>>) = c /\ Last(<<c>>) = c /\ Range(<<c>>) = {c}
           /\ Len(<<c>>) = 1
<1>1. <<c>> \in Seq(S) /\ <<c>> # <<>> /\ Head(<<c>>) = c /\ Len(<<c>>) = 1 /\ <<c>>[1] = c
    OBVIOUS
<1>2. DOMAIN <<c>> = 1 .. 1
    OBVIOUS
<1>3. Range(<<c>>) = {c}
    BY <1>1, <1>2 DEF Range
<1> QED
    BY <1>1, <1>3 DEF Last

\* The names are listed.
LEMMA NamesListed ==
    ASSUME ListingInv, lister \in {"postgres", "sqlite", "s3"}, step = "list",
           past' = <<catalog>>, UNCHANGED <<lister, ask, catalog, failed>>,
           NEW shown, shown = ShownOf(catalog),
           IF ask.include_schema
           THEN step' = "describe" /\ todo' = shown /\ UNCHANGED <<tables, answer>>
           ELSE step' = "done" /\ tables' = Bare(shown) /\ answer' = Answered(Bare(shown)) /\ UNCHANGED todo
    PROVE  ListingInv'
<1>1. /\ ListingTypeOK /\ catalog \in Catalogs[lister] /\ ask \in Asks /\ lister \in DOMAIN Catalogs
      /\ todo = <<>> /\ tables = <<>> /\ answer = NoAnswer
    BY DEF ListingInv, ListingTypeOK
<1>2. catalog \in Seq(Entries) /\ Range(catalog) \subseteq Entries /\ catalog \in Seq(Range(catalog))
    BY <1>1, InCatalog
<1>3. /\ past' \in Seq(Catalogs[lister]) /\ past' # <<>> /\ Head(past') = catalog
      /\ Last(past') = catalog /\ Range(past') = {catalog}
    BY <1>1, FirstPast
<1>4. shown \in Seq(Entries) /\ Range(shown) \subseteq Range(catalog)
    <2>1. shown \in Seq(Entries)
        BY <1>2, OnlyType DEF ShownOf
    <2> QED
        BY <1>2, <2>1, OnlyRange DEF ShownOf
<1>5. CASE ask.include_schema
    <2>1. step' = "describe" /\ todo' = shown /\ tables' = <<>> /\ answer' = NoAnswer
        BY <1>1, <1>5
    <2>2. Range(tables') = {} /\ tables' \in Seq(Items)
        BY <2>1, EmptySeq DEF Range
    <2>3. NamesOf(tables') \o NamesOf(todo') = NamesOf(ShownOf(Head(past)))'
        <3>1. NamesOf(<<>>) = <<>>
            BY DEF NamesOf
        <3>2. NamesOf(shown) \in Seq({e.name : e \in Entries})
            BY <1>4, RangeSeq, NamesType
        <3>3. <<>> \o NamesOf(shown) = NamesOf(shown)
            BY <3>2, ConcatEmptySeq
        <3>4. ShownOf(Head(past))' = shown
            BY <1>3, JudgedSame
        <3> QED
            BY <2>1, <3>1, <3>3, <3>4
    <2>4. ListingTypeOK'
        BY <1>1, <1>2, <1>3, <1>4, <2>1, <2>2 DEF ListingTypeOK, NoAnswer
    <2>5. UnderWay'
        BY <1>3, <1>4, <1>5, <2>1, <2>2, <2>3 DEF UnderWay
    <2> QED
        BY <1>3, <1>4, <2>1, <2>2, <2>4, <2>5
        DEF ListingInv, ListingExact, ListingErrorsHaveReason, NoAnswer
<1>6. CASE ~ ask.include_schema
    <2>1. step' = "done" /\ tables' = Bare(shown) /\ answer' = Answered(Bare(shown)) /\ todo' = <<>>
        BY <1>1, <1>6
    <2>2. /\ Bare(shown) \in Seq(Items) /\ NamesOf(Bare(shown)) = NamesOf(ShownOf(catalog))
          /\ \A t \in Range(Bare(shown)) : t.cols = Empty /\ \E e \in Entries : e.name = t.name
        BY <1>4, BareList
    <2>3. /\ Answered(Bare(shown)).kind = "tables"
          /\ Range(Answered(Bare(shown)).tables) \subseteq Range(Bare(shown))
          /\ ListedNames(Answered(Bare(shown)).tables)
               = ListedNames(Only(catalog, {e \in Range(catalog) : Wanted(e)}))
        BY <1>1, <2>2, AnswerRight
    <2>4. ListingExact'
        BY <1>3, <1>6, <2>1, <2>2, <2>3, ExactAnswer
    <2>5. ListingTypeOK'
        <3>1. Range(todo') = {}
            BY <2>1 DEF Range
        <3> QED
            BY <1>1, <1>3, <2>1, <2>2, <2>3, <3>1 DEF ListingTypeOK
    <2>6. todo' \in Seq(Entries)
        BY <2>1, EmptySeq
    <2> QED
        BY <1>3, <2>1, <2>2, <2>3, <2>4, <2>5, <2>6 DEF ListingInv, ListingErrorsHaveReason
<1> QED
    BY <1>5, <1>6

\* A table gets its schema: one it has now, or none from S3.
LEMMA TableDescribed ==
    ASSUME ListingInv, step = "describe", todo # <<>>, NEW cols, Describe(cols),
           UNCHANGED <<lister, ask, catalog, past>>, failed' \in 0 .. MaxListingFaults,
           (lister = "s3" /\ cols = Empty) \/ \E e \in Current(Head(todo)) : cols = e.cols
    PROVE  ListingInv'
<1> DEFINE h == Head(todo)
           x == Table(h, cols)
<1>1. /\ ListingTypeOK /\ UnderWay /\ answer = NoAnswer
      /\ past \in Seq(Catalogs[lister]) /\ todo \in Seq(Entries) /\ tables \in Seq(Items)
    BY DEF ListingInv
<1>2. /\ tables' = Append(tables, x) /\ todo' = Tail(todo) /\ step' = "describe" /\ answer' = NoAnswer
    BY <1>1 DEF Describe
<1>3. h \in Entries /\ todo' \in Seq(Entries) /\ Range(todo') \subseteq Range(todo)
    <2>1. todo \in Seq(Range(todo)) /\ h \in Entries /\ Tail(todo) \in Seq(Entries)
        BY <1>1, RangeSeq, HeadTailProperties
    <2>2. Tail(todo) \in Seq(Range(todo))
        BY <2>1, HeadTailProperties
    <2> QED
        BY <1>2, <2>1, <2>2, RangeSeq
<1>4. Range(catalog) \subseteq Entries /\ catalog \in Range(past)
    <2>1. catalog \in Catalogs[lister] /\ lister \in DOMAIN Catalogs
        BY <1>1 DEF ListingTypeOK
    <2>2. Len(past) \in Nat \ {0} /\ DOMAIN past = 1 .. Len(past) /\ catalog = past[Len(past)]
        BY <1>1, EmptySeq, LenProperties DEF UnderWay, Last
    <2>3. Len(past) \in DOMAIN past
        BY <2>2
    <2> QED
        BY <2>1, <2>2, <2>3, InCatalog DEF Range
<1>5. x.name = h.name /\ x.cols = cols
    BY DEF Table
<1>6. SchemaKnown(x) /\ x \in Items /\ \E e \in Entries : e.name = x.name /\ x.cols \in {e.cols, Empty}
    <2>1. CASE lister = "s3" /\ cols = Empty
        BY <1>3, <1>5, <2>1 DEF SchemaKnown, Items, Table
    <2>2. ASSUME NEW e \in Current(h), cols = e.cols
          PROVE  SchemaKnown(x) /\ x \in Items /\ \E d \in Entries : d.name = x.name /\ x.cols \in {d.cols, Empty}
        <3>1. e \in Range(catalog) /\ e.name = h.name /\ e \in Entries
            BY <1>4, <2>2 DEF Current
        <3>2. SchemaKnown(x)
            BY <1>4, <1>5, <2>2, <3>1 DEF SchemaKnown, Seen
        <3>3. x \in Items
            BY <1>3, <2>2, <3>1 DEF Items, Table
        <3> QED
            BY <1>5, <2>2, <3>1, <3>2, <3>3
    <2> QED
        BY <2>1, <2>2
<1> HIDE DEF x
<1>7. Range(tables') = Range(tables) \cup {x} /\ tables' \in Seq(Items)
    BY <1>1, <1>2, <1>6, RangeAppend, AppendProperties
<1>8. NamesOf(tables') \o NamesOf(todo') = NamesOf(tables) \o NamesOf(todo)
    <2> DEFINE B == {e.name : e \in Entries} \cup {e.name : e \in Items}
               nt == NamesOf(tables)
               nd == NamesOf(todo)
    <2>1. /\ nt \in Seq({e.name : e \in Items}) /\ NamesOf(Append(tables, x)) = Append(nt, x.name)
        BY <1>1, <1>6, NamesAppend
    <2>2. /\ nd \in Seq({e.name : e \in Entries}) /\ nd # <<>> /\ Head(nd) = h.name
          /\ Tail(nd) = NamesOf(Tail(todo))
        BY <1>1, NamesTail
    <2> HIDE DEF nt, nd
    <2>3. nt \in Seq(B) /\ nd \in Seq(B)
        BY <2>1, <2>2, SeqMonotonic
    <2> HIDE DEF B
    <2>4. Append(nt, Head(nd)) \o Tail(nd) = nt \o nd
        BY <2>2, <2>3, MoveHead
    <2> QED
        BY <1>2, <1>5, <2>1, <2>2, <2>4 DEF nt, nd
<1>9. ListingTypeOK'
    <2>1. Range(todo') \subseteq Entries
        BY <1>3, RangeSeq
    <2> QED
        BY <1>1, <1>2, <1>6, <1>7, <2>1 DEF ListingTypeOK, NoAnswer
<1>10. UnderWay'
    <2>1. (\A t \in Range(tables) : SchemaKnown(t))'
        BY <1>1, <1>6, <1>7 DEF UnderWay, SchemaKnown, Seen
    <2>2. NamesOf(tables') \o NamesOf(todo') = NamesOf(ShownOf(Head(past)))'
        BY <1>1, <1>8, JudgedSame DEF UnderWay
    <2> QED
        BY <1>1, <1>3, <2>1, <2>2 DEF UnderWay
<1> QED
    BY <1>1, <1>2, <1>3, <1>7, <1>9, <1>10
    DEF ListingInv, ListingExact, ListingErrorsHaveReason, NoAnswer

\* All tables have their schemas and the list is sent.
LEMMA ListSent ==
    ASSUME ListingInv, step = "describe", todo = <<>>, step' = "done", answer' = Answered(tables),
           UNCHANGED <<tables, todo, failed, lister, ask, catalog, past>>
    PROVE  ListingInv'
<1>1. /\ ListingTypeOK /\ UnderWay
      /\ past \in Seq(Catalogs[lister]) /\ todo \in Seq(Entries) /\ tables \in Seq(Items)
    BY DEF ListingInv
<1>2. Head(past) \in Catalogs[lister]
    BY <1>1, HeadTailProperties DEF UnderWay
<1>3. NamesOf(tables) = NamesOf(ShownOf(Head(past)))
    <2>1. NamesOf(todo) = <<>>
        BY DEF NamesOf
    <2>2. NamesOf(tables) \in Seq({e.name : e \in Items})
        BY <1>1, NamesType
    <2>3. NamesOf(tables) \o <<>> = NamesOf(tables)
        BY <2>2, ConcatEmptySeq
    <2> QED
        BY <1>1, <2>1, <2>3 DEF UnderWay
<1>4. /\ Answered(tables).kind = "tables"
      /\ Range(Answered(tables).tables) \subseteq Range(tables)
      /\ ListedNames(Answered(tables).tables)
           = ListedNames(Only(Head(past), {e \in Range(Head(past)) : Wanted(e)}))
    BY <1>1, <1>2, <1>3, AnswerRight DEF ListingTypeOK, UnderWay
<1>5. \A t \in Range(tables) :
         \/ t.cols = Empty /\ lister = "s3"
         \/ \E d \in Range(past) : \E e \in Range(d) : e.name = t.name /\ e.cols = t.cols
    BY <1>1 DEF UnderWay, SchemaKnown, Seen
<1>6. ListingExact'
    <2>1. Head(past') = Head(past) /\ ask.include_schema
        BY <1>1 DEF UnderWay
    <2>2. \A t \in Range(Answered(tables).tables) :
              \/ t.cols = Empty /\ (lister = "s3" \/ ~ ask.include_schema)
              \/ ask.include_schema
                 /\ \E d \in Range(past') : \E e \in Range(d) : e.name = t.name /\ e.cols = t.cols
        BY <1>4, <1>5, <2>1
    <2> QED
        BY <1>4, <2>1, <2>2, ExactAnswer
<1>7. ListingTypeOK'
    BY <1>1, <1>4 DEF ListingTypeOK
<1> QED
    BY <1>1, <1>4, <1>6, <1>7 DEF ListingInv, ListingErrorsHaveReason

\* A listing is given up, for one of the reasons it may have.
LEMMA GivenUp ==
    ASSUME ListingInv, step' = "done", answer' = Refused, step # "done",
           UNCHANGED <<tables, todo, lister, ask, catalog, past>>, failed' \in 0 .. MaxListingFaults,
           IF lister = "s3" THEN failed' > 0 /\ past = <<>> ELSE failed' > 0 \/ Len(past) > 1
    PROVE  ListingInv'
<1>1. ListingTypeOK'
    BY DEF ListingTypeOK, ListingInv, Refused
<1> QED
    BY <1>1 DEF ListingInv, ListingExact, ListingErrorsHaveReason, Refused

\* Others change the catalog.
LEMMA CatalogChanged == ListingInv /\ CatalogChanges => ListingInv'
<1> SUFFICES ASSUME ListingInv, CatalogChanges PROVE ListingInv'
    OBVIOUS
<1>1. /\ ListingTypeOK /\ UnderWay /\ answer = NoAnswer /\ step = "describe"
      /\ past \in Seq(Catalogs[lister]) /\ todo \in Seq(Entries) /\ tables \in Seq(Items)
    BY DEF ListingInv, CatalogChanges
<1>2. /\ catalog' \in Catalogs[lister] /\ past' = Append(past, catalog')
      /\ UNCHANGED <<lister, ask, step, todo, tables, answer, failed>>
    BY DEF CatalogChanges
<1>3. /\ past' \in Seq(Catalogs[lister]) /\ Range(past') = Range(past) \cup {catalog'}
      /\ Len(past') = Len(past) + 1 /\ past'[Len(past) + 1] = catalog'
      /\ \A i \in 1 .. Len(past) : past'[i] = past[i]
    BY <1>1, <1>2, RangeAppend, AppendProperties
<1>4. past' # <<>> /\ Head(past') = Head(past) /\ Last(past') = catalog'
    <2>1. past # <<>> /\ Len(past) \in Nat \ {0}
        BY <1>1, EmptySeq DEF UnderWay
    <2>2. 1 \in 1 .. Len(past) /\ past'[1] = past[1]
        BY <1>3, <2>1
    <2> QED
        BY <1>1, <1>3, <2>1, <2>2 DEF Last
<1>5. ListingTypeOK'
    BY <1>1, <1>2, <1>3 DEF ListingTypeOK
<1>6. UnderWay'
    <2>1. (\A t \in Range(tables) : SchemaKnown(t))'
        BY <1>1, <1>2, <1>3 DEF UnderWay, SchemaKnown, Seen
    <2>2. NamesOf(tables') \o NamesOf(todo') = NamesOf(ShownOf(Head(past)))'
        BY <1>1, <1>2, <1>4, JudgedSame DEF UnderWay
    <2> QED
        BY <1>1, <1>2, <1>4, <2>1, <2>2 DEF UnderWay
<1> QED
    BY <1>1, <1>2, <1>3, <1>5, <1>6 DEF ListingInv, ListingExact, ListingErrorsHaveReason, NoAnswer

\* A table that is still to be described and is gone from the catalog: the
\* catalog has changed.
LEMMA GoneLater ==
    ASSUME ListingInv, step = "describe", todo # <<>>, Current(Head(todo)) = {}
    PROVE  Len(past) > 1
<1>1. /\ UnderWay /\ past \in Seq(Catalogs[lister]) /\ todo \in Seq(Entries)
    BY DEF ListingInv
<1>2. Len(past) \in Nat \ {0} /\ Head(past) = past[1] /\ past[Len(past)] = catalog
    BY <1>1, EmptySeq DEF UnderWay, Last
<1>3. Head(todo) \in Range(Head(past))
    <2>1. todo \in Seq(Range(todo))
        BY <1>1, RangeSeq
    <2> QED
        BY <1>1, <2>1, HeadTailProperties DEF UnderWay
<1>4. Head(todo) \notin Range(catalog)
    BY DEF Current
<1> QED
    BY <1>2, <1>3, <1>4

\* PostgreSQL and SQLite go through the tables.
LEMMA NextTableKeeps ==
    ASSUME ListingInv, lister # "s3", NextTable(GiveUp) PROVE ListingInv'
<1>1. step = "describe" /\ UNCHANGED <<lister, ask, catalog, past>> /\ failed \in 0 .. MaxListingFaults
    BY DEF NextTable, ListingInv, ListingTypeOK
<1>2. CASE todo = <<>>
    BY <1>1, <1>2, ListSent DEF NextTable
<1>3. ASSUME todo # <<>>, GiveUp, UNCHANGED failed, Current(Head(todo)) = {} PROVE ListingInv'
    <2>1. Len(past) > 1
        BY <1>1, <1>3, GoneLater
    <2> QED
        BY <1>1, <1>3, <2>1, GivenUp DEF GiveUp
<1>4. ASSUME todo # <<>>, NEW e \in Current(Head(todo)), Describe(e.cols), UNCHANGED failed PROVE ListingInv'
    BY <1>1, <1>4, TableDescribed
<1>5. ASSUME todo # <<>>, failed < MaxListingFaults, failed' = failed + 1, GiveUp PROVE ListingInv'
    <2>1. failed' \in 0 .. MaxListingFaults /\ failed' > 0
        BY <1>1, <1>5, ListingAssumption
    <2> QED
        BY <1>1, <1>5, <2>1, GivenUp DEF GiveUp
<1> QED
    BY <1>2, <1>3, <1>4, <1>5 DEF NextTable

LEMMA S3Keeps ==
    ASSUME ListingInv, lister = "s3", NextTable(Describe(Empty)) PROVE ListingInv'
<1>1. step = "describe" /\ UNCHANGED <<lister, ask, catalog, past>> /\ failed \in 0 .. MaxListingFaults
    BY DEF NextTable, ListingInv, ListingTypeOK
<1>2. CASE todo = <<>>
    BY <1>1, <1>2, ListSent DEF NextTable
<1>3. ASSUME todo # <<>>, Describe(Empty), failed' \in 0 .. MaxListingFaults PROVE ListingInv'
    BY <1>1, <1>3, TableDescribed
<1>4. ASSUME todo # <<>>, NEW e \in Current(Head(todo)), Describe(e.cols), UNCHANGED failed PROVE ListingInv'
    BY <1>1, <1>4, TableDescribed
<1>5. failed < MaxListingFaults /\ failed' = failed + 1 => failed' \in 0 .. MaxListingFaults
    BY <1>1, ListingAssumption
<1> QED
    BY <1>1, <1>2, <1>3, <1>4, <1>5 DEF NextTable

LEMMA ListingSteps == ListingInv /\ [ListingNext]_listingVars => ListingInv'
<1> SUFFICES ASSUME ListingInv, [ListingNext]_listingVars PROVE ListingInv'
    OBVIOUS
<1>1. CASE lister = "postgres" /\ PgListTables
    <2>1. CASE ListNames(PgShows)
        <3>1. ShownOf(catalog) = Only(catalog, {e \in Range(catalog) : PgShows(e)})
            BY <1>1 DEF ShownOf, ShownBy
        <3> QED
            BY <1>1, <2>1, <3>1, NamesListed DEF ListNames, Bare
    <2>2. CASE NextTable(GiveUp)
        BY <1>1, <2>2, NextTableKeeps
    <2> QED
        BY <1>1, <2>1, <2>2 DEF PgListTables
<1>2. CASE lister = "sqlite" /\ SqliteListTables
    <2>1. CASE ListNames(SqliteShows)
        <3>1. ShownOf(catalog) = Only(catalog, {e \in Range(catalog) : SqliteShows(e)})
            BY <1>2 DEF ShownOf, ShownBy
        <3> QED
            BY <1>2, <2>1, <3>1, NamesListed DEF ListNames, Bare
    <2>2. CASE NextTable(GiveUp)
        BY <1>2, <2>2, NextTableKeeps
    <2> QED
        BY <1>2, <2>1, <2>2 DEF SqliteListTables
<1>3. CASE lister = "s3" /\ S3ListTables
    <2>1. CASE ListNames(S3Shows)
        <3>1. ShownOf(catalog) = Only(catalog, {e \in Range(catalog) : S3Shows(e)})
            BY <1>3 DEF ShownOf, ShownBy
        <3> QED
            BY <1>3, <2>1, <3>1, NamesListed DEF ListNames, Bare
    <2>2. CASE NextTable(Describe(Empty))
        BY <1>3, <2>2, S3Keeps
    <2>3. ASSUME step = "describe", todo # <<>>, Describe(Empty),
                 UNCHANGED <<lister, ask, catalog, past, failed>>
          PROVE  ListingInv'
        <3>1. failed' \in 0 .. MaxListingFaults
            BY <2>3 DEF ListingInv, ListingTypeOK
        <3> QED
            BY <1>3, <2>3, <3>1, TableDescribed
    <2> QED
        BY <1>3, <2>1, <2>2, <2>3 DEF S3ListTables
<1>4. CASE CatalogChanges
    BY <1>4, CatalogChanged
<1>5. CASE ListingFails
    <2>1. /\ step = "list" /\ past = <<>> /\ failed' \in 0 .. MaxListingFaults /\ failed' > 0
        BY <1>5, ListingAssumption DEF ListingFails, ListingInv, ListingTypeOK
    <2> QED
        BY <1>5, <2>1, GivenUp DEF ListingFails
<1>6. CASE UNCHANGED listingVars
    <2>1. ListingExact'
        BY <1>6, JudgedSame DEF listingVars, ListingInv, ListingExact, Wanted, Filtered
    <2>2. UnderWay' <=> UnderWay
        BY <1>6, JudgedSame DEF listingVars, UnderWay, SchemaKnown, Seen
    <2> QED
        BY <1>6, <2>1, <2>2 DEF listingVars, ListingInv, ListingTypeOK, ListingErrorsHaveReason
<1> QED
    BY <1>1, <1>2, <1>3, <1>4, <1>5, <1>6 DEF ListingNext, Lister

LEMMA ListingInvariance == ListingSpec => []ListingInv
<1> QED
    BY ListingStarts, ListingSteps, PTL DEF ListingSpec

(***************************************************************************)
(* A list of tables that list_tables gives has items of the source's       *)
(* tables, and the answer to the client comes last, for any catalogs and   *)
(* requests.                                                               *)
(***************************************************************************)
THEOREM ListingTypeCorrect == ListingSpec => []ListingTypeOK
<1>1. ListingInv => ListingTypeOK
    BY DEF ListingInv
<1> QED
    BY <1>1, ListingInvariance, PTL

(***************************************************************************)
(* A client that gets a list gets the tables it should, in order and each  *)
(* once, whatever the patterns and the names are and however the catalog   *)
(* changes while the schemas are fetched: in particular the greedy match   *)
(* of sql_like_match, which goes back only to the last %, and the prefix   *)
(* that S3 is asked for lose no name without a % that LIKE lets through.   *)
(***************************************************************************)
THEOREM ListsAreExact == ListingSpec => []ListingExact
<1>1. ListingInv => ListingExact
    BY DEF ListingInv
<1> QED
    BY <1>1, ListingInvariance, PTL

(***************************************************************************)
(* list_tables fails only for a failed call or a table that went away, and *)
(* that of S3 only if the names cannot be had.                             *)
(***************************************************************************)
THEOREM ListingRefusalsHaveReason == ListingSpec => []ListingErrorsHaveReason
<1>1. ListingInv => ListingErrorsHaveReason
    BY DEF ListingInv
<1> QED
    BY <1>1, ListingInvariance, PTL

-----------------------------------------------------------------------------
(***************************************************************************)
(* The readers.  First their control: what a step of any reader but that   *)
(* of Elasticsearch does to it, if its statement does not write, and what  *)
(* it does if the statement writes.                                        *)
(***************************************************************************)
Moves ==
    /\ UNCHANGED <<provider, request, source, torn, changes, faults>>
    /\ view' \in {view, source}
    /\ pc # "done"
    /\ \/ /\ pc' \in {"open", "read", "commit"} /\ UNCHANGED outcome
          /\ held' = held \/ (pc' # "open" /\ held' \subseteq {"connection", "transaction", "read_only"})
          /\ pc' = "open" => pc = "schema"
       \/ pc' = "done" /\ outcome' \in {"ok", "error"} /\ held' = held \cap {"pit"}

Writes ==
    /\ provider \in {"postgres", "sqlite", "neo4j"} /\ request.statement # "read"
    /\ source' \in Versions[provider]
    /\ UNCHANGED <<provider, request, torn, changes, faults, pos, chunk, decoder, sent, outcome>>
    /\ \/ /\ pc = "schema" /\ pc' = "open"
          /\ schema' = BoltSchemaOf(source'.rows) /\ UNCHANGED <<view, held>>
       \/ /\ pc = "open" /\ pc' = "read" /\ view' = source' /\ UNCHANGED schema
          /\ held' \subseteq {"connection", "transaction", "read_only"}

LEMMA ExecuteMoves ==
    ASSUME NEW holding \in SUBSET {"connection", "transaction", "read_only"}, Execute(holding),
           pc = "open", provider \in {"postgres", "sqlite", "neo4j"}
    PROVE  Moves \/ Writes
<1>1. CASE Begin(holding)
    BY <1>1 DEF Begin, Moves, worldVars
<1>2. CASE Refuse
    BY <1>2 DEF Refuse, Stop, Moves, worldVars, progressVars
<1>3. CASE request.statement # "read" /\ WriteThrough(holding)
    BY <1>3 DEF WriteThrough, Writes
<1> QED
    BY <1>1, <1>2, <1>3 DEF Execute

LEMMA PgMoves == provider = "postgres" /\ PgReader => Moves \/ Writes
<1> USE DEF Stop, Refuse, Begin, Complete, GoOn, worldVars, progressVars, Moves
<1> SUFFICES ASSUME provider = "postgres", PgReader PROVE Moves \/ Writes
    OBVIOUS
<1> DEFINE arrays(rows) == PositionalBatch(PgArrayOf, rows)
           finish == pc' = "commit" /\ UNCHANGED <<outcome, held>>
<1>1. ASSUME NEW columns, pc = "schema", Announce(columns) PROVE Moves
    BY <1>1 DEF Announce
<1>2. ASSUME pc = "open", Execute({"connection", "transaction", "read_only"}) PROVE Moves \/ Writes
    BY <1>2, ExecuteMoves
<1>3. ASSUME NextRow(arrays, finish) PROVE Moves
    BY <1>3 DEF NextRow, PushRow, Yield
<1>4. ASSUME pc = "commit", Complete, UNCHANGED <<worldVars, progressVars>> PROVE Moves
    BY <1>4
<1>5. ASSUME pc = "schema", Refuse PROVE Moves
    BY <1>5
<1> QED
    BY <1>1, <1>2, <1>3, <1>4, <1>5 DEF PgReader

LEMMA SqliteMoves == provider = "sqlite" /\ SqliteReader => Moves \/ Writes
<1> USE DEF Stop, Refuse, Begin, Complete, GoOn, worldVars, progressVars, Moves
<1> SUFFICES ASSUME provider = "sqlite", SqliteReader PROVE Moves \/ Writes
    OBVIOUS
<1> DEFINE arrays(rows) == PositionalBatch(SqliteArrayOf, rows)
<1>1. ASSUME NEW columns, pc = "schema", Announce(columns) PROVE Moves
    BY <1>1 DEF Announce
<1>2. ASSUME pc = "open", Execute({"connection", "read_only"}) PROVE Moves \/ Writes
    BY <1>2, ExecuteMoves
<1>3. ASSUME NextRow(arrays, Complete) PROVE Moves
    BY <1>3 DEF NextRow, PushRow, Yield
<1> QED
    BY <1>1, <1>2, <1>3 DEF SqliteReader

LEMMA Neo4jMoves == provider = "neo4j" /\ Neo4jReader => Moves \/ Writes
<1> USE DEF Stop, Refuse, Begin, Complete, GoOn, worldVars, progressVars, Moves
<1> SUFFICES ASSUME provider = "neo4j", Neo4jReader PROVE Moves \/ Writes
    OBVIOUS
<1> DEFINE arrays(rows) == NamedBatch(BoltArrayOf, rows)
<1>1. ASSUME NEW columns, pc = "schema", Announce(columns) PROVE Moves
    BY <1>1 DEF Announce
<1>2. ASSUME pc = "open", Execute({"connection"}) PROVE Moves \/ Writes
    BY <1>2, ExecuteMoves
<1>3. ASSUME NextRow(arrays, Complete) PROVE Moves
    BY <1>3 DEF NextRow, PushRow, Yield
<1>4. ASSUME pc = "schema", Refuse PROVE Moves
    BY <1>4
<1>5. CASE /\ pc = "schema" /\ request.statement = "write"
           /\ source' \in Versions[provider]
           /\ schema' = BoltSchemaOf(source'.rows)
           /\ pc' = "open"
           /\ UNCHANGED <<provider, request, torn, changes, faults, view, pos, chunk,
                          decoder, sent, outcome, held>>
    BY <1>5 DEF Writes
<1> QED
    BY <1>1, <1>2, <1>3, <1>4, <1>5 DEF Neo4jReader

LEMMA MilvusMoves == MilvusReader => Moves
<1> USE DEF Stop, Refuse, Begin, Complete, GoOn, worldVars, progressVars, Moves
<1> SUFFICES ASSUME MilvusReader PROVE Moves
    OBVIOUS
<1>1. CASE pc = "schema" /\ Refuse
    BY <1>1
<1>2. ASSUME NEW columns, pc = "schema", Announce(columns) PROVE Moves
    BY <1>2 DEF Announce
<1>3. CASE pc = "open" /\ Begin({})
    BY <1>3
<1>4. ASSUME pc = "read", UNCHANGED <<worldVars, schema, view, chunk, decoder>>, read_query_paginated PROVE Moves
    BY <1>4 DEF read_query_paginated, SendPage, Yield
<1>5. ASSUME pc = "read", UNCHANGED <<worldVars, schema, view, chunk, decoder>>, NEW rows, SendPage(rows, 0) PROVE Moves
    BY <1>5 DEF SendPage, Yield
<1>6. ASSUME pc = "read", UNCHANGED <<worldVars, schema, view, chunk, decoder>>, Complete PROVE Moves
    BY <1>6
<1> QED
    BY <1>1, <1>2, <1>3, <1>4, <1>5, <1>6 DEF MilvusReader

Formats == {"csv", "jsonl", "json", "parquet"}
LEMMA FormatsKnown ==
    ASSUME NEW extension, NEW hint PROVE FormatOf(extension, hint) \subseteq Formats
<1> QED
    BY DEF FormatOf, from_format_str, Formats
LEMMA TypesKnown == ASSUME NEW type PROVE from_content_type(type) \subseteq Formats
<1> QED
    BY DEF from_content_type, Formats
LEMMA UriFormats == ASSUME NEW table PROVE UriFormat(table) \subseteq Formats
<1> QED
    BY FormatsKnown, TypesKnown DEF UriFormat

LEMMA FileMoves ==
    ASSUME NEW format \in Formats, NEW path, ReadFile(format, path) PROVE Moves
<1> USE DEF Stop, Refuse, Begin, Complete, GoOn, worldVars, progressVars, Moves
<1>1. pc = "read" /\ UNCHANGED <<worldVars, schema, view>>
    BY DEF ReadFile
<1>2. ASSUME decode_stream(format) PROVE Moves
    BY <1>1, <1>2 DEF decode_stream, DecodeChunk, NextBytes, Flush, Yield
<1>3. ASSUME read_json_batches(path) PROVE Moves
    BY <1>1, <1>3 DEF read_json_batches, Yield
<1>4. ASSUME read_parquet_batches PROVE Moves
    BY <1>1, <1>4 DEF read_parquet_batches, Yield
<1> QED
    BY <1>2, <1>3, <1>4 DEF ReadFile, Formats

LEMMA S3Moves ==
    ASSUME S3Reader, pc = "read" => FormatOf(request.extension, request.hint) # {} PROVE Moves
<1> DEFINE formats == FormatOf(request.extension, request.hint)
           format == CHOOSE f \in formats : TRUE
<1> USE DEF Stop, Refuse, Begin, Complete, GoOn, worldVars, progressVars, Moves
<1>1. CASE pc = "schema" /\ Refuse
    BY <1>1
<1>2. ASSUME NEW f, NEW path, NEW keeps, AnnounceFile(f, path, keeps), pc = "schema" PROVE Moves
    BY <1>2 DEF AnnounceFile
<1>3. CASE pc = "open" /\ Begin({})
    BY <1>3
<1>4. CASE pc = "open" /\ pc' = "read" /\ UNCHANGED <<worldVars, progressVars, outcome, held>>
    BY <1>4
<1>5. CASE ReadFile(format, {})
    <2>1. formats # {}
        BY <1>5 DEF ReadFile
    <2>2. format \in Formats
        BY <2>1, FormatsKnown
    <2> QED
        BY <1>5, <2>2, FileMoves
<1> QED
    BY <1>1, <1>2, <1>3, <1>4, <1>5 DEF S3Reader

LEMMA UriMoves ==
    ASSUME UriReader, pc = "read" => UriFormat(view) # {} PROVE Moves
<1> DEFINE format == CHOOSE f \in UriFormat(view) : TRUE
<1> USE DEF Stop, Refuse, Begin, Complete, GoOn, worldVars, progressVars, Moves
<1>1. CASE pc = "schema" /\ Refuse
    BY <1>1
<1>2. ASSUME NEW f, NEW path, NEW keeps, AnnounceFile(f, path, keeps), pc = "schema" PROVE Moves
    BY <1>2 DEF AnnounceFile
<1>3. CASE pc = "open" /\ pc' = "read" /\ UNCHANGED <<worldVars, progressVars, outcome, held>>
    BY <1>3
<1>4. CASE pc = "read" /\ ReadFile(format, UriQuery.data_path)
    <2>1. format \in Formats
        BY <1>4, UriFormats
    <2> QED
        BY <1>4, <2>1, FileMoves
<1> QED
    BY <1>1, <1>2, <1>3, <1>4 DEF UriReader, fetch_response

LEMMA BinaryMoves == S3Binary \/ UriBinary => Moves
<1> USE DEF Stop, Refuse, Complete, GoOn, worldVars, progressVars, Moves
<1>1. ASSUME OpenBinary PROVE Moves
    BY <1>1 DEF OpenBinary
<1>2. ASSUME ReadBinary("csv") PROVE Moves
    BY <1>2 DEF ReadBinary, NextBytes
<1>3. CASE pc = "schema" /\ Refuse
    BY <1>3
<1> QED
    BY <1>1, <1>2, <1>3 DEF S3Binary, UriBinary

(***************************************************************************)
(* Elasticsearch leaves its loop for close_pit, and only there it ends.    *)
(***************************************************************************)
EsMoves ==
    /\ UNCHANGED <<provider, request, source, torn, changes>>
    /\ view' \in {view, source}
    /\ pc # "done" /\ faults' \in {faults, faults + 1} /\ (faults' # faults => faults < MaxFaults)
    /\ \/ pc = "schema" /\ pc' = "open" /\ UNCHANGED <<outcome, held>>
       \/ pc = "schema" /\ pc' = "done" /\ outcome' = "error" /\ held' = held \cap {"pit"}
       \/ pc = "open" /\ pc' = "read" /\ held' = {"pit"} /\ UNCHANGED outcome
       \/ pc = "read" /\ pc' \in {"read", "close", "close_error"} /\ UNCHANGED <<outcome, held>>
       \/ /\ pc \in {"close", "close_error"} /\ pc' = "done" /\ outcome' \in {"ok", "error"}
          /\ held' = {} \/ (held' = held /\ faults' = faults + 1)

LEMMA EsReaderMoves == EsReader => EsMoves
<1> USE DEF Stop, Refuse, Begin, worldVars, progressVars, EsMoves
<1> SUFFICES ASSUME EsReader PROVE EsMoves
    OBVIOUS
<1>1. CASE pc = "schema"
    BY <1>1 DEF EsReader, Announce
<1>2. CASE pc = "open"
    BY <1>2 DEF EsReader
<1>3. CASE pc = "read"
    BY <1>3 DEF EsReader, fetch_search_page
<1>4. CASE pc \in {"close", "close_error"}
    BY <1>4 DEF EsReader, close_pit
<1> QED
    BY <1>1, <1>2, <1>3, <1>4 DEF EsReader

(***************************************************************************)
(* The inductive invariant of the control.  Nothing is held before a       *)
(* stream begins, only Elasticsearch has points in time, and a reader that *)
(* is done has one left only after a failure.  A file is read only in a    *)
(* format that is known.                                                   *)
(***************************************************************************)
SessionOK ==
    /\ provider \in DOMAIN Requests /\ request \in Requests[provider] /\ source \in Versions[provider]
    /\ pc \in {"schema", "open", "read", "commit", "close", "close_error", "stuck", "done"}
    /\ view \in Versions[provider] \cup {NoTable}
    /\ outcome \in Outcomes /\ (pc = "done" <=> outcome # "none")
    /\ held \subseteq {"connection", "transaction", "read_only", "pit"}
    /\ torn \in BOOLEAN /\ changes \in 0 .. MaxChanges /\ faults \in 0 .. MaxFaults

HeldRight ==
    /\ pc \in {"schema", "open"} => held = {}
    /\ "pit" \in held => provider = "elasticsearch"
    /\ provider = "elasticsearch" => held \subseteq {"pit"}
    /\ pc = "done" => held \subseteq {"pit"} /\ (held # {} => faults > 0)

FormatKnown ==
    pc \in {"open", "read"} =>
        /\ provider = "s3" /\ ~ request.binary => FormatOf(request.extension, request.hint) # {}
        /\ provider = "uri" /\ ~ request.binary => UriFormat(view) # {}

ControlInv == SessionOK /\ HeldRight /\ FormatKnown

LEMMA ControlStarts == ReadersInit => ControlInv
<1> SUFFICES ASSUME ReadersInit PROVE ControlInv
    OBVIOUS
<1>1. 0 \in 0 .. MaxChanges /\ 0 \in 0 .. MaxFaults
    BY ReaderAssumption
<1>2. SessionOK
    BY <1>1 DEF ReadersInit, SessionInit, SessionOK, Outcomes
<1>3. HeldRight /\ FormatKnown
    BY DEF ReadersInit, SessionInit, HeldRight, FormatKnown
<1> QED
    BY <1>2, <1>3 DEF ControlInv

\* A format that is known when the schema is announced stays known.
LEMMA FormatStays == ControlInv /\ Reader => FormatKnown'
<1> SUFFICES ASSUME ControlInv, Reader, pc' \in {"open", "read"} PROVE FormatKnown'
    BY DEF FormatKnown
<1>1. UNCHANGED <<provider, request>>
    BY PgMoves, SqliteMoves, Neo4jMoves, EsReaderMoves, MilvusMoves, S3Moves, UriMoves, BinaryMoves
    DEF Reader, Moves, Writes, EsMoves, ControlInv, FormatKnown
<1>2. ASSUME provider = "s3", ~ request.binary PROVE FormatOf(request.extension, request.hint) # {}
    <2>1. S3Reader
        BY <1>2 DEF Reader
    <2>2. CASE pc = "schema"
        BY <2>1, <2>2 DEF S3Reader, Refuse, Stop, ReadFile
    <2>3. CASE pc \in {"open", "read"}
        BY <1>2, <2>3 DEF ControlInv, FormatKnown
    <2> QED
        BY <2>1, <2>2, <2>3 DEF S3Reader, ReadFile
<1>3. ASSUME provider = "uri", ~ request.binary PROVE UriFormat(view)' # {}
    <2>1. UriReader
        BY <1>3 DEF Reader
    <2>same. \A t : UriFormat(t)' = UriFormat(t)
        BY <1>1 DEF UriFormat, UriQuery
    <2>2. CASE pc = "schema"
        <3>1. ASSUME NEW f, NEW path, AnnounceFile(f, path, TRUE), UriFormat(source) # {}
              PROVE  UriFormat(view)' # {}
            <4>1. view' = source
                BY <3>1 DEF AnnounceFile, Refuse, Stop
            <4> QED
                BY <2>same, <3>1, <4>1 DEF UriFormat, UriQuery
        <3> QED
            BY <2>1, <2>2, <3>1 DEF UriReader, fetch_response, Refuse, Stop, ReadFile
    <2>3. CASE pc \in {"open", "read"}
        <3>1. view' = view
            BY <2>1, <2>3 DEF UriReader, ReadFile, progressVars
        <3> QED
            BY <1>1, <1>3, <2>3, <3>1 DEF ControlInv, FormatKnown, UriFormat, UriQuery
    <2> QED
        BY <2>1, <2>2, <2>3 DEF UriReader, ReadFile
<1> QED
    BY <1>1, <1>2, <1>3 DEF FormatKnown

LEMMA MovesKeep ==
    ASSUME ControlInv, Moves, provider # "elasticsearch" PROVE SessionOK' /\ HeldRight'
<1>1. SessionOK'
    BY DEF ControlInv, SessionOK, Moves, Outcomes
<1>2. "pit" \notin held /\ held \cap {"pit"} = {}
    BY DEF ControlInv, HeldRight
<1>3. HeldRight'
    BY <1>2 DEF ControlInv, SessionOK, HeldRight, Moves
<1> QED
    BY <1>1, <1>3

LEMMA WritesKeep == ASSUME ControlInv, Writes PROVE SessionOK' /\ HeldRight'
<1>1. SessionOK'
    BY DEF ControlInv, SessionOK, HeldRight, Writes, Outcomes
<1>2. HeldRight'
    BY DEF ControlInv, SessionOK, HeldRight, Writes
<1> QED
    BY <1>1, <1>2

LEMMA EsMovesKeep ==
    ASSUME ControlInv, EsMoves, provider = "elasticsearch" PROVE SessionOK' /\ HeldRight'
<1>1. faults' \in 0 .. MaxFaults /\ (faults' = faults + 1 => faults' > 0)
    BY ReaderAssumption DEF ControlInv, SessionOK, EsMoves
<1>2. held' \subseteq {"connection", "transaction", "read_only", "pit"}
    BY DEF ControlInv, SessionOK, EsMoves
<1>3. SessionOK'
    BY <1>1, <1>2 DEF ControlInv, SessionOK, EsMoves, Outcomes
<1>4. HeldRight'
    <2>1. CASE pc = "schema"
        <3>1. held = {} /\ held \cap {"pit"} = {}
            BY <2>1 DEF ControlInv, HeldRight
        <3> QED
            BY <2>1, <3>1 DEF HeldRight, EsMoves
    <2>2. CASE pc = "open" \/ pc = "read"
        <3>1. held' \subseteq {"pit"} /\ provider' = "elasticsearch"
            BY <2>2 DEF ControlInv, HeldRight, EsMoves
        <3>2. pc' \in {"read", "close", "close_error"}
            BY <2>2 DEF EsMoves
        <3> QED
            BY <3>1, <3>2 DEF HeldRight
    <2>3. CASE pc \in {"close", "close_error"}
        <3>1. held \subseteq {"pit"} /\ pc' = "done" /\ provider' = "elasticsearch"
            BY <2>3 DEF ControlInv, HeldRight, EsMoves
        <3>2. held' = {} \/ (held' = held /\ faults' > 0)
            BY <1>1, <2>3 DEF EsMoves
        <3> QED
            BY <3>1, <3>2 DEF HeldRight
    <2> QED
        BY <2>1, <2>2, <2>3 DEF EsMoves
<1> QED
    BY <1>3, <1>4

LEMMA ReaderKeeps == ControlInv /\ Reader => ControlInv'
<1> SUFFICES ASSUME ControlInv, Reader PROVE ControlInv'
    OBVIOUS
<1>1. CASE provider = "elasticsearch" /\ EsReader
    BY <1>1, EsReaderMoves, EsMovesKeep, FormatStays DEF ControlInv, EsMoves
<1>2. CASE provider # "elasticsearch"
    <2>1. Moves \/ Writes
        BY <1>2, PgMoves, SqliteMoves, Neo4jMoves, MilvusMoves, S3Moves, UriMoves, BinaryMoves
        DEF Reader, ControlInv, FormatKnown
    <2> QED
        BY <1>2, <2>1, MovesKeep, WritesKeep, FormatStays DEF ControlInv
<1> QED
    BY <1>1, <1>2 DEF Reader

LEMMA WorldKeeps == ControlInv /\ World => ControlInv'
<1> SUFFICES ASSUME ControlInv, World PROVE ControlInv'
    OBVIOUS
<1> USE DEF Stop, progressVars, ControlInv
<1>1. ASSUME UNCHANGED <<provider, request, view>>, pc' \in {pc, "stuck", "done"} PROVE FormatKnown'
    BY <1>1 DEF FormatKnown, UriFormat, UriQuery
<1>2. ASSUME faults < MaxFaults, faults' = faults + 1 PROVE faults' \in 0 .. MaxFaults /\ faults' > 0
    BY <1>2, ReaderAssumption DEF SessionOK
<1>3. CASE Change
    <2>1. changes' \in 0 .. MaxChanges /\ torn' \in BOOLEAN
        BY <1>3, ReaderAssumption DEF Change, SessionOK
    <2> QED
        BY <1>1, <1>3, <2>1 DEF Change, SessionOK, HeldRight
<1>4. CASE SourceFails \/ ClientDrops
    <2>1. /\ pc' = "done" /\ outcome' \in {"error", "dropped"} /\ held' = held \cap {"pit"}
          /\ faults' \in 0 .. MaxFaults /\ faults' > 0
          /\ UNCHANGED <<provider, request, source, view, torn, changes>>
        BY <1>2, <1>4 DEF SourceFails, ClientDrops
    <2> QED
        BY <1>1, <2>1 DEF SessionOK, HeldRight, Outcomes
<1>5. CASE PitExpires
    <2>1. /\ held' = held \ {"pit"} /\ faults' \in 0 .. MaxFaults /\ faults' >= faults
          /\ UNCHANGED <<provider, request, source, pc, outcome, view, torn, changes>>
        BY <1>2, <1>5 DEF PitExpires, SessionOK
    <2>2. SessionOK'
        BY <2>1 DEF SessionOK
    <2>3. HeldRight'
        BY <2>1 DEF HeldRight, SessionOK
    <2> QED
        BY <1>1, <2>1, <2>2, <2>3
<1>6. CASE Stalls
    <2>1. /\ pc # "done" /\ pc' = "stuck"
          /\ UNCHANGED <<provider, request, source, outcome, held, view, torn, changes, faults>>
        BY <1>6 DEF Stalls, worldVars
    <2> QED
        BY <1>1, <2>1 DEF SessionOK, HeldRight
<1> QED
    BY <1>3, <1>4, <1>5, <1>6 DEF World

LEMMA ControlSteps == ControlInv /\ [ReadersNext]_readerVars => ControlInv'
<1> SUFFICES ASSUME ControlInv, [ReadersNext]_readerVars PROVE ControlInv'
    OBVIOUS
<1>1. CASE UNCHANGED readerVars
    BY <1>1 DEF readerVars, ControlInv, SessionOK, HeldRight, FormatKnown, UriFormat, UriQuery
<1> QED
    BY <1>1, ReaderKeeps, WorldKeeps DEF ReadersNext

LEMMA ControlInvariance == ReadersSpec => []ControlInv
<1> QED
    BY ControlStarts, ControlSteps, PTL DEF ReadersSpec

(***************************************************************************)
(* A reader that ends by itself leaves nothing behind at the source unless *)
(* a call failed, whatever the request and however often the source        *)
(* changes: every way out of the loop of Elasticsearch passes close_pit.   *)
(***************************************************************************)
THEOREM ReadersLeaveNothing == ReadersSpec => []NothingLeftBehind
<1>1. ControlInv => NothingLeftBehind
    BY DEF ControlInv, SessionOK, HeldRight, NothingLeftBehind
<1> QED
    BY <1>1, ControlInvariance, PTL

\* FlattenSeq, step by step.
LEMMA FlattenDef ==
    ASSUME NEW A, NEW s \in Seq(Seq(A)), s # <<>>
    PROVE  \E f \in [1 .. Len(s) -> Seq(A)] :
             /\ FlattenSeq(s) = f[Len(s)] /\ f[1] = s[1]
             /\ \A i \in 1 .. Len(s) - 1 : f[i + 1] = f[i] \o s[i + 1]
<1> DEFINE Step(f, i) == IF i = 1 THEN s[i] ELSE f[i - 1] \o s[i]
           Good(n) == \E f \in [1 .. n + 1 -> Seq(A)] : \A i \in 1 .. n + 1 : f[i] = Step(f, i)
           N == Len(s)
<1>0. N \in Nat \ {0} /\ \A i \in 1 .. N : s[i] \in Seq(A)
    BY LenProperties, ElementOfSeq, EmptySeq
<1> HIDE DEF N
<1>1. Good(0)
    <2> DEFINE e == [i \in 1 .. 1 |-> s[1]]
    <2>1. e \in [1 .. 1 -> Seq(A)] /\ \A i \in 1 .. 1 : e[i] = Step(e, i)
        BY <1>0
    <2>2. 0 + 1 = 1
        OBVIOUS
    <2> HIDE DEF e
    <2> QED
        BY <2>1, <2>2
<1>2. ASSUME NEW n \in 0 .. N - 2, Good(n) PROVE Good(n + 1)
    <2>1. PICK f \in [1 .. n + 1 -> Seq(A)] : \A i \in 1 .. n + 1 : f[i] = Step(f, i)
        BY <1>2
    <2> DEFINE x == f[n + 1] \o s[n + 2]
               g == [i \in 1 .. n + 2 |-> IF i = n + 2 THEN x ELSE f[i]]
    <2>2. n \in Nat /\ n + 2 \in 1 .. N /\ n + 1 \in 1 .. n + 1 /\ (n + 1) + 1 = n + 2
        BY <1>0
    <2>3. f[n + 1] \in Seq(A) /\ s[n + 2] \in Seq(A)
        BY <1>0, <2>2
    <2>4. x \in Seq(A)
        BY <2>3, ConcatProperties
    <2> HIDE DEF x
    <2>5. g \in [1 .. n + 2 -> Seq(A)]
        BY <2>2, <2>4
    <2>6. \A i \in 1 .. n + 2 : g[i] = Step(g, i)
        <3> SUFFICES ASSUME NEW i \in 1 .. n + 2 PROVE g[i] = Step(g, i)
            OBVIOUS
        <3>1. CASE i = n + 2
            <4>1. g[n + 1] = f[n + 1] /\ n + 1 = i - 1 /\ i # 1 /\ g[i] = x
                BY <2>2, <3>1
            <4> HIDE DEF g
            <4> QED
                BY <3>1, <4>1 DEF x
        <3>2. CASE i # n + 2
            <4>1. i \in 1 .. n + 1 /\ g[i] = f[i]
                BY <2>2, <3>2
            <4>2. i # 1 => g[i - 1] = f[i - 1]
                BY <2>2, <4>1
            <4> HIDE DEF g
            <4> QED
                BY <2>1, <4>1, <4>2
        <3> QED
            BY <3>1, <3>2
    <2> HIDE DEF g
    <2> QED
        BY <2>2, <2>5, <2>6
<1>3. Good(N - 1)
    <2> DEFINE G == {i \in Nat : Good(i)}
               M == N - 1
    <2>m. M \in Nat /\ N - 2 = M - 1
        BY <1>0
    <2> HIDE DEF Good, M
    <2>1. 0 \in G /\ \A i \in 0 .. M - 1 : i \in G => i + 1 \in G
        BY <2>m, <1>1, <1>2
    <2> HIDE DEF G
    <2>2. 0 .. M \subseteq G
        BY <2>m, <2>1, Inductive
    <2> QED
        BY <2>m, <2>2 DEF G, M
<1>4. PICK f \in [1 .. N -> Seq(A)] : \A i \in 1 .. N : f[i] = Step(f, i)
    <2>1. (N - 1) + 1 = N
        BY <1>0
    <2> QED
        BY <1>3, <2>1
<1> DEFINE h == CHOOSE g : g = [i \in 1 .. N |-> Step(g, i)]
<1>5. f = [i \in 1 .. N |-> Step(f, i)]
    BY <1>4
<1>6. h = [i \in 1 .. N |-> Step(h, i)]
    BY <1>5
<1>7. FlattenSeq(s) = h[N]
    BY <1>0 DEF FlattenSeq, N
<1> HIDE DEF h
<1>8. \A i \in 1 .. N : h[i] = Step(h, i)
    BY <1>6
<1>9. h[N] = f[N]
    <2> DEFINE G == {i \in Nat : h[i + 1] = f[i + 1]}
               M == N - 1
    <2>m. M \in Nat /\ N = M + 1
        BY <1>0
    <2> HIDE DEF M
    <2>1. 0 \in G
        <3>1. 1 \in 1 .. N /\ 0 + 1 = 1
            BY <1>0
        <3>2. h[1] = f[1]
            BY <1>4, <1>8, <3>1
        <3> QED
            BY <3>1, <3>2
    <2>2. \A i \in 0 .. M - 1 : i \in G => i + 1 \in G
        <3> SUFFICES ASSUME NEW i \in 0 .. M - 1, h[i + 1] = f[i + 1] PROVE h[(i + 1) + 1] = f[(i + 1) + 1]
            OBVIOUS
        <3> DEFINE j == (i + 1) + 1
        <3>1. j \in 1 .. N /\ j # 1 /\ h[j - 1] = f[j - 1]
            <4>1. j - 1 = i + 1
                OBVIOUS
            <4> QED
                BY <2>m, <4>1
        <3> HIDE DEF j
        <3>2. h[j] = f[j]
            BY <1>4, <1>8, <3>1, ZenonT(30)
        <3> QED
            BY <3>2 DEF j
    <2> HIDE DEF G
    <2>3. 0 .. M \subseteq G
        BY <2>m, <2>1, <2>2, Inductive
    <2> QED
        BY <2>m, <2>3 DEF G
<1>10. \A i \in 1 .. N - 1 : f[i + 1] = f[i] \o s[i + 1]
    <2> TAKE i \in 1 .. N - 1
    <2>1. i + 1 \in 1 .. N /\ i + 1 # 1 /\ (i + 1) - 1 = i
        BY <1>0
    <2> QED
        BY <1>4, <2>1
<1>11. f[1] = s[1]
    <2>1. 1 \in 1 .. N
        BY <1>0
    <2> QED
        BY <1>4, <2>1
<1> QED
    BY <1>4, <1>7, <1>9, <1>10, <1>11 DEF N

LEMMA FlattenType ==
    ASSUME NEW A, NEW s \in Seq(Seq(A)) PROVE FlattenSeq(s) \in Seq(A)
<1>1. CASE s = <<>>
    BY <1>1 DEF FlattenSeq
<1>2. CASE s # <<>>
    <2>1. PICK f \in [1 .. Len(s) -> Seq(A)] : FlattenSeq(s) = f[Len(s)]
        BY <1>2, FlattenDef
    <2>2. Len(s) \in 1 .. Len(s)
        BY <1>2, LenProperties, EmptySeq
    <2> QED
        BY <2>1, <2>2
<1> QED
    BY <1>1, <1>2

LEMMA PgTyped == ASSUME NEW pg PROVE pg_type_to_arrow(pg) \in ArrowTypes
<1> DEFINE arrow == [BOOL |-> "Boolean", INT2 |-> "Int16", INT4 |-> "Int32", INT8 |-> "Int64",
                  FLOAT4 |-> "Float32", FLOAT8 |-> "Float64", BYTEA |-> "Binary",
                  TIMESTAMP |-> "Timestamp_us", TIMESTAMPTZ |-> "Timestamp_us_UTC",
                  DATE |-> "Date32", TIME |-> "Time64_us", NUMERIC |-> "Utf8",
                  UUID |-> "Utf8", JSON |-> "Utf8", JSONB |-> "Utf8",
                  vector |-> "List", halfvec |-> "List", sparsevec |-> "Utf8"]
<1>1. \A name \in DOMAIN arrow : arrow[name] \in ArrowTypes
    BY DEF ArrowTypes
<1> QED
    BY <1>1 DEF pg_type_to_arrow, ArrowTypes

LEMMA SqliteTyped == ASSUME NEW type PROVE sqlite_type_to_arrow(type) \in ArrowTypes
<1> QED
    BY DEF sqlite_type_to_arrow, ArrowTypes

LEMMA BoltTyped == ASSUME NEW kind PROVE bolt_type_to_arrow(kind) \in ArrowTypes
<1> QED
    BY DEF bolt_type_to_arrow, ArrowTypes

LEMMA InferTyped == ASSUME NEW values PROVE InferType(values) \in ArrowTypes
<1> QED
    BY DEF InferType, ArrowTypes

\* A schema all of whose columns have types of Arrow.
Typed(columns) == \A i \in DOMAIN columns : columns[i].type \in ArrowTypes

LEMMA EsTyped == ASSUME NEW cols PROVE Typed(EsSchemaOf(cols))
<1> DEFINE arrow == [boolean |-> "Boolean", byte |-> "Int8", short |-> "Int16",
                  integer |-> "Int32", long |-> "Int64", half_float |-> "Float32",
                  float |-> "Float32", double |-> "Float64", scaled_float |-> "Float64",
                  date |-> "Timestamp_ms_UTC", date_nanos |-> "Timestamp_ms_UTC"]
<1>1. \A name \in DOMAIN arrow : arrow[name] \in ArrowTypes
    BY DEF ArrowTypes
<1>2. "Utf8" \in ArrowTypes
    BY DEF ArrowTypes
<1> QED
    BY <1>1, <1>2 DEF EsSchemaOf, Typed

LEMMA JsonTyped == ASSUME NEW rows PROVE Typed(InferJson(rows))
<1> QED
    BY InferTyped DEF InferJson, Typed

LEMMA CsvTyped == ASSUME NEW bytes PROVE Typed(read_csv_schema(bytes))
<1> QED
    BY InferTyped DEF read_csv_schema, Typed

\* A column of a result of Milvus: an integer that is not a long one comes
\* from a column of its type, and there are no times.
MilvusColumn(c, cols) ==
    /\ c.type \in ArrowTypes \ {"Timestamp_ms_UTC"}
    /\ c.type \in {"Int8", "Int16", "Int32"} => \E i \in DOMAIN cols : cols[i].name = c.name /\ cols[i].type = c.type

LEMMA MilvusColumns ==
    ASSUME NEW A, NEW cols \in Seq(A), NEW fields, NEW operation,
           \A list \in fields : list \in Seq(Range(list)),
           NEW columns, columns = MilvusSchemaOf(cols, fields, operation)
    PROVE  columns \in Seq(Range(columns)) /\ \A k \in DOMAIN columns : MilvusColumn(columns[k], cols)
<1> DEFINE arrow == [Bool |-> "Boolean", Int8 |-> "Int8", Int16 |-> "Int16", Int32 |-> "Int32",
                  Int64 |-> "Int64", Float |-> "Float32", Double |-> "Float64"]
        vectors == {"FloatVector", "Float16Vector", "BFloat16Vector", "BinaryVector",
                    "SparseFloatVector"}
        names == [i \in DOMAIN cols |-> cols[i].name]
        plain == Only(cols, {c \in Range(cols) : c.type \notin vectors})
        parts(list) == [i \in DOMAIN list |-> IF list[i] = "*" THEN names ELSE <<list[i]>>]
        expand(list) == FlattenSeq(parts(list))
        wanted == IF fields = {} THEN [i \in DOMAIN plain |-> plain[i].name]
                  ELSE expand(CHOOSE list \in fields : TRUE)
        field(name) ==
            LET types == {cols[i].type : i \in {i \in DOMAIN cols : cols[i].name = name}} \cap DOMAIN arrow
            IN  [name |-> name, type |-> IF types = {} THEN "Utf8" ELSE arrow[CHOOSE t \in types : TRUE]]
        described == [i \in DOMAIN wanted |-> field(wanted[i])]
<1>1. \A t \in DOMAIN arrow :
        /\ arrow[t] \in ArrowTypes \ {"Timestamp_ms_UTC"}
        /\ arrow[t] \in {"Int8", "Int16", "Int32"} => arrow[t] = t
    BY DEF ArrowTypes
<1>2. "Utf8" \in ArrowTypes /\ "Float64" \in ArrowTypes
    BY DEF ArrowTypes
<1>3. ASSUME NEW name PROVE MilvusColumn(field(name), cols)
    <2> DEFINE types == {cols[i].type : i \in {i \in DOMAIN cols : cols[i].name = name}} \cap DOMAIN arrow
               t == CHOOSE t \in types : TRUE
    <2>1. CASE types = {}
        BY <1>2, <2>1 DEF MilvusColumn
    <2>2. CASE types # {}
        <3>1. t \in DOMAIN arrow /\ \E i \in DOMAIN cols : cols[i].name = name /\ cols[i].type = t
            BY <2>2
        <3>2. field(name).type = arrow[t] /\ field(name).name = name
            BY <2>2
        <3> HIDE DEF t, types, field, arrow
        <3> QED
            BY <1>1, <3>1, <3>2 DEF MilvusColumn
    <2> QED
        BY <2>1, <2>2
<1>4. \E n \in Nat : DOMAIN wanted = 1 .. n
    <2>1. CASE fields = {}
        <3>1. plain \in Seq(A)
            BY OnlyType
        <3>2. DOMAIN plain = 1 .. Len(plain) /\ Len(plain) \in Nat
            BY <3>1, LenProperties
        <3> QED
            BY <2>1, <3>2
    <2>2. CASE fields # {}
        <3> DEFINE list == CHOOSE l \in fields : TRUE
                   B == Range(names) \cup Range(list)
        <3>1. list \in Seq(Range(list))
            BY <2>2
        <3>2. Len(list) \in Nat /\ DOMAIN list = 1 .. Len(list)
            BY <3>1, LenProperties
        <3>3. names \in Seq(B)
            <4>1. DOMAIN cols = 1 .. Len(cols) /\ Len(cols) \in Nat
                BY LenProperties
            <4>2. \A i \in 1 .. Len(cols) : cols[i].name \in B
                BY <4>1 DEF Range
            <4>3. names = [i \in 1 .. Len(cols) |-> cols[i].name]
                BY <4>1
            <4> HIDE DEF B
            <4>4. [i \in 1 .. Len(cols) |-> cols[i].name] \in Seq(B)
                BY <4>1, <4>2, IsASeq
            <4> QED
                BY <4>3, <4>4
        <3>4. \A i \in 1 .. Len(list) : parts(list)[i] \in Seq(B)
            <4> SUFFICES ASSUME NEW i \in 1 .. Len(list) PROVE parts(list)[i] \in Seq(B)
                OBVIOUS
            <4>1. list[i] \in B
                BY <3>2 DEF Range
            <4>2. <<list[i]>> \in Seq(B)
                BY <4>1
            <4> QED
                BY <3>2, <3>3, <4>2
        <3>5. parts(list) \in Seq(Seq(B))
            <4> DEFINE p == parts(list)
            <4>1. p = [i \in 1 .. Len(list) |-> p[i]]
                BY <3>2
            <4>3. \A i \in 1 .. Len(list) : p[i] \in Seq(B)
                BY <3>4
            <4> HIDE DEF p, B, list
            <4>2. [i \in 1 .. Len(list) |-> p[i]] \in Seq(Seq(B))
                BY <3>2, <4>3, IsASeq
            <4> QED
                BY <4>1, <4>2 DEF p
        <3>6. expand(list) \in Seq(B)
            BY <3>5, FlattenType
        <3>7. DOMAIN expand(list) = 1 .. Len(expand(list)) /\ Len(expand(list)) \in Nat
            BY <3>6, LenProperties
        <3> QED
            BY <2>2, <3>7
    <2> QED
        BY <2>1, <2>2
<1>5. PICK n \in Nat : DOMAIN wanted = 1 .. n
    BY <1>4
<1>6. MilvusSchemaOf(cols, fields, operation) \in
        {described, Append(described, [name |-> "distance", type |-> "Float64"])}
    BY DEF MilvusSchemaOf
<1> DEFINE distance == [name |-> "distance", type |-> "Float64"]
           M == Range(described) \cup {distance}
<1>7. MilvusColumn(distance, cols)
    BY <1>2 DEF MilvusColumn
<1> HIDE DEF wanted, field, distance
<1>8. described = [i \in 1 .. n |-> described[i]] /\ DOMAIN described = 1 .. n
    BY <1>5
<1>9. \A c \in M : MilvusColumn(c, cols)
    BY <1>3, <1>7 DEF Range
<1> HIDE DEF described
<1>10. described \in Seq(M) /\ Append(described, distance) \in Seq(M)
    <2>1. \A i \in 1 .. n : described[i] \in M
        BY <1>8 DEF Range
    <2>2. [i \in 1 .. n |-> described[i]] \in Seq(M) /\ distance \in M
        BY <2>1, IsASeq
    <2> HIDE DEF M
    <2> QED
        BY <1>8, <2>2, AppendProperties
<1> HIDE DEF M
<1>11. columns \in Seq(M)
    BY <1>6, <1>10 DEF distance
<1>12. Range(columns) \subseteq M /\ columns \in Seq(Range(columns))
    BY <1>11, RangeSeq
<1> QED
    BY <1>9, <1>12 DEF Range

LEMMA MilvusTyped ==
    ASSUME NEW A, NEW cols \in Seq(A), NEW fields, NEW operation,
           \A list \in fields : list \in Seq(Range(list))
    PROVE  Typed(MilvusSchemaOf(cols, fields, operation))
<1> QED
    BY MilvusColumns DEF Typed, MilvusColumn

(***************************************************************************)
(* The type invariant of the readers.  A page is computed from what the    *)
(* parser made of the query, which has to be there.                        *)
(***************************************************************************)
Parsed ==
    pc \in {"open", "read"} =>
        /\ provider = "elasticsearch" => EsRequestInput(request) # {}
        /\ provider = "milvus" => MilvusRequestInput(request) # {}

TypeInv == ControlInv /\ Typed(schema) /\ pos \in Nat /\ Parsed

LEMMA MinOfTwo ==
    ASSUME NEW a \in Int, NEW b \in Int
    PROVE  Min({a, b}) \in Int /\ Min({a, b}) <= a /\ Min({a, b}) <= b /\ Min({a, b}) \in {a, b}
<1>1. CASE a <= b
    BY <1>1 DEF Min
<1>2. CASE b <= a
    BY <1>2 DEF Min
<1> QED
    BY <1>1, <1>2

LEMMA TablesOK ==
    ASSUME SessionOK, NEW t, t \in {source, view}
    PROVE  /\ t.cols \in Seq(Range(t.cols)) /\ t.rows \in Seq(Range(t.rows))
           /\ Len(t.rows) \in Nat /\ DOMAIN t.rows = 1 .. Len(t.rows)
<1>1. t.cols \in Seq(Range(t.cols)) /\ t.rows \in Seq(Range(t.rows))
    <2>1. CASE t \in Versions[provider]
        BY <2>1, ReaderAssumption DEF SessionOK
    <2>2. CASE t = NoTable
        <3>1. t.cols = <<>> /\ t.rows = <<>>
            BY <2>2 DEF NoTable
        <3> QED
            BY <3>1
    <2> QED
        BY <2>1, <2>2 DEF SessionOK
<1> QED
    BY <1>1, LenProperties

LEMMA BytesLen ==
    ASSUME NEW t, t.rows \in Seq(Range(t.rows)), NEW format PROVE Len(Bytes(format, t)) \in Nat
<1> DEFINE header == [id |-> 0, fields |-> [i \in DOMAIN t.cols |-> <<t.cols[i].name, Null>>]]
           lines == IF format = "csv" THEN <<header>> \o t.rows ELSE t.rows
           bytes == [i \in 1 .. 2 * Len(lines) |-> [row |-> lines[(i + 1) \div 2], end |-> i % 2 = 0]]
<1>1. lines \in Seq({header} \cup Range(t.rows))
    <2> DEFINE A == {header} \cup Range(t.rows)
    <2>1. t.rows \in Seq(A) /\ <<header>> \in Seq(A)
        BY SeqMonotonic
    <2> HIDE DEF header, A
    <2>2. <<header>> \o t.rows \in Seq(A)
        BY <2>1, ConcatProperties
    <2> QED
        BY <2>1, <2>2 DEF A
<1>2. Len(lines) \in Nat
    BY <1>1, LenProperties
<1> HIDE DEF lines
<1>3. Len(bytes) = 2 * Len(lines)
    BY <1>2
<1>4. Bytes(format, t) \in {bytes, SubSeq(bytes, 1, Len(bytes) - 1)}
    BY DEF Bytes, lines
<1> HIDE DEF bytes
<1>5. Len(SubSeq(bytes, 1, Len(bytes) - 1)) \in Nat
    BY <1>2, <1>3
<1> QED
    BY <1>2, <1>3, <1>4, <1>5

LEMMA LimitedLen ==
    ASSUME NEW s, NEW a \in Int, NEW b \in Int, NEW limit, limit \subseteq Int
    PROVE  Len(Limited(SubSeq(s, a, b), limit)) \in Nat
<1> DEFINE t == SubSeq(s, a, b)
           n == CHOOSE m \in limit : TRUE
<1>1. Len(t) \in Nat
    OBVIOUS
<1>2. limit # {} => n \in Int
    OBVIOUS
<1> HIDE DEF t, n
<1>3. limit # {} => Len(SubSeq(t, 1, n)) \in Nat
    BY <1>2
<1>4. Limited(t, limit) = t \/ (limit # {} /\ Limited(t, limit) = SubSeq(t, 1, n))
    BY DEF Limited, n
<1> QED
    BY <1>1, <1>3, <1>4 DEF t

LEMMA PageSizeInt ==
    ASSUME NEW limit, limit \subseteq Int, pos \in Nat PROVE PageSize(limit) \in Int
<1> DEFINE S == {n - pos : n \in limit}
           r == CHOOSE x \in S : TRUE
<1>1. S \subseteq Int
    OBVIOUS
<1>2. limit # {} => S # {}
    OBVIOUS
<1>3. PageSize(limit) = BatchSize \/ (limit # {} /\ PageSize(limit) = r)
    BY DEF PageSize
<1> HIDE DEF S
<1>4. limit # {} => r \in Int
    BY <1>1, <1>2
<1> HIDE DEF r
<1> QED
    BY <1>3, <1>4, ReaderAssumption

LEMMA EsQueryOf ==
    ASSUME SessionOK, provider = "elasticsearch", EsRequestInput(request) # {}
    PROVE  EsQuery.size \subseteq Nat /\ IsOption(EsQuery.size)
<1>1. EsQuery \in EsRequestInput(request)
    BY DEF EsQuery
<1>2. EsQuery.size = request.size
    <2>1. \E i : EsRequestInput(request) = {[index |-> i, size |-> request.size, sort |-> request.sort]}
        BY Zenon DEF EsRequestInput
    <2> QED
        BY <1>1, <2>1
<1> QED
    BY <1>2, ReaderAssumption DEF SessionOK

LEMMA MilvusQueryOf ==
    ASSUME SessionOK, provider = "milvus", MilvusRequestInput(request) # {}
    PROVE  /\ MilvusQuery.limit \subseteq Int /\ IsOption(MilvusQuery.limit) /\ MilvusQuery.offset \in Nat
           /\ \A list \in MilvusQuery.fields : list \in Seq(Range(list))
<1>1. MilvusQuery \in MilvusRequestInput(request)
    BY DEF MilvusQuery
<1>2. /\ MilvusQuery.limit = request.limit /\ MilvusQuery.fields = request.output_fields
      /\ MilvusQuery.offset = IF request.offset = {} THEN 0 ELSE CHOOSE o \in request.offset : TRUE
    <2> DEFINE offset == IF request.offset = {} THEN 0 ELSE CHOOSE o \in request.offset : TRUE
    <2>1. \E o : MilvusRequestInput(request) =
                  {[operation |-> o, limit |-> request.limit, offset |-> offset,
                    fields |-> request.output_fields]}
        BY Zenon DEF MilvusRequestInput
    <2> HIDE DEF offset
    <2>2. /\ MilvusQuery.limit = request.limit /\ MilvusQuery.fields = request.output_fields
          /\ MilvusQuery.offset = offset
        BY <1>1, <2>1
    <2> QED
        BY <2>2 DEF offset
<1>3. /\ request.limit \subseteq Int /\ IsOption(request.limit) /\ request.offset \subseteq Nat
      /\ \A list \in request.output_fields : list \in Seq(Range(list))
    BY ReaderAssumption DEF SessionOK
<1> QED
    BY <1>2, <1>3

LEMMA SearchedLen ==
    ASSUME SessionOK, NEW size \in Int PROVE Len(SearchAfter(size)) \in Nat
<1>1. DOMAIN view.rows = 1 .. Len(view.rows) /\ Len(view.rows) \in Nat
    BY TablesOK
<1>2. \A S \in SUBSET DOMAIN view.rows : Cardinality(S) \in Nat
    <2>1. IsFiniteSet(1 .. Len(view.rows))
        BY <1>1, FS_Interval
    <2> QED
        BY <1>1, <2>1, FS_Subset, FS_CardinalityType
<1> DEFINE rest(n) == Limited(SubSeq(EsSorted(view.rows), n + 1, Len(view.rows)), {size})
<1>3. \A n \in Nat : Len(rest(n)) \in Nat
    <2> SUFFICES ASSUME NEW n \in Nat PROVE Len(rest(n)) \in Nat
        OBVIOUS
    <2>1. n + 1 \in Int /\ {size} \subseteq Int
        OBVIOUS
    <2> QED
        BY <1>1, <2>1, LimitedLen
<1>4. \E S \in SUBSET DOMAIN view.rows : SearchAfter(size) = rest(Cardinality(S))
    <2> DEFINE after(row) == sent = <<>> \/ SortedBefore(Last(Last(sent).rows), row)
               passed == {i \in DOMAIN view.rows : ~ after(view.rows[i])}
    <2>1. SearchAfter(size) = rest(Cardinality(passed))
        BY DEF SearchAfter
    <2>2. passed \in SUBSET DOMAIN view.rows
        OBVIOUS
    <2> HIDE DEF passed, rest
    <2> QED
        BY <2>1, <2>2
<1> HIDE DEF rest
<1> QED
    BY <1>2, <1>3, <1>4

LEMMA ParsedStays == TypeInv /\ Reader => Parsed'
<1> SUFFICES ASSUME TypeInv, Reader, pc' \in {"open", "read"} PROVE Parsed'
    BY DEF Parsed
<1>1. UNCHANGED <<provider, request>>
    BY PgMoves, SqliteMoves, Neo4jMoves, EsReaderMoves, MilvusMoves, S3Moves, UriMoves, BinaryMoves
    DEF Reader, Moves, Writes, EsMoves, TypeInv, ControlInv, FormatKnown
<1>2. ASSUME provider = "elasticsearch" PROVE EsRequestInput(request) # {}
    <2>1. EsReader
        BY <1>2 DEF Reader
    <2>2. CASE pc = "schema"
        BY <2>1, <2>2 DEF EsReader, Refuse, Stop
    <2>3. CASE pc \in {"open", "read"}
        BY <1>2, <2>3 DEF TypeInv, Parsed
    <2> QED
        BY <2>1, <2>2, <2>3 DEF EsReader
<1>3. ASSUME provider = "milvus" PROVE MilvusRequestInput(request) # {}
    <2>1. MilvusReader
        BY <1>3 DEF Reader
    <2>2. CASE pc = "schema"
        BY <2>1, <2>2 DEF MilvusReader, Refuse, Stop
    <2>3. CASE pc \in {"open", "read"}
        BY <1>3, <2>3 DEF TypeInv, Parsed
    <2> QED
        BY <2>1, <2>2, <2>3 DEF MilvusReader
<1> QED
    BY <1>1, <1>2, <1>3 DEF Parsed

\* The announced types and the position after a step.
Progress == Typed(schema)' /\ (pos \in Nat)'

\* The steps that move no further.
LEMMA NoProgress ==
    ASSUME TypeInv, UNCHANGED <<schema, pos>> PROVE Progress
<1> QED
    BY DEF TypeInv, Progress, Typed

LEMMA AnnounceProgress ==
    ASSUME TypeInv, NEW columns, Typed(columns), Announce(columns) PROVE Progress
<1> QED
    BY DEF TypeInv, Progress, Typed, Announce

LEMMA RowProgress ==
    ASSUME TypeInv, UNCHANGED schema, pos' = pos \/ pos' = pos + 1 PROVE Progress
<1> QED
    BY DEF TypeInv, Progress, Typed

LEMMA LenProgress ==
    ASSUME TypeInv, UNCHANGED schema, NEW rows, Len(rows) \in Nat, pos' = pos + Len(rows) PROVE Progress
<1> QED
    BY DEF TypeInv, Progress, Typed

LEMMA PgProgress == ASSUME TypeInv, PgReader PROVE Progress
<1> USE DEF Refuse, Begin, worldVars, progressVars
<1> DEFINE arrays(rows) == PositionalBatch(PgArrayOf, rows)
           finish == pc' = "commit" /\ UNCHANGED <<outcome, held>>
           columns == [i \in DOMAIN source.cols |->
                         [name |-> source.cols[i].name, type |-> pg_type_to_arrow(source.cols[i].type)]]
<1>1. ASSUME Announce(columns) PROVE Progress
    <2>1. Typed(columns)
        BY PgTyped DEF Typed
    <2> HIDE DEF columns
    <2> QED
        BY <1>1, <2>1, AnnounceProgress
<1>2. ASSUME Execute({"connection", "transaction", "read_only"}) PROVE Progress
    BY <1>2, NoProgress DEF Execute, WriteThrough
<1>3. ASSUME NextRow(arrays, finish) PROVE Progress
    BY <1>3, RowProgress DEF NextRow, PushRow
<1>4. ASSUME UNCHANGED <<worldVars, progressVars>> PROVE Progress
    BY <1>4, NoProgress
<1>5. ASSUME Refuse PROVE Progress
    BY <1>5, NoProgress
<1> QED
    BY <1>1, <1>2, <1>3, <1>4, <1>5 DEF PgReader

LEMMA SqliteProgress == ASSUME TypeInv, SqliteReader PROVE Progress
<1> USE DEF Refuse, Begin, worldVars, progressVars
<1> DEFINE arrays(rows) == PositionalBatch(SqliteArrayOf, rows)
           columns == [i \in DOMAIN source.cols |->
                         [name |-> source.cols[i].name, type |-> sqlite_type_to_arrow(source.cols[i].type)]]
<1>1. ASSUME Announce(columns) PROVE Progress
    <2>1. Typed(columns)
        BY SqliteTyped DEF Typed
    <2> HIDE DEF columns
    <2> QED
        BY <1>1, <2>1, AnnounceProgress
<1>2. ASSUME Execute({"connection", "read_only"}) PROVE Progress
    BY <1>2, NoProgress DEF Execute, WriteThrough
<1>3. ASSUME NextRow(arrays, Complete) PROVE Progress
    BY <1>3, RowProgress DEF NextRow, PushRow
<1> QED
    BY <1>1, <1>2, <1>3 DEF SqliteReader

LEMMA Neo4jProgress == ASSUME TypeInv, Neo4jReader PROVE Progress
<1> USE DEF Refuse, Begin, worldVars, progressVars
<1> DEFINE arrays(rows) == NamedBatch(BoltArrayOf, rows)
<1>0. ASSUME NEW rows PROVE Typed(BoltSchemaOf(rows))
    BY BoltTyped DEF Typed, BoltSchemaOf
<1>1. ASSUME Announce(BoltSchemaOf(source.rows)) PROVE Progress
    BY <1>0, <1>1, AnnounceProgress
<1>2. ASSUME Execute({"connection"}) PROVE Progress
    BY <1>2, NoProgress DEF Execute, WriteThrough
<1>3. ASSUME NextRow(arrays, Complete) PROVE Progress
    BY <1>3, RowProgress DEF NextRow, PushRow
<1>4. ASSUME Refuse PROVE Progress
    BY <1>4, NoProgress
<1>5. ASSUME schema' = BoltSchemaOf(source'.rows), pos' = pos PROVE Progress
    <2>1. Typed(schema')
        BY <1>0, <1>5
    <2> QED
        BY <1>5, <2>1 DEF Progress, Typed, TypeInv
<1> QED
    BY <1>1, <1>2, <1>3, <1>4, <1>5 DEF Neo4jReader

LEMMA EsProgress == ASSUME TypeInv, EsReader, provider = "elasticsearch" PROVE Progress
<1> USE DEF Refuse, Begin, worldVars, progressVars
<1>1. CASE pc = "schema"
    <2>1. ASSUME Announce(EsSchemaOf(source.cols)) PROVE Progress
        BY <2>1, EsTyped, AnnounceProgress
    <2> QED
        BY <1>1, <2>1, NoProgress DEF EsReader
<1>2. CASE pc = "open"
    BY <1>2, NoProgress DEF EsReader
<1>3. CASE pc = "read"
    <2> DEFINE size == PageSize(EsQuery.size)
    <2>1. EsQuery.size \subseteq Nat
        BY <1>3, EsQueryOf DEF TypeInv, ControlInv, Parsed
    <2>2. size \in Int
        BY <2>1, PageSizeInt DEF TypeInv
    <2>3. Len(SearchAfter(size)) \in Nat
        BY <2>2, SearchedLen DEF TypeInv, ControlInv
    <2>4. UNCHANGED schema /\ (pos' = pos \/ pos' = pos + Len(SearchAfter(size)))
        BY <1>3 DEF EsReader, fetch_search_page
    <2> HIDE DEF size
    <2> QED
        BY <2>3, <2>4, LenProgress, RowProgress
<1>4. CASE pc \in {"close", "close_error"}
    BY <1>4, NoProgress DEF EsReader
<1> QED
    BY <1>1, <1>2, <1>3, <1>4 DEF EsReader

LEMMA MilvusProgress == ASSUME TypeInv, MilvusReader, provider = "milvus" PROVE Progress
<1> USE DEF Refuse, Begin, worldVars, progressVars
<1>1. CASE pc = "schema"
    <2>1. ASSUME MilvusRequestInput(request) # {},
                 Announce(MilvusSchemaOf(source.cols, MilvusQuery.fields, MilvusQuery.operation))
          PROVE  Progress
        <3>1. source.cols \in Seq(Range(source.cols)) /\ \A list \in MilvusQuery.fields : list \in Seq(Range(list))
            BY <2>1, MilvusQueryOf, TablesOK DEF TypeInv, ControlInv
        <3>2. Typed(MilvusSchemaOf(source.cols, MilvusQuery.fields, MilvusQuery.operation))
            BY <3>1, MilvusTyped
        <3> QED
            BY <2>1, <3>2, AnnounceProgress
    <2> QED
        BY <1>1, <2>1, NoProgress DEF MilvusReader
<1>2. CASE pc = "open"
    BY <1>2, NoProgress DEF MilvusReader
<1>3. CASE pc = "read"
    <2>0. MilvusQuery.limit \subseteq Int /\ MilvusQuery.offset \in Int
        BY <1>3, MilvusQueryOf DEF TypeInv, ControlInv, Parsed
    <2>1. pos \in Nat /\ Len(source.rows) \in Nat /\ Len(view.rows) \in Nat
        BY TablesOK DEF TypeInv, ControlInv
    <2>2. ASSUME NEW rows, Len(rows) \in Nat, NEW from \in Int, NEW size \in Int
          PROVE  Len(FromOffset(rows, from, size)) \in Nat
        <3>1. from + 1 \in Int /\ Len(rows) \in Int /\ {size} \subseteq Int
            BY <2>2
        <3> QED
            BY <3>1, LimitedLen DEF FromOffset
    <2> DEFINE size == PageSize(MilvusQuery.limit)
               page == FromOffset(source.rows, MilvusQuery.offset + pos, size)
               slice == FromOffset(WantedRows(view), pos, BatchSize)
    <2>3. Len(page) \in Nat
        <3>1. size \in Int /\ MilvusQuery.offset + pos \in Int
            BY <2>0, <2>1, PageSizeInt DEF TypeInv
        <3> HIDE DEF size
        <3> QED
            BY <2>1, <2>2, <3>1
    <2>4. Len(slice) \in Nat
        <3>1. WantedRows(view) = Limited(SubSeq(view.rows, MilvusQuery.offset + 1, Len(view.rows)), MilvusQuery.limit)
            BY <1>3 DEF WantedRows, TypeInv, Parsed
        <3>2. Len(WantedRows(view)) \in Nat
            <4>1. MilvusQuery.offset + 1 \in Int
                BY <2>0
            <4> QED
                BY <2>0, <2>1, <3>1, <4>1, LimitedLen
        <3> QED
            BY <2>1, <2>2, <3>2, ReaderAssumption
    <2>5. UNCHANGED schema /\ (pos' = pos \/ pos' = pos + Len(page) \/ pos' = pos + Len(slice))
        BY <1>3 DEF MilvusReader, read_query_paginated, SendPage
    <2> HIDE DEF page, slice
    <2> QED
        BY <2>3, <2>4, <2>5, LenProgress, RowProgress
<1> QED
    BY <1>1, <1>2, <1>3 DEF MilvusReader

LEMMA FileTyped ==
    ASSUME TypeInv, provider \in {"s3", "uri"}, NEW format, NEW path, NEW read,
           NEW columns \in FileSchema(format, source, path, read), format \in Formats
    PROVE  Typed(columns)
<1>1. CASE format = "csv"
    BY <1>1, CsvTyped DEF FileSchema
<1>2. CASE format = "jsonl"
    BY <1>2, JsonTyped DEF FileSchema, read_jsonl_schema
<1>3. CASE format = "json"
    BY <1>3, JsonTyped DEF FileSchema, read_json_schema
<1>4. CASE format = "parquet"
    <2>1. columns = source.cols
        BY <1>4 DEF FileSchema
    <2> QED
        BY <2>1, FileAssumption, ReaderAssumption DEF TypeInv, ControlInv, SessionOK, Typed
<1> QED
    BY <1>1, <1>2, <1>3, <1>4 DEF Formats

LEMMA AnnounceFileProgress ==
    ASSUME TypeInv, provider \in {"s3", "uri"}, NEW format \in Formats, NEW path, NEW keeps,
           AnnounceFile(format, path, keeps)
    PROVE  Progress
<1>1. PICK read \in SampleLengths(Bytes(format, source)) :
        LET columns == FileSchema(format, source, path, read)
        IN  \/ Refuse
            \/ columns # {} /\ schema' = (CHOOSE c \in columns : TRUE) /\ pos' = pos
    BY DEF AnnounceFile, worldVars
<1>2. CASE Refuse
    BY <1>2, NoProgress DEF Refuse, progressVars
<1>3. CASE ~ Refuse
    <2>1. schema' \in FileSchema(format, source, path, read) /\ pos' = pos
        BY <1>1, <1>3
    <2>2. Typed(schema')
        BY <2>1, FileTyped
    <2> QED
        BY <2>1, <2>2 DEF Progress, Typed, TypeInv
<1> QED
    BY <1>2, <1>3

LEMMA BytesProgress ==
    ASSUME TypeInv, NEW format, NextBytes(format), UNCHANGED schema PROVE Progress
<1> DEFINE length == Len(Bytes(format, view))
           most == Min({MaxChunk, length - pos})
<1>1. length \in Nat /\ pos \in Nat
    BY TablesOK, BytesLen DEF TypeInv, ControlInv
<1> HIDE DEF length
<1>2. most \in Int
    <2>1. MaxChunk \in Int /\ length - pos \in Int
        BY <1>1, FileAssumption
    <2> QED
        BY <2>1, MinOfTwo
<1> HIDE DEF most
<1>3. \E n \in 1 .. most : pos' = pos \/ pos' = pos + n
    BY DEF NextBytes, most, length
<1>4. pos' \in Nat
    BY <1>1, <1>2, <1>3
<1> QED
    BY <1>4 DEF Progress, TypeInv, Typed

LEMMA ReadFileProgress ==
    ASSUME TypeInv, NEW format \in Formats, NEW path, ReadFile(format, path) PROVE Progress
<1>1. UNCHANGED schema
    BY DEF ReadFile
<1>2. ASSUME decode_stream(format) PROVE Progress
    BY <1>1, <1>2, BytesProgress, NoProgress DEF decode_stream, DecodeChunk
<1>3. ASSUME pos' = pos + Len(NextSlice(view.rows)) PROVE Progress
    <2>1. pos + 1 \in Int /\ Min({pos + BatchSize, Len(view.rows)}) \in Int
        <3>1. pos + 1 \in Int /\ pos + BatchSize \in Int /\ Len(view.rows) \in Int
            BY TablesOK, ReaderAssumption DEF TypeInv, ControlInv
        <3> QED
            BY <3>1, MinOfTwo
    <2>2. Len(NextSlice(view.rows)) \in Nat
        BY <2>1 DEF NextSlice
    <2> QED
        BY <1>1, <1>3, <2>2, LenProgress
<1> QED
    BY <1>2, <1>3 DEF ReadFile, Formats, read_json_batches, read_parquet_batches

LEMMA S3Progress == ASSUME TypeInv, S3Reader, provider = "s3", ~ request.binary PROVE Progress
<1> DEFINE formats == FormatOf(request.extension, request.hint)
           format == CHOOSE f \in formats : TRUE
<1> USE DEF Refuse, Begin, worldVars, progressVars
<1>0. formats # {} => format \in Formats
    BY FormatsKnown
<1>1. CASE pc = "schema"
    <2>1. ASSUME formats # {}, AnnounceFile(format, {}, format = "json") PROVE Progress
        BY <1>0, <2>1, AnnounceFileProgress
    <2> QED
        BY <1>1, <2>1, NoProgress DEF S3Reader, ReadFile
<1>2. CASE pc = "open"
    BY <1>2, NoProgress DEF S3Reader, ReadFile
<1>3. CASE pc = "read"
    <2>1. formats # {} /\ ReadFile(format, {})
        BY <1>3 DEF S3Reader, TypeInv, ControlInv, FormatKnown
    <2> QED
        BY <1>0, <2>1, ReadFileProgress
<1> QED
    BY <1>1, <1>2, <1>3 DEF S3Reader, ReadFile

LEMMA UriProgress == ASSUME TypeInv, UriReader, provider = "uri", ~ request.binary PROVE Progress
<1> USE DEF Refuse, worldVars, progressVars
<1>1. CASE pc = "schema"
    <2> DEFINE format == CHOOSE f \in UriFormat(source) : TRUE
    <2>1. ASSUME UriFormat(source) # {}, AnnounceFile(format, UriQuery.data_path, TRUE) PROVE Progress
        <3>1. format \in Formats
            BY <2>1, UriFormats
        <3> QED
            BY <2>1, <3>1, AnnounceFileProgress
    <2> QED
        BY <1>1, <2>1, NoProgress DEF UriReader, fetch_response
<1>2. CASE pc = "open"
    BY <1>2, NoProgress DEF UriReader
<1>3. CASE pc = "read"
    <2> DEFINE format == CHOOSE f \in UriFormat(view) : TRUE
    <2>1. UriFormat(view) # {} /\ ReadFile(format, UriQuery.data_path)
        BY <1>3 DEF UriReader, TypeInv, ControlInv, FormatKnown
    <2>2. format \in Formats
        BY <2>1, UriFormats
    <2> QED
        BY <2>1, <2>2, ReadFileProgress
<1> QED
    BY <1>1, <1>2, <1>3 DEF UriReader

LEMMA BinaryProgress == ASSUME TypeInv, S3Binary \/ UriBinary PROVE Progress
<1> USE DEF Refuse, worldVars, progressVars
<1>1. ASSUME OpenBinary PROVE Progress
    BY <1>1 DEF OpenBinary, Progress, Typed, TypeInv, ArrowTypes
<1>2. ASSUME ReadBinary("csv") PROVE Progress
    BY <1>2, NoProgress, BytesProgress DEF ReadBinary
<1> QED
    BY <1>1, <1>2, NoProgress DEF S3Binary, UriBinary

LEMMA TypeStarts == ReadersInit => TypeInv
<1> QED
    BY ControlStarts DEF ReadersInit, SessionInit, TypeInv, Typed, Parsed

LEMMA TypeSteps == TypeInv /\ [ReadersNext]_readerVars => TypeInv'
<1> SUFFICES ASSUME TypeInv, [ReadersNext]_readerVars PROVE TypeInv'
    OBVIOUS
<1>1. ControlInv'
    BY ControlSteps DEF TypeInv
<1>2. CASE Reader
    <2>1. Progress
        BY <1>2, PgProgress, SqliteProgress, Neo4jProgress, EsProgress, MilvusProgress, S3Progress,
           UriProgress, BinaryProgress DEF Reader
    <2> QED
        BY <1>1, <1>2, <2>1, ParsedStays DEF TypeInv, Progress
<1>3. CASE World
    <2>1. UNCHANGED <<provider, request, schema, pos>> /\ pc' \in {pc, "stuck", "done"}
        BY <1>3 DEF World, Change, SourceFails, Stalls, ClientDrops, PitExpires, Stop, worldVars, progressVars
    <2> QED
        BY <1>1, <2>1 DEF TypeInv, Typed, Parsed
<1>4. CASE UNCHANGED readerVars
    BY <1>1, <1>4 DEF readerVars, TypeInv, Typed, Parsed
<1> QED
    BY <1>2, <1>3, <1>4 DEF ReadersNext

LEMMA TypeInvariance == ReadersSpec => []TypeInv
<1> QED
    BY TypeStarts, TypeSteps, PTL DEF ReadersSpec

(***************************************************************************)
(* The state of a reader is well formed, whatever the tables, requests and *)
(* bounds: what it announces are types of Arrow, it is done exactly when   *)
(* its stream has an outcome, and its place in the source is a number,     *)
(* however long pages and reads are.                                       *)
(***************************************************************************)
THEOREM ReadersTypeCorrect == ReadersSpec => []ReadersTypeOK
<1>1. TypeInv => ReadersTypeOK
    BY DEF TypeInv, ControlInv, SessionOK, Typed, ReadersTypeOK
<1> QED
    BY <1>1, TypeInvariance, PTL

(***************************************************************************)
(* Sequences, element by element.                                          *)
(***************************************************************************)
LEMMA SubSeqIn ==
    ASSUME NEW A, NEW s \in Seq(A), NEW m \in Nat \ {0}, NEW n \in Int, n <= Len(s)
    PROVE  SubSeq(s, m, n) \in Seq(A) /\ Len(SubSeq(s, m, n)) = IF m <= n THEN n - m + 1 ELSE 0
<1>1. Len(s) \in Nat /\ \A i \in 1 .. Len(s) : s[i] \in A
    BY LenProperties, ElementOfSeq
<1> QED
    BY <1>1, SubSeqProperties

IsSeq(s) == s \in Seq(Range(s))

LEMMA SeqIn == ASSUME NEW A, NEW s \in Seq(A) PROVE IsSeq(s)
<1> QED
    BY RangeSeq DEF IsSeq

LEMMA SeqLen == ASSUME NEW s, IsSeq(s) PROVE Len(s) \in Nat /\ DOMAIN s = 1 .. Len(s)
<1> QED
    BY LenProperties DEF IsSeq

LEMMA EmptyIs == IsSeq(<<>>) /\ Len(<<>>) = 0
<1> QED
    BY DEF IsSeq

LEMMA SameSeq ==
    ASSUME NEW s, IsSeq(s), NEW t, IsSeq(t), Len(s) = Len(t), \A i \in 1 .. Len(s) : s[i] = t[i]
    PROVE  s = t
<1> DEFINE A == Range(s) \cup Range(t)
<1>1. s \in Seq(A) /\ t \in Seq(A)
    BY SeqMonotonic DEF IsSeq
<1> HIDE DEF A
<1> QED
    BY <1>1, SeqEqual

LEMMA EmptyWhenLen == ASSUME NEW s, IsSeq(s) PROVE s = <<>> <=> Len(s) = 0
<1> QED
    BY EmptySeq DEF IsSeq

LEMMA AsSeq ==
    ASSUME NEW n \in Nat, NEW f, f = [i \in 1 .. n |-> f[i]] PROVE IsSeq(f) /\ Len(f) = n
<1>1. \A i \in 1 .. n : f[i] \in Range(f)
    BY DEF Range
<1>2. [i \in 1 .. n |-> f[i]] \in Seq(Range(f))
    BY <1>1, IsASeq
<1>3. Len([i \in 1 .. n |-> f[i]]) = n
    OBVIOUS
<1> QED
    BY <1>2, <1>3 DEF IsSeq

LEMMA ConcatIs ==
    ASSUME NEW s, IsSeq(s), NEW t, IsSeq(t)
    PROVE  /\ IsSeq(s \o t) /\ Len(s \o t) = Len(s) + Len(t)
           /\ \A i \in 1 .. Len(s) : (s \o t)[i] = s[i]
           /\ \A i \in 1 .. Len(t) : (s \o t)[Len(s) + i] = t[i]
<1> DEFINE A == Range(s) \cup Range(t)
<1>1. s \in Seq(A) /\ t \in Seq(A)
    BY SeqMonotonic DEF IsSeq
<1> HIDE DEF A
<1>2. /\ s \o t \in Seq(A) /\ Len(s \o t) = Len(s) + Len(t)
      /\ \A i \in 1 .. Len(s) + Len(t) : (s \o t)[i] = IF i <= Len(s) THEN s[i] ELSE t[i - Len(s)]
    BY <1>1, ConcatProperties
<1>3. Len(s) \in Nat /\ Len(t) \in Nat
    BY SeqLen
<1>4. ASSUME NEW i \in 1 .. Len(s) PROVE (s \o t)[i] = s[i]
    BY <1>2, <1>3
<1>5. ASSUME NEW i \in 1 .. Len(t) PROVE (s \o t)[Len(s) + i] = t[i]
    <2>1. Len(s) + i \in 1 .. Len(s) + Len(t) /\ ~ (Len(s) + i <= Len(s)) /\ (Len(s) + i) - Len(s) = i
        BY <1>3
    <2> QED
        BY <1>2, <2>1
<1> QED
    BY <1>2, <1>4, <1>5, SeqIn

LEMMA AppendIs ==
    ASSUME NEW s, IsSeq(s), NEW x
    PROVE  /\ IsSeq(Append(s, x)) /\ Len(Append(s, x)) = Len(s) + 1
           /\ \A i \in 1 .. Len(s) : Append(s, x)[i] = s[i]
           /\ Append(s, x)[Len(s) + 1] = x
<1> DEFINE A == Range(s) \cup {x}
<1>1. s \in Seq(A) /\ x \in A
    BY SeqMonotonic DEF IsSeq
<1> HIDE DEF A
<1>2. /\ Append(s, x) \in Seq(A) /\ Len(Append(s, x)) = Len(s) + 1
      /\ \A i \in 1 .. Len(s) : Append(s, x)[i] = s[i]
      /\ Append(s, x)[Len(s) + 1] = x
    BY <1>1, AppendProperties
<1> QED
    BY <1>2, SeqIn

LEMMA SubSeqIs ==
    ASSUME NEW s, IsSeq(s), NEW m \in Nat \ {0}, NEW n \in Int, n <= Len(s)
    PROVE  /\ IsSeq(SubSeq(s, m, n))
           /\ Len(SubSeq(s, m, n)) = IF m <= n THEN n - m + 1 ELSE 0
           /\ \A i \in 1 .. Len(SubSeq(s, m, n)) : SubSeq(s, m, n)[i] = s[m + i - 1]
<1>1. s \in Seq(Range(s)) /\ Len(s) \in Nat
    BY SeqLen DEF IsSeq
<1>2. /\ SubSeq(s, m, n) \in Seq(Range(s))
      /\ Len(SubSeq(s, m, n)) = IF m <= n THEN n - m + 1 ELSE 0
    BY <1>1, SubSeqIn
<1>3. \A i \in 1 .. Len(SubSeq(s, m, n)) : SubSeq(s, m, n)[i] = s[m + i - 1]
    BY <1>1, <1>2, SubSeqProperties
<1> QED
    BY <1>2, <1>3, SeqIn

LEMMA PrefixIs ==
    ASSUME NEW s, IsSeq(s), NEW t, IsSeq(t)
    PROVE  IsPrefix(s, t) <=> Len(s) <= Len(t) /\ \A i \in 1 .. Len(s) : s[i] = t[i]
<1>1. Len(s) \in Nat /\ Len(t) \in Nat
    BY SeqLen
<1>2. CASE Len(s) <= Len(t)
    <2> DEFINE a == SubSeq(s, 1, Len(s))
               b == SubSeq(t, 1, Len(s))
    <2>1. /\ IsSeq(a) /\ Len(a) = Len(s) /\ \A i \in 1 .. Len(s) : a[i] = s[i]
        <3>1. Len(a) = Len(s) /\ \A i \in 1 .. Len(a) : a[i] = s[1 + i - 1]
            BY <1>1, SubSeqIs
        <3>2. \A i \in 1 .. Len(s) : 1 + i - 1 = i
            BY <1>1
        <3> QED
            BY <1>1, <3>1, <3>2, SubSeqIs
    <2>2. /\ IsSeq(b) /\ Len(b) = Len(s) /\ \A i \in 1 .. Len(s) : b[i] = t[i]
        <3>1. Len(b) = Len(s) /\ \A i \in 1 .. Len(b) : b[i] = t[1 + i - 1]
            BY <1>1, <1>2, SubSeqIs
        <3>2. \A i \in 1 .. Len(s) : 1 + i - 1 = i
            BY <1>1
        <3> QED
            BY <1>1, <1>2, <3>1, <3>2, SubSeqIs
    <2> HIDE DEF a, b
    <2>3. a = b <=> \A i \in 1 .. Len(s) : s[i] = t[i]
        <3>1. ASSUME \A i \in 1 .. Len(s) : s[i] = t[i] PROVE a = b
            BY <2>1, <2>2, <3>1, SameSeq
        <3>2. ASSUME a = b PROVE \A i \in 1 .. Len(s) : s[i] = t[i]
            BY <2>1, <2>2, <3>2
        <3> QED
            BY <3>1, <3>2
    <2> QED
        BY <1>2, <2>3 DEF IsPrefix, a, b
<1> QED
    BY <1>2 DEF IsPrefix

LEMMA FlattenAppend ==
    ASSUME NEW A, NEW s \in Seq(Seq(A)), NEW t \in Seq(A)
    PROVE  FlattenSeq(Append(s, t)) = FlattenSeq(s) \o t
<1> DEFINE u == Append(s, t)
           N == Len(s)
<1>1. /\ N \in Nat /\ u \in Seq(Seq(A)) /\ u # <<>> /\ Len(u) = N + 1
      /\ u[N + 1] = t /\ \A i \in 1 .. N : u[i] = s[i]
    BY LenProperties, AppendProperties
<1> HIDE DEF u
<1>2. PICK g \in [1 .. Len(u) -> Seq(A)] :
             /\ FlattenSeq(u) = g[Len(u)] /\ g[1] = u[1]
             /\ \A i \in 1 .. Len(u) - 1 : g[i + 1] = g[i] \o u[i + 1]
    BY <1>1, FlattenDef
<1>3. CASE s = <<>>
    <2>1. N = 0 /\ FlattenSeq(s) = <<>>
        BY <1>3 DEF FlattenSeq
    <2>2. FlattenSeq(u) = t
        BY <1>1, <1>2, <2>1
    <2>3. <<>> \o t = t
        BY ConcatEmptySeq
    <2> QED
        BY <2>1, <2>2, <2>3 DEF u
<1>4. CASE s # <<>>
    <2>1. PICK f \in [1 .. N -> Seq(A)] :
             /\ FlattenSeq(s) = f[N] /\ f[1] = s[1]
             /\ \A i \in 1 .. N - 1 : f[i + 1] = f[i] \o s[i + 1]
        BY <1>4, FlattenDef
    <2> DEFINE M == N - 1
               G == {i \in Nat : g[i + 1] = f[i + 1]}
    <2>2. M \in Nat /\ N = M + 1
        BY <1>1, <1>4, EmptySeq
    <2> HIDE DEF N, M
    <2>3. 0 \in G
        <3>1. 1 \in 1 .. N /\ 0 + 1 = 1
            BY <2>2
        <3> QED
            BY <1>1, <1>2, <2>1, <3>1
    <2>4. \A i \in 0 .. M - 1 : i \in G => i + 1 \in G
        <3> SUFFICES ASSUME NEW i \in 0 .. M - 1, i \in G PROVE i + 1 \in G
            OBVIOUS
        <3> DEFINE j == i + 1
        <3>0. j \in Nat /\ g[j] = f[j]
            BY <2>2
        <3>1. j \in 1 .. N - 1 /\ j \in 1 .. Len(u) - 1 /\ j + 1 \in 1 .. N
            BY <1>1, <2>2
        <3>2. g[j] = f[j]
            BY <3>0
        <3> HIDE DEF j
        <3>3. g[j + 1] = f[j + 1]
            BY <1>1, <1>2, <2>1, <3>1, <3>2
        <3>4. j \in G
            BY <3>0, <3>3
        <3> QED
            BY <3>4 DEF j
    <2> HIDE DEF G
    <2>5. M \in G
        <3>1. 0 .. M \subseteq G
            BY <2>2, <2>3, <2>4, Inductive
        <3> QED
            BY <2>2, <3>1
    <2>6. g[N] = f[N]
        BY <2>2, <2>5 DEF G
    <2>7. N \in 1 .. Len(u) - 1 /\ N + 1 = Len(u)
        BY <1>1, <2>2
    <2>8. g[N + 1] = g[N] \o u[N + 1]
        BY <1>2, <2>7
    <2>9. FlattenSeq(u) = f[N] \o t
        BY <1>1, <1>2, <2>6, <2>7, <2>8
    <2> QED
        BY <2>1, <2>9 DEF u, N
<1> QED
    BY <1>3, <1>4

(***************************************************************************)
(* What a client has got: the rows of the batches, one after another.      *)
(***************************************************************************)
BatchesOK(batches) == IsSeq(batches) /\ \A i \in DOMAIN batches : IsSeq(batches[i].rows)
Flat(batches) == FlattenSeq([i \in DOMAIN batches |-> batches[i].rows])

LEMMA RowsOfBatches ==
    ASSUME NEW batches, BatchesOK(batches), NEW A, \A i \in DOMAIN batches : batches[i].rows \in Seq(A)
    PROVE  [i \in DOMAIN batches |-> batches[i].rows] \in Seq(Seq(A))
<1> DEFINE r == [i \in DOMAIN batches |-> batches[i].rows]
           n == Len(batches)
<1>1. n \in Nat /\ DOMAIN batches = 1 .. n
    BY SeqLen DEF BatchesOK
<1> HIDE DEF n
<1>2. [i \in 1 .. n |-> batches[i].rows] \in Seq(Seq(A))
    BY <1>1, IsASeq
<1> QED
    BY <1>1, <1>2

LEMMA FlatIs ==
    ASSUME NEW batches, BatchesOK(batches) PROVE IsSeq(Flat(batches))
<1> DEFINE A == UNION {Range(batches[i].rows) : i \in DOMAIN batches}
           r == [i \in DOMAIN batches |-> batches[i].rows]
<1>1. ASSUME NEW i \in DOMAIN batches PROVE batches[i].rows \in Seq(A)
    <2>1. Range(batches[i].rows) \subseteq A
        OBVIOUS
    <2>2. batches[i].rows \in Seq(Range(batches[i].rows))
        BY DEF BatchesOK, IsSeq
    <2> HIDE DEF A
    <2> QED
        BY <2>1, <2>2, SeqMonotonic
<1> HIDE DEF A
<1>2. r \in Seq(Seq(A))
    BY <1>1, RowsOfBatches
<1> HIDE DEF r
<1>3. FlattenSeq(r) \in Seq(A)
    BY <1>2, FlattenType
<1> QED
    BY <1>3, SeqIn DEF Flat, r

LEMMA FlatAppend ==
    ASSUME NEW batches, BatchesOK(batches), NEW b, IsSeq(b.rows)
    PROVE  BatchesOK(Append(batches, b)) /\ Flat(Append(batches, b)) = Flat(batches) \o b.rows
<1> DEFINE B == UNION {Range(batches[i].rows) : i \in DOMAIN batches}
           A == B \cup Range(b.rows)
           r == [i \in DOMAIN batches |-> batches[i].rows]
           more == Append(batches, b)
           n == Len(batches)
<1>1. ASSUME NEW i \in DOMAIN batches PROVE batches[i].rows \in Seq(A)
    <2>1. Range(batches[i].rows) \subseteq A
        OBVIOUS
    <2>2. batches[i].rows \in Seq(Range(batches[i].rows))
        BY DEF BatchesOK, IsSeq
    <2> HIDE DEF A
    <2> QED
        BY <2>1, <2>2, SeqMonotonic
<1>2. b.rows \in Seq(A)
    <2> HIDE DEF B
    <2>1. Range(b.rows) \subseteq A
        OBVIOUS
    <2>2. b.rows \in Seq(Range(b.rows))
        BY DEF IsSeq
    <2> HIDE DEF A
    <2> QED
        BY <2>1, <2>2, SeqMonotonic
<1> HIDE DEF A
<1>3. r \in Seq(Seq(A))
    BY <1>1, RowsOfBatches
<1>4. /\ n \in Nat /\ DOMAIN batches = 1 .. n /\ IsSeq(more) /\ Len(more) = n + 1
      /\ \A i \in 1 .. n : more[i] = batches[i]
      /\ more[n + 1] = b
    BY SeqLen, AppendIs DEF BatchesOK
<1>5. DOMAIN more = 1 .. n + 1
    BY <1>4, SeqLen
<1> HIDE DEF more, n
<1>6. BatchesOK(more)
    <2>1. ASSUME NEW i \in 1 .. n + 1 PROVE IsSeq(more[i].rows)
        <3>1. i \in 1 .. n \/ i = n + 1
            BY <1>4
        <3> QED
            BY <1>4, <3>1 DEF BatchesOK
    <2> QED
        BY <1>4, <1>5, <2>1 DEF BatchesOK
<1>7. Append(r, b.rows) = [i \in DOMAIN more |-> more[i].rows]
    <2> DEFINE q == [i \in DOMAIN more |-> more[i].rows]
    <2>1. Len(r) = n
        BY <1>4
    <2>2. /\ Append(r, b.rows) \in Seq(Seq(A)) /\ Len(Append(r, b.rows)) = n + 1
          /\ \A i \in 1 .. n : Append(r, b.rows)[i] = r[i]
          /\ Append(r, b.rows)[n + 1] = b.rows
        BY <1>2, <1>3, <2>1, AppendProperties
    <2>3. DOMAIN Append(r, b.rows) = 1 .. n + 1
        BY <2>2, LenProperties
    <2>4. \A i \in 1 .. n : q[i] = r[i]
        BY <1>4, <1>5
    <2>5. q[n + 1] = b.rows
        BY <1>4, <1>5
    <2>6. \A i \in 1 .. n + 1 : Append(r, b.rows)[i] = q[i]
        <3> SUFFICES ASSUME NEW i \in 1 .. n + 1 PROVE Append(r, b.rows)[i] = q[i]
            OBVIOUS
        <3>1. i \in 1 .. n \/ i = n + 1
            BY <1>4
        <3> HIDE DEF q, r
        <3> QED
            BY <2>2, <2>4, <2>5, <3>1
    <2>7. DOMAIN q = 1 .. n + 1
        BY <1>5
    <2>8. q = [i \in 1 .. n + 1 |-> q[i]]
        BY <2>7
    <2>9. Append(r, b.rows) = [i \in 1 .. n + 1 |-> Append(r, b.rows)[i]]
        BY <2>2, <2>3
    <2> HIDE DEF q, r
    <2>10. Append(r, b.rows) = q
        BY <2>6, <2>8, <2>9
    <2> QED
        BY <2>10 DEF q
<1> HIDE DEF r
<1>8. FlattenSeq(Append(r, b.rows)) = FlattenSeq(r) \o b.rows
    BY <1>2, <1>3, FlattenAppend
<1> QED
    BY <1>6, <1>7, <1>8 DEF Flat, r, more

(***************************************************************************)
(* A stream that is on its way: the client has got the first rows of all,  *)
(* and more of them, in their order, wait to be sent.                      *)
(***************************************************************************)
Continues(got, more, all) ==
    /\ IsSeq(got) /\ IsSeq(more) /\ IsSeq(all)
    /\ Len(got) + Len(more) <= Len(all)
    /\ \A i \in 1 .. Len(got) : got[i] = all[i]
    /\ \A i \in 1 .. Len(more) : more[i] = all[Len(got) + i]

LEMMA ContinuesStart == ASSUME NEW all, IsSeq(all) PROVE Continues(<<>>, <<>>, all)
<1> QED
    BY EmptyIs, SeqLen DEF Continues

LEMMA ContinuesMore ==
    ASSUME NEW got, NEW more, NEW all, Continues(got, more, all), NEW new, IsSeq(new),
           Len(got) + Len(more) + Len(new) <= Len(all),
           \A i \in 1 .. Len(new) : new[i] = all[Len(got) + Len(more) + i]
    PROVE  Continues(got, more \o new, all)
<1> DEFINE m == more \o new
<1>1. /\ IsSeq(m) /\ Len(m) = Len(more) + Len(new)
      /\ \A i \in 1 .. Len(more) : m[i] = more[i]
      /\ \A i \in 1 .. Len(new) : m[Len(more) + i] = new[i]
    BY ConcatIs DEF Continues
<1>2. Len(got) \in Nat /\ Len(more) \in Nat /\ Len(new) \in Nat /\ Len(all) \in Nat
    BY SeqLen DEF Continues
<1> HIDE DEF m
<1>3. ASSUME NEW i \in 1 .. Len(m) PROVE m[i] = all[Len(got) + i]
    <2>1. CASE i \in 1 .. Len(more)
        BY <1>1, <2>1 DEF Continues
    <2>2. CASE i \notin 1 .. Len(more)
        <3> DEFINE j == i - Len(more)
        <3>1. j \in 1 .. Len(new) /\ i = Len(more) + j /\ Len(got) + i = Len(got) + Len(more) + j
            BY <1>1, <1>2, <2>2
        <3> HIDE DEF j
        <3> QED
            BY <1>1, <3>1
    <2> QED
        BY <2>1, <2>2
<1>4. Len(got) + Len(m) <= Len(all)
    BY <1>1, <1>2
<1> QED
    BY <1>1, <1>3, <1>4 DEF Continues, m

LEMMA ContinuesSend ==
    ASSUME NEW got, NEW more, NEW all, Continues(got, more, all)
    PROVE  Continues(got \o more, <<>>, all) /\ Len(got \o more) = Len(got) + Len(more)
<1> DEFINE g == got \o more
<1>1. /\ IsSeq(g) /\ Len(g) = Len(got) + Len(more)
      /\ \A i \in 1 .. Len(got) : g[i] = got[i]
      /\ \A i \in 1 .. Len(more) : g[Len(got) + i] = more[i]
    BY ConcatIs DEF Continues
<1>2. Len(got) \in Nat /\ Len(more) \in Nat /\ Len(all) \in Nat
    BY SeqLen DEF Continues
<1> HIDE DEF g
<1>3. ASSUME NEW i \in 1 .. Len(g) PROVE g[i] = all[i]
    <2>1. CASE i \in 1 .. Len(got)
        BY <1>1, <2>1 DEF Continues
    <2>2. CASE i \notin 1 .. Len(got)
        <3> DEFINE j == i - Len(got)
        <3>1. j \in 1 .. Len(more) /\ i = Len(got) + j
            BY <1>1, <1>2, <2>2
        <3> HIDE DEF j
        <3> QED
            BY <1>1, <3>1 DEF Continues
    <2> QED
        BY <2>1, <2>2
<1>4. Len(g) + 0 <= Len(all)
    BY <1>1, <1>2 DEF Continues
<1> QED
    BY <1>1, <1>3, <1>4, EmptyIs DEF Continues, g

LEMMA ContinuesAll ==
    ASSUME NEW got, NEW all, Continues(got, <<>>, all), Len(got) = Len(all)
    PROVE  got = all
<1> QED
    BY SameSeq DEF Continues

LEMMA ContinuesPrefix ==
    ASSUME NEW got, NEW more, NEW all, Continues(got, more, all)
    PROVE  IsPrefix(got, all)
<1>1. Len(got) \in Nat /\ Len(more) \in Nat /\ Len(all) \in Nat
    BY SeqLen DEF Continues
<1>2. Len(got) <= Len(all)
    BY <1>1 DEF Continues
<1> QED
    BY <1>2, PrefixIs DEF Continues

\* Rows that are appended at the source change nothing about it.
LEMMA ContinuesGrown ==
    ASSUME NEW got, NEW more, NEW all, Continues(got, more, all), NEW grown, IsSeq(grown),
           IsPrefix(all, grown)
    PROVE  Continues(got, more, grown)
<1>1. Len(got) \in Nat /\ Len(more) \in Nat /\ Len(all) \in Nat /\ Len(grown) \in Nat
    BY SeqLen DEF Continues
<1>2. Len(all) <= Len(grown) /\ \A i \in 1 .. Len(all) : all[i] = grown[i]
    BY PrefixIs DEF Continues
<1>3. Len(got) + Len(more) <= Len(grown)
    BY <1>1, <1>2 DEF Continues
<1>4. ASSUME NEW i \in 1 .. Len(got) PROVE got[i] = grown[i]
    <2>1. i \in 1 .. Len(all)
        BY <1>1 DEF Continues
    <2> QED
        BY <1>2, <2>1 DEF Continues
<1>5. ASSUME NEW i \in 1 .. Len(more) PROVE more[i] = grown[Len(got) + i]
    <2>1. Len(got) + i \in 1 .. Len(all)
        BY <1>1 DEF Continues
    <2> QED
        BY <1>2, <2>1 DEF Continues
<1> QED
    BY <1>3, <1>4, <1>5 DEF Continues

(***************************************************************************)
(* The order of Elasticsearch.  The values that hits are sorted by end     *)
(* with the place in the shard, so that of two hits one comes first.       *)
(***************************************************************************)
LEMMA FieldInt ==
    ASSUME NEW row, \A i \in DOMAIN row.fields : row.fields[i][2].n \in Int, NEW name
    PROVE  Field(row, name).n \in Int
<1> DEFINE at == {i \in DOMAIN row.fields : row.fields[i][1] = name}
           first == CHOOSE i \in at : TRUE
<1>1. CASE at = {}
    <2>1. Field(row, name) = Null
        BY <1>1 DEF Field
    <2> QED
        BY <2>1 DEF Null
<1>2. CASE at # {}
    <2>1. Field(row, name) = row.fields[first][2]
        BY <1>2 DEF Field
    <2>2. first \in at
        BY <1>2
    <2> QED
        BY <2>1, <2>2
<1> QED
    BY <1>1, <1>2

SortKeys == EsSort(EsQuery.sort)

LEMMA SortKeysOf ==
    ASSUME SessionOK, provider = "elasticsearch", EsRequestInput(request) # {}
    PROVE  IsSeq(SortKeys) /\ \E i \in 1 .. Len(SortKeys) : SortKeys[i] = "_shard_doc"
<1> DEFINE keys == IF EsQuery.sort = {} THEN <<>> ELSE CHOOSE s \in EsQuery.sort : TRUE
<1>1. EsQuery.sort = request.sort
    <2>1. EsQuery \in EsRequestInput(request)
        BY DEF EsQuery
    <2>2. \E i : EsRequestInput(request) = {[index |-> i, size |-> request.size, sort |-> request.sort]}
        BY Zenon DEF EsRequestInput
    <2> QED
        BY <2>1, <2>2
<1>2. \A s \in request.sort : IsSeq(s)
    BY ReaderAssumption DEF SessionOK, IsSeq
<1>3. IsSeq(keys)
    BY <1>1, <1>2, EmptyIs
<1>4. SortKeys = IF \E i \in DOMAIN keys : keys[i] = "_shard_doc" THEN keys ELSE Append(keys, "_shard_doc")
    BY DEF SortKeys, EsSort
<1> HIDE DEF keys
<1>5. CASE \E i \in DOMAIN keys : keys[i] = "_shard_doc"
    BY <1>3, <1>4, <1>5, SeqLen
<1>6. CASE ~ \E i \in DOMAIN keys : keys[i] = "_shard_doc"
    <2>1. SortKeys = Append(keys, "_shard_doc")
        BY <1>4, <1>6
    <2>2. Len(keys) \in Nat
        BY <1>3, SeqLen
    <2>3. IsSeq(SortKeys) /\ Len(SortKeys) = Len(keys) + 1 /\ SortKeys[Len(keys) + 1] = "_shard_doc"
        BY <1>3, <2>1, AppendIs
    <2>4. Len(keys) + 1 \in 1 .. Len(SortKeys)
        BY <2>2, <2>3
    <2> QED
        BY <2>3, <2>4
<1> QED
    BY <1>5, <1>6

\* What the order of the hits rests on: the values by which a row is sorted.
SortedBy(row, n) ==
    /\ DOMAIN SortValues(row) = 1 .. n
    /\ \A i \in 1 .. n : SortValues(row)[i] \in Int

LEMMA SortValuesOf ==
    ASSUME SessionOK, provider = "elasticsearch", EsRequestInput(request) # {}, NEW row,
           row.id \in Int, \A i \in DOMAIN row.fields : row.fields[i][2].n \in Int
    PROVE  /\ SortedBy(row, Len(SortKeys))
           /\ \A i \in 1 .. Len(SortKeys) : SortKeys[i] = "_shard_doc" => SortValues(row)[i] = row.id
<1>1. Len(SortKeys) \in Nat /\ DOMAIN SortKeys = 1 .. Len(SortKeys)
    BY SortKeysOf, SeqLen
<1>2. SortValues(row) = [i \in DOMAIN SortKeys |->
                           IF SortKeys[i] = "_shard_doc" THEN row.id ELSE Field(row, SortKeys[i]).n]
    BY DEF SortValues, SortKeys
<1>3. \A name : Field(row, name).n \in Int
    BY FieldInt
<1> QED
    BY <1>1, <1>2, <1>3 DEF SortedBy

LEMMA BeforeTransitive ==
    ASSUME NEW n \in Nat, NEW a, NEW b, NEW c, SortedBy(a, n), SortedBy(b, n), SortedBy(c, n),
           SortedBefore(a, b), SortedBefore(b, c)
    PROVE  SortedBefore(a, c)
<1> DEFINE u == SortValues(a)
           v == SortValues(b)
           w == SortValues(c)
<1>1. PICK i \in 1 .. n : u[i] < v[i] /\ \A j \in 1 .. i - 1 : u[j] = v[j]
    BY DEF SortedBefore, SortedBy
<1>2. PICK k \in 1 .. n : v[k] < w[k] /\ \A j \in 1 .. k - 1 : v[j] = w[j]
    BY DEF SortedBefore, SortedBy
<1>3. \A j \in 1 .. n : u[j] \in Int /\ v[j] \in Int /\ w[j] \in Int
    BY DEF SortedBy
<1>4. DOMAIN u = 1 .. n
    BY DEF SortedBy
<1>5. SortedBefore(a, c) <=> \E m \in DOMAIN u : u[m] < w[m] /\ \A j \in 1 .. m - 1 : u[j] = w[j]
    BY DEF SortedBefore
<1> HIDE DEF u, v, w
<1>6. CASE i <= k
    <2>1. u[i] < w[i]
        <3>1. v[i] = w[i] \/ v[i] < w[i]
            BY <1>2, <1>6
        <3> QED
            BY <1>1, <1>3, <3>1
    <2>2. \A j \in 1 .. i - 1 : u[j] = w[j]
        <3>1. \A j \in 1 .. i - 1 : j \in 1 .. k - 1
            BY <1>6
        <3> QED
            BY <1>1, <1>2, <3>1
    <2> QED
        BY <1>4, <1>5, <2>1, <2>2
<1>7. CASE k < i
    <2>1. u[k] < w[k]
        <3>1. k \in 1 .. i - 1
            BY <1>7
        <3> QED
            BY <1>1, <1>2, <3>1
    <2>2. \A j \in 1 .. k - 1 : u[j] = w[j]
        <3>1. \A j \in 1 .. k - 1 : j \in 1 .. i - 1
            BY <1>7
        <3> QED
            BY <1>1, <1>2, <3>1
    <2> QED
        BY <1>4, <1>5, <2>1, <2>2
<1> QED
    BY <1>6, <1>7

LEMMA NotBeforeItself == ASSUME NEW n, NEW a, SortedBy(a, n) PROVE ~ SortedBefore(a, a)
<1> QED
    BY DEF SortedBefore, SortedBy

LEMMA OneBefore ==
    ASSUME NEW n \in Nat, NEW a, NEW b, SortedBy(a, n), SortedBy(b, n),
           NEW k \in 1 .. n, SortValues(a)[k] # SortValues(b)[k]
    PROVE  SortedBefore(a, b) \/ SortedBefore(b, a)
<1> DEFINE u == SortValues(a)
           v == SortValues(b)
           D == {i \in 1 .. n : u[i] # v[i]}
<1>1. PICK i \in D : \A j \in D : i <= j
    <2>1. D # {} /\ D \subseteq Nat
        OBVIOUS
    <2> HIDE DEF D
    <2> QED
        BY <2>1, LeastNat
<1>2. i \in 1 .. n /\ u[i] # v[i] /\ \A j \in 1 .. i - 1 : u[j] = v[j]
    <2>1. \A j \in 1 .. i - 1 : j \in 1 .. n /\ ~ (i <= j)
        OBVIOUS
    <2> QED
        BY <1>1, <2>1
<1>3. u[i] \in Int /\ v[i] \in Int /\ DOMAIN u = 1 .. n /\ DOMAIN v = 1 .. n
    BY <1>2 DEF SortedBy
<1>4. u[i] < v[i] \/ v[i] < u[i]
    BY <1>2, <1>3
<1>5. u[i] < v[i] => SortedBefore(a, b)
    BY <1>2, <1>3 DEF SortedBefore
<1>6. v[i] < u[i] => SortedBefore(b, a)
    BY <1>2, <1>3 DEF SortedBefore
<1> QED
    BY <1>4, <1>5, <1>6

Ordered(rows) ==
    /\ IsSeq(rows)
    /\ \A i \in DOMAIN rows : ~ SortedBefore(rows[i], rows[i])
    /\ \A i, j \in DOMAIN rows : i # j => SortedBefore(rows[i], rows[j]) \/ SortedBefore(rows[j], rows[i])
    /\ \A i, j, k \in DOMAIN rows :
         SortedBefore(rows[i], rows[j]) /\ SortedBefore(rows[j], rows[k]) => SortedBefore(rows[i], rows[k])

LEMMA HitsOrdered ==
    ASSUME SessionOK, provider = "elasticsearch", EsRequestInput(request) # {}
    PROVE  Ordered(view.rows)
<1> DEFINE rows == view.rows
           n == Len(SortKeys)
<1>1. IsSeq(rows)
    BY TablesOK DEF IsSeq
<1>2. Sortable(view)
    <2>1. CASE view = NoTable
        <3>1. DOMAIN view.rows = {}
            BY <2>1 DEF NoTable
        <3> QED
            BY <3>1 DEF Sortable
    <2>2. CASE view \in Versions[provider]
        BY <2>2, ReaderAssumption DEF SessionOK
    <2> QED
        BY <2>1, <2>2 DEF SessionOK
<1>3. n \in Nat
    BY SortKeysOf, SeqLen
<1>4. PICK key \in 1 .. n : SortKeys[key] = "_shard_doc"
    BY SortKeysOf
<1>5. ASSUME NEW r \in DOMAIN rows PROVE SortedBy(rows[r], n) /\ SortValues(rows[r])[key] = rows[r].id
    BY <1>2, <1>4, SortValuesOf DEF Sortable
<1> HIDE DEF n
<1>6. \A i, j \in DOMAIN rows : i # j => SortValues(rows[i])[key] # SortValues(rows[j])[key]
    BY <1>2, <1>5 DEF Sortable
<1> HIDE DEF rows
<1>7. \A i, j \in DOMAIN rows : i # j => SortedBefore(rows[i], rows[j]) \/ SortedBefore(rows[j], rows[i])
    BY <1>3, <1>4, <1>5, <1>6, OneBefore
<1>8. \A i \in DOMAIN rows : ~ SortedBefore(rows[i], rows[i])
    BY <1>5, NotBeforeItself
<1>9. \A i, j, k \in DOMAIN rows :
         SortedBefore(rows[i], rows[j]) /\ SortedBefore(rows[j], rows[k]) => SortedBefore(rows[i], rows[k])
    BY <1>3, <1>5, BeforeTransitive
<1>10. Ordered(rows)
    BY <1>1, <1>7, <1>8, <1>9 DEF Ordered
<1> QED
    BY <1>10 DEF rows

\* The hits before a hit.  Their number is the hit's place, and no place is
\* left out.
Earlier(rows, i) == {j \in DOMAIN rows : SortedBefore(rows[j], rows[i])}

LEMMA UpTo == ASSUME NEW n \in Nat PROVE IsFiniteSet(1 .. n) /\ Cardinality(1 .. n) = n
<1>1. IsFiniteSet(1 .. n) /\ Cardinality(1 .. n) = IF 1 > n THEN 0 ELSE n - 1 + 1
    BY FS_Interval
<1> QED
    BY <1>1

LEMMA EarlierCount ==
    ASSUME NEW rows, Ordered(rows), NEW i \in DOMAIN rows
    PROVE  /\ IsFiniteSet(Earlier(rows, i)) /\ Cardinality(Earlier(rows, i)) \in 0 .. Len(rows) - 1
           /\ Cardinality(Earlier(rows, i) \cup {i}) = Cardinality(Earlier(rows, i)) + 1
           /\ Cardinality(Earlier(rows, i) \cup {i}) <= Len(rows)
<1> DEFINE S == Earlier(rows, i)
           D == DOMAIN rows
<1>1. Len(rows) \in Nat /\ D = 1 .. Len(rows)
    BY SeqLen DEF Ordered
<1>2. IsFiniteSet(D) /\ Cardinality(D) = Len(rows)
    BY <1>1, UpTo
<1>3. S \subseteq D /\ i \notin S
    BY DEF Earlier, Ordered
<1> HIDE DEF S
<1>4. IsFiniteSet(S) /\ Cardinality(S) \in Nat
    BY <1>2, <1>3, FS_Subset, FS_CardinalityType
<1>5. Cardinality(S \cup {i}) = Cardinality(S) + 1
    BY <1>3, <1>4, FS_AddElement
<1>6. S \cup {i} \in SUBSET D
    BY <1>3
<1> HIDE DEF D
<1>7. Cardinality(S \cup {i}) <= Len(rows)
    BY <1>2, <1>6, FS_Subset
<1> QED
    BY <1>1, <1>4, <1>5, <1>7 DEF S

LEMMA EarlierLess ==
    ASSUME NEW rows, Ordered(rows), NEW i \in DOMAIN rows, NEW j \in DOMAIN rows,
           SortedBefore(rows[i], rows[j])
    PROVE  Cardinality(Earlier(rows, i)) < Cardinality(Earlier(rows, j))
<1> DEFINE S == Earlier(rows, i) \cup {i}
           T == Earlier(rows, j)
<1>1. S \in SUBSET T
    BY DEF Earlier, Ordered
<1>2. /\ Cardinality(S) = Cardinality(Earlier(rows, i)) + 1 /\ Cardinality(Earlier(rows, i)) \in Nat
      /\ IsFiniteSet(T) /\ Cardinality(T) \in Nat
    BY EarlierCount, FS_CardinalityType
<1> HIDE DEF S, T
<1>3. Cardinality(S) <= Cardinality(T)
    BY <1>1, <1>2, FS_Subset
<1>4. Cardinality(Earlier(rows, i)) < Cardinality(T)
    BY <1>2, <1>3
<1> QED
    BY <1>4 DEF T

LEMMA EveryRank ==
    ASSUME NEW rows, Ordered(rows), NEW k \in 0 .. Len(rows) - 1
    PROVE  \E i \in DOMAIN rows : Cardinality(Earlier(rows, i)) = k
<1> DEFINE N == Len(rows)
           D == DOMAIN rows
           T == 0 .. N - 1
           f == [i \in D |-> Cardinality(Earlier(rows, i))]
<1>1. N \in Nat /\ D = 1 .. N
    BY SeqLen DEF Ordered
<1>2. f \in [D -> T]
    BY EarlierCount
<1>3. \A i, j \in D : f[i] = f[j] => i = j
    <2> SUFFICES ASSUME NEW i \in D, NEW j \in D, i # j PROVE f[i] # f[j]
        OBVIOUS
    <2>1. f[i] < f[j] \/ f[j] < f[i]
        BY EarlierLess DEF Ordered
    <2>2. f[i] \in Int /\ f[j] \in Int
        BY <1>2
    <2> QED
        BY <2>1, <2>2
<1> HIDE DEF f
<1>4. f \in Injection(D, T)
    BY <1>2, <1>3 DEF Injection, IsInjective
<1>5. IsFiniteSet(T) /\ Cardinality(T) = N /\ Cardinality(D) = N
    <2> DEFINE last == N - 1
    <2>1. last \in Int /\ last = N - 1
        BY <1>1
    <2> HIDE DEF last
    <2>2. IsFiniteSet(0 .. last) /\ Cardinality(0 .. last) = IF 0 > last THEN 0 ELSE last - 0 + 1
        <3>1. \A a, b \in Int : IsFiniteSet(a .. b) /\ Cardinality(a .. b) = IF a > b THEN 0 ELSE b - a + 1
            BY FS_Interval
        <3>2. 0 \in Int
            OBVIOUS
        <3> QED
            BY <2>1, <3>1, <3>2, Zenon
    <2>3. Cardinality(0 .. last) = N
        BY <1>1, <2>1, <2>2
    <2> QED
        BY <1>1, <2>1, <2>2, <2>3, UpTo
<1> HIDE DEF D, T
<1>6. f \in Surjection(D, T)
    BY <1>4, <1>5, FS_Injection
<1>7. k \in T
    BY DEF T
<1>8. PICK i \in D : f[i] = k
    BY <1>6, <1>7 DEF Surjection
<1> QED
    BY <1>8 DEF f, D

\* The hits in their order: as many as there are, and the k-th is a hit
\* that k of them do not come after, itself among them.
LEMMA Sorted ==
    ASSUME NEW rows, Ordered(rows)
    PROVE  /\ IsSeq(EsSorted(rows)) /\ Len(EsSorted(rows)) = Len(rows)
           /\ \A k \in 1 .. Len(rows) :
                Cardinality({i \in DOMAIN rows : ~ SortedBefore(EsSorted(rows)[k], rows[i])}) = k
<1> DEFINE N == Len(rows)
           s == EsSorted(rows)
           Rank(i) == Cardinality({j \in DOMAIN rows : SortedBefore(rows[j], rows[i])})
           hit(k) == CHOOSE i \in DOMAIN rows : Rank(i) = k - 1
<1>1. N \in Nat /\ DOMAIN rows = 1 .. N
    BY SeqLen DEF Ordered
<1>2. s = [k \in 1 .. N |-> rows[hit(k)]]
    BY <1>1 DEF EsSorted
<1> HIDE DEF s, hit
<1>3. IsSeq(s) /\ Len(s) = N
    <2>1. s = [k \in 1 .. N |-> s[k]]
        BY <1>2
    <2> QED
        BY <1>1, <2>1, AsSeq
<1>4. ASSUME NEW k \in 1 .. N
      PROVE  Cardinality({i \in DOMAIN rows : ~ SortedBefore(s[k], rows[i])}) = k
    <2> DEFINE m == hit(k)
    <2>1. m \in DOMAIN rows /\ Cardinality(Earlier(rows, m)) = k - 1
        <3>1. k - 1 \in 0 .. Len(rows) - 1
            BY <1>1
        <3>2. \E i \in DOMAIN rows : Rank(i) = k - 1
            BY <3>1, EveryRank DEF Earlier
        <3> QED
            BY <3>2 DEF hit, Earlier
    <2>2. s[k] = rows[m]
        BY <1>2
    <2> HIDE DEF m
    <2>3. {i \in DOMAIN rows : ~ SortedBefore(rows[m], rows[i])} = Earlier(rows, m) \cup {m}
        BY <2>1 DEF Ordered, Earlier
    <2>4. Cardinality(Earlier(rows, m) \cup {m}) = k
        <3>1. Cardinality(Earlier(rows, m) \cup {m}) = (k - 1) + 1
            BY <2>1, EarlierCount
        <3> QED
            BY <3>1
    <2>5. {i \in DOMAIN rows : ~ SortedBefore(s[k], rows[i])} = Earlier(rows, m) \cup {m}
        BY <2>2, <2>3
    <2> QED
        BY <2>4, <2>5
<1> QED
    BY <1>3, <1>4 DEF s

(***************************************************************************)
(* Pages.  A limit cuts rows short; a page is what comes next of them, as  *)
(* many as it may have, and a page that has less is the last.              *)
(***************************************************************************)
LEMMA LimitedIs ==
    ASSUME NEW rows, IsSeq(rows), NEW limit, limit \subseteq Int, IsOption(limit)
    PROVE  /\ IsSeq(Limited(rows, limit)) /\ Len(Limited(rows, limit)) <= Len(rows)
           /\ \A i \in 1 .. Len(Limited(rows, limit)) : Limited(rows, limit)[i] = rows[i]
           /\ limit = {} => Len(Limited(rows, limit)) = Len(rows)
           /\ \A n \in limit :
                Len(Limited(rows, limit)) = IF n >= Len(rows) THEN Len(rows) ELSE IF n >= 1 THEN n ELSE 0
<1>1. Len(rows) \in Nat
    BY SeqLen
<1>2. CASE \E n \in limit : n < Len(rows)
    <2>1. PICK n \in limit : n < Len(rows)
        BY <1>2
    <2>2. n \in Int /\ \A m \in limit : m = n
        BY DEF IsOption
    <2>3. (CHOOSE m \in limit : TRUE) = n
        BY <2>2
    <2> DEFINE s == SubSeq(rows, 1, n)
    <2>4. Limited(rows, limit) = s
        BY <1>2, <2>3 DEF Limited
    <2>5. /\ IsSeq(s) /\ Len(s) = IF 1 <= n THEN n - 1 + 1 ELSE 0
          /\ \A i \in 1 .. Len(s) : s[i] = rows[1 + i - 1]
        BY <1>1, <2>1, <2>2, SubSeqIs
    <2> HIDE DEF s
    <2>6. Len(s) = IF n >= 1 THEN n ELSE 0
        BY <2>2, <2>5
    <2>7. \A i \in 1 .. Len(s) : s[i] = rows[i]
        <3>1. \A i \in 1 .. Len(s) : 1 + i - 1 = i
            BY <2>2, <2>6
        <3> QED
            BY <2>5, <3>1
    <2>8. Len(s) <= Len(rows)
        BY <1>1, <2>1, <2>2, <2>6
    <2> QED
        BY <1>1, <2>1, <2>2, <2>4, <2>5, <2>6, <2>7, <2>8
<1>3. CASE ~ \E n \in limit : n < Len(rows)
    <2>1. Limited(rows, limit) = rows
        BY <1>3 DEF Limited
    <2> QED
        BY <1>1, <1>3, <2>1
<1> QED
    BY <1>2, <1>3

\* At most size rows from a place on.
IsPage(page, rows, from, size) ==
    /\ IsSeq(page)
    /\ \A i \in 1 .. Len(page) : page[i] = rows[from + i]
    /\ size >= 0 => Len(page) <= size
    /\ from + Len(page) <= Len(rows) \/ page = <<>>
    /\ Len(page) < size => from + Len(page) >= Len(rows)

LEMMA PageIs ==
    ASSUME NEW rows, IsSeq(rows), NEW from \in Nat, NEW size \in Int
    PROVE  IsPage(Limited(SubSeq(rows, from + 1, Len(rows)), {size}), rows, from, size)
<1> DEFINE s == SubSeq(rows, from + 1, Len(rows))
           page == Limited(s, {size})
<1>1. Len(rows) \in Nat /\ from + 1 \in Nat \ {0} /\ Len(rows) <= Len(rows)
    BY SeqLen
<1>2. /\ IsSeq(s) /\ Len(s) = IF from + 1 <= Len(rows) THEN Len(rows) - (from + 1) + 1 ELSE 0
      /\ \A i \in 1 .. Len(s) : s[i] = rows[(from + 1) + i - 1]
    BY <1>1, SubSeqIs
<1>3. Len(s) \in Nat /\ (Len(s) = Len(rows) - from \/ (Len(s) = 0 /\ from >= Len(rows)))
    BY <1>1, <1>2
<1>4. \A i \in 1 .. Len(s) : s[i] = rows[from + i]
    <2>1. \A i \in 1 .. Len(s) : (from + 1) + i - 1 = from + i
        BY <1>3
    <2> QED
        BY <1>2, <2>1
<1>5. {size} \subseteq Int /\ IsOption({size})
    BY DEF IsOption
<1> HIDE DEF s
<1>6. /\ IsSeq(page) /\ Len(page) <= Len(s) /\ \A i \in 1 .. Len(page) : page[i] = s[i]
      /\ Len(page) = IF size >= Len(s) THEN Len(s) ELSE IF size >= 1 THEN size ELSE 0
    BY <1>2, <1>5, LimitedIs
<1> HIDE DEF page
<1>7. Len(page) \in Nat /\ (page = <<>> <=> Len(page) = 0)
    BY <1>6, SeqLen, EmptyWhenLen
<1>8. \A i \in 1 .. Len(page) : page[i] = rows[from + i]
    <2>1. \A i \in 1 .. Len(page) : i \in 1 .. Len(s)
        BY <1>3, <1>6, <1>7
    <2> QED
        BY <1>4, <1>6, <2>1
<1>9. size >= 0 => Len(page) <= size
    BY <1>3, <1>6, <1>7
<1>10. from + Len(page) <= Len(rows) \/ page = <<>>
    BY <1>1, <1>3, <1>6, <1>7
<1>11. Len(page) < size => from + Len(page) >= Len(rows)
    BY <1>1, <1>3, <1>6, <1>7
<1>12. IsPage(page, rows, from, size)
    BY <1>6, <1>8, <1>9, <1>10, <1>11 DEF IsPage
<1> QED
    BY <1>12 DEF page, s

LEMMA PageSizeIs ==
    ASSUME NEW limit, limit \subseteq Int, IsOption(limit), pos \in Nat
    PROVE  /\ PageSize(limit) \in Int
           /\ limit = {} => PageSize(limit) = BatchSize
           /\ \A n \in limit : PageSize(limit) = IF n - pos < BatchSize THEN n - pos ELSE BatchSize
<1>1. BatchSize \in Nat
    BY ReaderAssumption
<1>2. limit = {} => PageSize(limit) = BatchSize
    BY DEF PageSize
<1>3. ASSUME NEW n \in limit
      PROVE  PageSize(limit) = IF n - pos < BatchSize THEN n - pos ELSE BatchSize
    <2>1. limit = {n} /\ n \in Int
        BY DEF IsOption
    <2>2. {m - pos : m \in limit} = {n - pos}
        BY <2>1
    <2>3. (CHOOSE r \in {m - pos : m \in limit} : TRUE) = n - pos
        BY <2>2
    <2> QED
        BY <2>1, <2>3 DEF PageSize
<1> QED
    BY <1>2, <1>3, PageSizeInt

\* A reader that gives page after page of the rows within its limit.
LEMMA PagesGoOn ==
    ASSUME NEW rows, IsSeq(rows), NEW limit, limit \subseteq Int, IsOption(limit), pos \in Nat,
           NEW got, Continues(got, <<>>, Limited(rows, limit)), Len(got) = pos,
           NEW page, IsPage(page, rows, pos, PageSize(limit)), PageSize(limit) > 0
    PROVE  /\ Continues(got, page, Limited(rows, limit))
           /\ Len(page) < PageSize(limit) => pos + Len(page) = Len(Limited(rows, limit))
<1> DEFINE all == Limited(rows, limit)
           size == PageSize(limit)
<1>1. /\ IsSeq(all) /\ Len(all) <= Len(rows) /\ \A i \in 1 .. Len(all) : all[i] = rows[i]
      /\ limit = {} => Len(all) = Len(rows)
      /\ \A n \in limit : Len(all) = IF n >= Len(rows) THEN Len(rows) ELSE IF n >= 1 THEN n ELSE 0
    BY LimitedIs
<1>2. /\ size \in Int
      /\ limit = {} => size = BatchSize
      /\ \A n \in limit : size = IF n - pos < BatchSize THEN n - pos ELSE BatchSize
    BY PageSizeIs
<1> HIDE DEF all, size
<1>3. /\ Len(all) \in Nat /\ Len(rows) \in Nat /\ Len(page) \in Nat /\ BatchSize \in Nat
      /\ (page = <<>> <=> Len(page) = 0)
    BY <1>1, SeqLen, EmptyWhenLen, ReaderAssumption DEF IsPage
<1>4. pos <= Len(all)
    BY EmptyIs, <1>3 DEF Continues, all
<1>5. /\ IsSeq(page) /\ \A i \in 1 .. Len(page) : page[i] = rows[pos + i]
      /\ Len(page) <= size
      /\ pos + Len(page) <= Len(rows) \/ page = <<>>
      /\ Len(page) < size => pos + Len(page) >= Len(rows)
    <2>1. size > 0 /\ IsPage(page, rows, pos, size)
        BY DEF size
    <2>2. size >= 0
        BY <1>2, <2>1
    <2> QED
        BY <2>1, <2>2 DEF IsPage
<1>6. pos + Len(page) <= Len(rows)
    BY <1>1, <1>3, <1>4, <1>5
<1>7. pos + Len(page) <= Len(all)
    <2>1. CASE limit = {}
        BY <1>1, <1>6, <2>1
    <2>2. ASSUME NEW n \in limit PROVE pos + Len(page) <= Len(all)
        <3>1. n \in Int /\ Len(all) = IF n >= Len(rows) THEN Len(rows) ELSE IF n >= 1 THEN n ELSE 0
            BY <1>1
        <3>2. size <= n - pos
            BY <1>2, <1>3, <3>1
        <3> QED
            BY <1>2, <1>3, <1>4, <1>5, <1>6, <3>1, <3>2
    <2> QED
        BY <2>1, <2>2
<1>8. \A i \in 1 .. Len(page) : page[i] = all[pos + i]
    <2>1. \A i \in 1 .. Len(page) : pos + i \in 1 .. Len(all)
        BY <1>3, <1>7
    <2> QED
        BY <1>1, <1>5, <2>1
<1>9. Continues(got, page, all)
    <2>1. IsSeq(got) /\ \A i \in 1 .. Len(got) : got[i] = all[i]
        BY DEF Continues, all
    <2> QED
        BY <1>1, <1>5, <1>7, <1>8, <2>1 DEF Continues
<1>10. Len(page) < size => pos + Len(page) = Len(all)
    BY <1>1, <1>3, <1>5, <1>7
<1> QED
    BY <1>9, <1>10 DEF all, size

LEMMA LimitReached ==
    ASSUME NEW rows, IsSeq(rows), NEW limit, limit \subseteq Int, IsOption(limit), pos \in Nat,
           NEW got, Continues(got, <<>>, Limited(rows, limit)), Len(got) = pos,
           NEW n \in limit, n <= pos
    PROVE  got = Limited(rows, limit)
<1> DEFINE all == Limited(rows, limit)
<1>1. Len(all) = IF n >= Len(rows) THEN Len(rows) ELSE IF n >= 1 THEN n ELSE 0
    BY LimitedIs
<1>2. Len(rows) \in Nat /\ pos + 0 <= Len(all) /\ n \in Int
    BY EmptyIs, SeqLen DEF Continues
<1>3. Len(got) = Len(all)
    BY <1>1, <1>2
<1> QED
    BY <1>3, ContinuesAll

\* search_after finds what comes after the last hit that was given.
LEMMA SearchedNext ==
    ASSUME SessionOK, provider = "elasticsearch", EsRequestInput(request) # {}, pos \in Nat,
           IF sent = <<>> THEN pos = 0
           ELSE pos \in 1 .. Len(view.rows) /\ Last(Last(sent).rows) = EsSorted(view.rows)[pos],
           NEW size \in Int
    PROVE  IsPage(SearchAfter(size), EsSorted(view.rows), pos, size)
<1> DEFINE rows == view.rows
           all == EsSorted(view.rows)
           after(row) == sent = <<>> \/ SortedBefore(Last(Last(sent).rows), row)
           passed == {i \in DOMAIN rows : ~ after(rows[i])}
<1>1. Ordered(rows)
    BY HitsOrdered
<1>2. /\ IsSeq(all) /\ Len(all) = Len(rows)
      /\ \A k \in 1 .. Len(rows) : Cardinality({i \in DOMAIN rows : ~ SortedBefore(all[k], rows[i])}) = k
    BY <1>1, Sorted
<1>3. Cardinality(passed) = pos
    <2>1. CASE sent = <<>>
        <3>1. passed = {}
            BY <2>1
        <3> QED
            BY <2>1, <3>1, FS_EmptySet
    <2>2. CASE sent # <<>>
        <3>1. passed = {i \in DOMAIN rows : ~ SortedBefore(all[pos], rows[i])}
            BY <2>2
        <3> QED
            BY <1>2, <2>2, <3>1
    <2> QED
        BY <2>1, <2>2
<1>4. SearchAfter(size) = Limited(SubSeq(all, Cardinality(passed) + 1, Len(all)), {size})
    BY <1>2 DEF SearchAfter
<1> HIDE DEF passed, all
<1>5. SearchAfter(size) = Limited(SubSeq(all, pos + 1, Len(all)), {size})
    BY <1>3, <1>4
<1>6. IsPage(SearchAfter(size), all, pos, size)
    BY <1>2, <1>5, PageIs
<1> QED
    BY <1>6 DEF all

(***************************************************************************)
(* The numbers that the values of a table have, and what is left of them   *)
(* in a column that is narrower.                                           *)
(***************************************************************************)
Numbered(row) == \A i \in DOMAIN row.fields : row.fields[i][2].n \in Int
AllNumbered(rows) == \A r \in DOMAIN rows : Numbered(rows[r])

LEMMA TableNumbered ==
    ASSUME SessionOK, NEW t, t \in {source, view} PROVE AllNumbered(t.rows)
<1>1. CASE t \in Versions[provider]
    BY <1>1, ReaderAssumption, RowAssumption DEF SessionOK, AllNumbered, Numbered
<1>2. CASE t = NoTable
    <2>1. DOMAIN t.rows = {}
        BY <1>2 DEF NoTable
    <2> QED
        BY <2>1 DEF AllNumbered
<1> QED
    BY <1>1, <1>2 DEF SessionOK

LEMMA PageNumbered ==
    ASSUME NEW rows, IsSeq(rows), AllNumbered(rows), NEW from \in Nat, NEW size \in Int
    PROVE  AllNumbered(Limited(SubSeq(rows, from + 1, Len(rows)), {size}))
<1> DEFINE page == Limited(SubSeq(rows, from + 1, Len(rows)), {size})
<1>1. IsPage(page, rows, from, size)
    BY PageIs
<1> HIDE DEF page
<1>2. /\ IsSeq(page) /\ Len(page) \in Nat /\ DOMAIN page = 1 .. Len(page) /\ DOMAIN rows = 1 .. Len(rows)
      /\ page # <<>> => from + Len(page) <= Len(rows)
      /\ Len(rows) \in Nat /\ (page = <<>> <=> Len(page) = 0)
    BY <1>1, SeqLen, EmptyWhenLen DEF IsPage
<1>3. ASSUME NEW i \in DOMAIN page PROVE Numbered(page[i])
    <2>1. from + i \in DOMAIN rows
        BY <1>2
    <2>2. page[i] = rows[from + i]
        BY <1>1, <1>2 DEF IsPage
    <2> QED
        BY <2>1, <2>2 DEF AllNumbered
<1>4. AllNumbered(page)
    BY <1>3 DEF AllNumbered
<1> QED
    BY <1>4 DEF page

LEMMA HitsNumbered ==
    ASSUME SessionOK, provider = "elasticsearch", EsRequestInput(request) # {}, NEW size \in Int
    PROVE  AllNumbered(SearchAfter(size))
<1> DEFINE rows == view.rows
           all == EsSorted(view.rows)
           after(row) == sent = <<>> \/ SortedBefore(Last(Last(sent).rows), row)
           passed == {i \in DOMAIN rows : ~ after(rows[i])}
           Rank(i) == Cardinality({j \in DOMAIN rows : SortedBefore(rows[j], rows[i])})
           hit(k) == CHOOSE i \in DOMAIN rows : Rank(i) = k - 1
<1>1. Ordered(rows) /\ AllNumbered(rows)
    BY HitsOrdered, TableNumbered
<1>2. IsSeq(all) /\ Len(all) = Len(rows)
    BY <1>1, Sorted
<1>3. Len(rows) \in Nat /\ DOMAIN rows = 1 .. Len(rows) /\ DOMAIN all = 1 .. Len(rows)
    BY <1>1, <1>2, SeqLen DEF Ordered
<1>4. AllNumbered(all)
    <2> SUFFICES ASSUME NEW k \in 1 .. Len(rows) PROVE Numbered(all[k])
        BY <1>3 DEF AllNumbered
    <2>1. k - 1 \in 0 .. Len(rows) - 1
        BY <1>3
    <2>2. \E i \in DOMAIN rows : Rank(i) = k - 1
        BY <1>1, <2>1, EveryRank DEF Earlier
    <2>3. hit(k) \in DOMAIN rows
        BY <2>2
    <2>4. all[k] = rows[hit(k)]
        BY <1>3 DEF EsSorted
    <2> QED
        BY <1>1, <2>3, <2>4 DEF AllNumbered
<1>5. Cardinality(passed) \in Nat
    <2>1. IsFiniteSet(1 .. Len(rows)) /\ passed \subseteq 1 .. Len(rows)
        BY <1>3, UpTo
    <2> HIDE DEF passed, rows
    <2> QED
        BY <2>1, FS_Subset, FS_CardinalityType
<1>6. SearchAfter(size) = Limited(SubSeq(all, Cardinality(passed) + 1, Len(all)), {size})
    BY <1>2 DEF SearchAfter
<1> HIDE DEF all, passed
<1> QED
    BY <1>2, <1>4, <1>5, <1>6, PageNumbered

LEMMA FloorNear ==
    ASSUME NEW n \in Int
    PROVE  /\ Floor(n) \in Int /\ Floor(n) - n \in 1 - Fine .. 0
           /\ n % Fine = 0 => Floor(n) = n
<1> QED
    BY DEF Floor, Fine

LEMMA NearestNear ==
    ASSUME NEW n \in Int
    PROVE  /\ Nearest(n) \in Int /\ Nearest(n) - n \in 1 - Fine .. Fine - 1
           /\ n % Fine = 0 => Nearest(n) = n
<1>1. Fine \div 2 = 5 /\ Fine = 10
    BY DEF Fine
<1>2. Nearest(n) = (n + 5) - ((n + 5) % 10)
    BY <1>1 DEF Nearest, Floor
<1> QED
    BY <1>1, <1>2

LEMMA TowardZeroNear ==
    ASSUME NEW n \in Int
    PROVE  /\ TowardZero(n) \in Int /\ TowardZero(n) - n \in 1 - Fine .. Fine - 1
           /\ n % Fine = 0 => TowardZero(n) = n
<1>1. Fine = 10
    BY DEF Fine
<1>2. TowardZero(n) = IF n < 0 THEN - ((- n) - ((- n) % 10)) ELSE n - (n % 10)
    BY <1>1 DEF TowardZero, Floor
<1> QED
    BY <1>1, <1>2

LEMMA FloatNear ==
    ASSUME NEW v, v.n \in Int, v.k \in {"int", "float"}, NEW type \in {"Float32", "Float64"}
    PROVE  as_float(type, v) = v \/ Near(type, as_float(type, v), v)
<1> DEFINE cell == [k |-> v.k, n |-> Nearest(v.n)]
<1>1. cell.k = v.k /\ cell.n - v.n \in 1 - Fine .. Fine - 1 /\ (v.n % Fine = 0 => cell.n = v.n)
    BY NearestNear
<1>2. CASE as_float(type, v) = v
    BY <1>2
<1>3. CASE as_float(type, v) # v
    <2>1. /\ as_float(type, v) = cell
          /\ \/ type = "Float32" /\ (v.k = "float" \/ v.n \notin - Exact[type] .. Exact[type])
             \/ type = "Float64" /\ v.k = "int" /\ v.n \notin - Exact[type] .. Exact[type]
        BY <1>3 DEF as_float
    <2> HIDE DEF cell
    <2> QED
        BY <1>1, <2>1 DEF Near
<1> QED
    BY <1>2, <1>3

LEMMA MillisNear ==
    ASSUME NEW v, v.n \in Int, NEW type \in {"Timestamp_ms", "Timestamp_ms_UTC"}
    PROVE  Near(type, as_millis(v), v)
<1> DEFINE cell == [k |-> v.k, n |-> IF v.k = "float" THEN TowardZero(v.n) ELSE Floor(v.n)]
<1>0. Fine = 10
    BY DEF Fine
<1>1. cell.k = v.k /\ cell.n - v.n \in 1 - Fine .. Fine - 1 /\ (v.n % Fine = 0 => cell.n = v.n)
    BY <1>0, FloorNear, TowardZeroNear
<1>2. as_millis(v) = cell
    BY DEF as_millis
<1> HIDE DEF cell
<1> QED
    BY <1>1, <1>2 DEF Near

(***************************************************************************)
(* The cells.  What each connector makes of a value: the value, its text,  *)
(* null, or what a narrower column can hold of it, unless it fails the     *)
(* batch.                                                                  *)
(***************************************************************************)
Faithful(type, cell, value) ==
    \/ cell \in {Null, value, Text(value)}
    \/ Near(type, cell, value)
    \/ provider = "neo4j" /\ value.n = Far

LEMMA PgCells ==
    ASSUME NEW pg, NEW values, NEW i \in DOMAIN values
    PROVE  PgArrayOf(pg, values).cells[i] \in {Null, values[i], Text(values[i]), Failed}
<1> QED
    BY DEF PgArrayOf, PgVectorCell

LEMMA SqliteCells ==
    ASSUME NEW type, NEW values, NEW i \in DOMAIN values
    PROVE  LET array == SqliteArrayOf(type, values)
           IN  \/ array.cells[i] \in {Null, values[i], Text(values[i]), Failed}
               \/ Near(array.type, array.cells[i], values[i])
<1>1. CASE type = "BOOLEAN"
    <2>1. /\ SqliteArrayOf(type, values).type = "Boolean"
          /\ \/ SqliteArrayOf(type, values).cells[i] \in {Null, Failed}
             \/ values[i].k \in {"bool", "int"} /\ SqliteArrayOf(type, values).cells[i] = Truth(values[i])
        BY <1>1 DEF SqliteArrayOf
    <2> QED
        BY <2>1 DEF Near
<1>2. CASE type # "BOOLEAN"
    BY <1>2 DEF SqliteArrayOf
<1> QED
    BY <1>1, <1>2

LEMMA JsonCells ==
    ASSUME NEW type, NEW values, NEW i \in DOMAIN values, values[i].n \in Int
    PROVE  LET array == json_values_to_array(type, values)
           IN  \/ array.cells[i] \in {Null, values[i], Text(values[i]), Failed}
               \/ Near(array.type, array.cells[i], values[i])
<1> DEFINE array == json_values_to_array(type, values)
<1>1. array.type = type
    BY DEF json_values_to_array
<1>2. CASE type \in {"Float32", "Float64"}
    <2>1. array.cells[i] = Null \/ (values[i].k \in {"int", "float"} /\ array.cells[i] = as_float(type, values[i]))
        BY <1>2 DEF json_values_to_array, IntRange
    <2> HIDE DEF array
    <2> QED
        BY <1>1, <1>2, <2>1, FloatNear DEF array
<1>3. CASE type = "Timestamp_ms_UTC"
    <2>1. array.cells[i] \in {Null, values[i], Failed, as_millis(values[i])}
        BY <1>3 DEF json_values_to_array, IntRange
    <2> HIDE DEF array
    <2> QED
        BY <1>1, <1>3, <2>1, MillisNear DEF array
<1>4. CASE type \notin {"Float32", "Float64", "Timestamp_ms_UTC"}
    BY <1>4 DEF json_values_to_array, checked_int_cell
<1> QED
    BY <1>2, <1>3, <1>4

LEMMA BoltCells ==
    ASSUME NEW type, NEW values, NEW i \in DOMAIN values, values[i].n \in Int
    PROVE  LET array == BoltArrayOf(type, values)
           IN  \/ array.cells[i] \in {Null, values[i], Text(values[i])}
               \/ Near(array.type, array.cells[i], values[i])
               \/ values[i].n = Far
<1> DEFINE array == BoltArrayOf(type, values)
<1>1. array.type = type
    BY DEF BoltArrayOf
<1>2. CASE type = "Float64"
    <2>1. array.cells[i] = Null \/ (values[i].k \in {"int", "float"} /\ array.cells[i] = as_float(type, values[i]))
        BY <1>2 DEF BoltArrayOf
    <2> HIDE DEF array
    <2> QED
        BY <1>1, <1>2, <2>1, FloatNear DEF array
<1>3. CASE type \in {"Timestamp_ms", "Timestamp_ms_UTC"}
    <2>1. array.cells[i] \in {Null, as_millis(values[i])}
        BY <1>3 DEF BoltArrayOf
    <2> HIDE DEF array
    <2> QED
        BY <1>1, <1>3, <2>1, MillisNear DEF array
<1>4. CASE type \notin {"Float64", "Timestamp_ms", "Timestamp_ms_UTC"}
    BY <1>4 DEF BoltArrayOf, bolt_value_to_json, Null
<1> QED
    BY <1>2, <1>3, <1>4

LEMMA FileCells ==
    ASSUME NEW format, NEW type, NEW values, NEW i \in DOMAIN values, values[i].n \in Int
    PROVE  LET array == FileArrayOf(format, type, values)
           IN  \/ array.cells[i] \in {Null, values[i], Text(values[i]), Failed}
               \/ Near(array.type, array.cells[i], values[i])
<1> DEFINE array == FileArrayOf(format, type, values)
<1>1. array.type = type
    BY DEF FileArrayOf
<1>2. CASE type = "Float64"
    <2>1. \/ array.cells[i] \in {Null, Failed}
          \/ values[i].k \in {"int", "float"} /\ array.cells[i] = as_float(type, values[i])
        BY <1>2 DEF FileArrayOf
    <2> HIDE DEF array
    <2> QED
        BY <1>1, <1>2, <2>1, FloatNear DEF array
<1>3. CASE type # "Float64"
    BY <1>3 DEF FileArrayOf
<1> QED
    BY <1>2, <1>3

FaithfulBatch(b) ==
    \A c \in DOMAIN schema : \A r \in DOMAIN b.rows :
        Faithful(schema[c].type, b.cells[c][r], Field(b.rows[r], schema[c].name))

\* A batch that is valid and has for each announced column what may become
\* of the values that the rows have there.
Becomes(array, r, value) ==
    array.cells[r] \in {Null, value, Text(value), Failed} \/ Near(array.type, array.cells[r], value)

LEMMA BatchFaithful ==
    ASSUME NEW arrays, NEW rows, Valid(arrays), DOMAIN schema \subseteq DOMAIN arrays,
           \A c \in DOMAIN schema : DOMAIN arrays[c].cells = DOMAIN rows,
           \A c \in DOMAIN schema, r \in DOMAIN rows :
             LET value == Field(rows[r], schema[c].name)
             IN  Becomes(arrays[c], r, value) \/ (provider = "neo4j" /\ value.n = Far)
    PROVE  FaithfulBatch(Batch(arrays, rows))
<1> SUFFICES ASSUME NEW c \in DOMAIN schema, NEW r \in DOMAIN rows
             PROVE  Faithful(schema[c].type, arrays[c].cells[r], Field(rows[r], schema[c].name))
    BY DEF FaithfulBatch, Batch
<1>1. arrays[c].cells[r] # Failed /\ arrays[c].type = schema[c].type
    BY DEF Valid
<1> QED
    BY <1>1 DEF Faithful, Becomes

LEMMA NamedJson ==
    ASSUME NEW rows, AllNumbered(rows), Valid(NamedBatch(json_values_to_array, rows))
    PROVE  FaithfulBatch(Batch(NamedBatch(json_values_to_array, rows), rows))
<1> DEFINE values(c) == [r \in DOMAIN rows |-> Field(rows[r], schema[c].name)]
           arrays == NamedBatch(json_values_to_array, rows)
<1>1. arrays = [c \in DOMAIN schema |-> json_values_to_array(schema[c].type, values(c))]
    BY DEF NamedBatch
<1>2. \A c \in DOMAIN schema : DOMAIN json_values_to_array(schema[c].type, values(c)).cells = DOMAIN rows
    BY DEF json_values_to_array
<1>3. \A c \in DOMAIN schema, r \in DOMAIN rows :
        Becomes(json_values_to_array(schema[c].type, values(c)), r, values(c)[r])
    BY JsonCells, FieldInt DEF AllNumbered, Numbered, Becomes
<1> HIDE DEF arrays
<1>4. FaithfulBatch(Batch(arrays, rows))
    BY <1>1, <1>2, <1>3, BatchFaithful DEF arrays
<1> QED
    BY <1>4 DEF arrays

LEMMA NamedBolt ==
    ASSUME NEW rows, AllNumbered(rows), provider = "neo4j", Valid(NamedBatch(BoltArrayOf, rows))
    PROVE  FaithfulBatch(Batch(NamedBatch(BoltArrayOf, rows), rows))
<1> DEFINE values(c) == [r \in DOMAIN rows |-> Field(rows[r], schema[c].name)]
           arrays == NamedBatch(BoltArrayOf, rows)
<1>1. arrays = [c \in DOMAIN schema |-> BoltArrayOf(schema[c].type, values(c))]
    BY DEF NamedBatch
<1>2. \A c \in DOMAIN schema : DOMAIN BoltArrayOf(schema[c].type, values(c)).cells = DOMAIN rows
    BY DEF BoltArrayOf
<1>3. \A c \in DOMAIN schema, r \in DOMAIN rows :
        Becomes(BoltArrayOf(schema[c].type, values(c)), r, values(c)[r]) \/ values(c)[r].n = Far
    BY BoltCells, FieldInt DEF AllNumbered, Numbered, Becomes
<1> HIDE DEF arrays
<1>4. FaithfulBatch(Batch(arrays, rows))
    BY <1>1, <1>2, <1>3, BatchFaithful DEF arrays
<1> QED
    BY <1>4 DEF arrays

\* The value under a label is the one at the place of the column.
Fits(row, table) ==
    /\ DOMAIN row.fields = DOMAIN table.cols
    /\ \A i \in DOMAIN table.cols : row.fields[i][1] = table.cols[i].name

LEMMA FieldAt ==
    ASSUME NEW table, NEW row, Fits(row, table), NEW i \in DOMAIN table.cols,
           \A m, n \in DOMAIN table.cols : table.cols[m].name = table.cols[n].name => m = n
    PROVE  Field(row, table.cols[i].name) = row.fields[i][2]
<1> DEFINE at == {j \in DOMAIN row.fields : row.fields[j][1] = table.cols[i].name}
<1>1. at = {i}
    BY DEF Fits
<1>2. (CHOOSE j \in at : TRUE) = i
    BY <1>1
<1> QED
    BY <1>1, <1>2 DEF Field

Labelled == Names(view) = [i \in DOMAIN schema |-> schema[i].name]

LEMMA LabelAt ==
    ASSUME SessionOK, Positional, Labelled, NEW row, Fits(row, view), NEW c \in DOMAIN schema
    PROVE  c \in DOMAIN view.cols /\ Field(row, schema[c].name) = row.fields[c][2]
<1>1. DOMAIN view.cols = DOMAIN schema /\ \A i \in DOMAIN schema : schema[i].name = view.cols[i].name
    BY DEF Labelled, Names
<1>2. \A m, n \in DOMAIN view.cols : view.cols[m].name = view.cols[n].name => m = n
    <2>1. CASE view \in Versions[provider]
        BY <2>1, ReaderAssumption DEF SessionOK, Positional, Rectangular
    <2>2. CASE view = NoTable
        BY <2>2 DEF NoTable
    <2> QED
        BY <2>1, <2>2 DEF SessionOK
<1> QED
    BY <1>1, <1>2, FieldAt

LEMMA PositionFaithful ==
    ASSUME SessionOK, Positional, Labelled, NEW arrays, NEW rows, Valid(arrays),
           \A r \in DOMAIN rows : Fits(rows[r], view),
           DOMAIN schema \subseteq DOMAIN arrays,
           \A c \in DOMAIN schema : DOMAIN arrays[c].cells = DOMAIN rows,
           \A c \in DOMAIN schema, r \in DOMAIN rows :
             Becomes(arrays[c], r, rows[r].fields[c][2])
    PROVE  FaithfulBatch(Batch(arrays, rows))
<1>1. \A c \in DOMAIN schema, r \in DOMAIN rows : Field(rows[r], schema[c].name) = rows[r].fields[c][2]
    BY LabelAt
<1> QED
    BY <1>1, BatchFaithful

LEMMA LabelledDomain ==
    ASSUME Labelled PROVE DOMAIN schema = DOMAIN view.cols
<1> QED
    BY DEF Labelled, Names

LEMMA PgFaithful ==
    ASSUME SessionOK, provider = "postgres", Labelled, NEW rows,
           \A r \in DOMAIN rows : Fits(rows[r], view), Valid(PositionalBatch(PgArrayOf, rows))
    PROVE  FaithfulBatch(Batch(PositionalBatch(PgArrayOf, rows), rows))
<1> DEFINE values(c) == [r \in DOMAIN rows |-> rows[r].fields[c][2]]
           arrays == PositionalBatch(PgArrayOf, rows)
<1>1. arrays = [c \in DOMAIN view.cols |-> PgArrayOf(view.cols[c].type, values(c))]
    BY DEF PositionalBatch, Reading, Live
<1>2. \A c \in DOMAIN schema : DOMAIN PgArrayOf(view.cols[c].type, values(c)).cells = DOMAIN rows
    BY DEF PgArrayOf
<1>3. \A c \in DOMAIN schema, r \in DOMAIN rows :
        Becomes(PgArrayOf(view.cols[c].type, values(c)), r, values(c)[r])
    BY PgCells DEF Becomes
<1>4. Positional
    BY DEF Positional
<1> HIDE DEF arrays
<1>5. FaithfulBatch(Batch(arrays, rows))
    BY <1>1, <1>2, <1>3, <1>4, LabelledDomain, PositionFaithful DEF arrays
<1> QED
    BY <1>5 DEF arrays

LEMMA SqliteFaithful ==
    ASSUME SessionOK, provider = "sqlite", Labelled, NEW rows,
           \A r \in DOMAIN rows : Fits(rows[r], view), Valid(PositionalBatch(SqliteArrayOf, rows))
    PROVE  FaithfulBatch(Batch(PositionalBatch(SqliteArrayOf, rows), rows))
<1> DEFINE values(c) == [r \in DOMAIN rows |-> rows[r].fields[c][2]]
           arrays == PositionalBatch(SqliteArrayOf, rows)
<1>1. arrays = [c \in DOMAIN view.cols |-> SqliteArrayOf(view.cols[c].type, values(c))]
    BY DEF PositionalBatch, Reading, Live
<1>2. \A c \in DOMAIN schema : DOMAIN SqliteArrayOf(view.cols[c].type, values(c)).cells = DOMAIN rows
    BY DEF SqliteArrayOf
<1>3. \A c \in DOMAIN schema, r \in DOMAIN rows :
        Becomes(SqliteArrayOf(view.cols[c].type, values(c)), r, values(c)[r])
    BY SqliteCells DEF Becomes
<1>4. Positional
    BY DEF Positional
<1> HIDE DEF arrays
<1>5. FaithfulBatch(Batch(arrays, rows))
    BY <1>1, <1>2, <1>3, <1>4, LabelledDomain, PositionFaithful DEF arrays
<1> QED
    BY <1>5 DEF arrays

LEMMA FileFaithful ==
    ASSUME SessionOK, Positional, Labelled, NEW format, NEW rows, AllNumbered(rows),
           format = "csv" => \A r \in DOMAIN rows : Fits(rows[r], view), Valid(FileArrays(format, rows))
    PROVE  FaithfulBatch(Batch(FileArrays(format, rows), rows))
<1> DEFINE arrays == FileArrays(format, rows)
           ArrayOf(type, values) == FileArrayOf(format, type, values)
<1>1. CASE format = "csv"
    <2> DEFINE values(c) == [r \in DOMAIN rows |-> rows[r].fields[c][2]]
    <2>1. arrays = <<>> \/ arrays = [c \in DOMAIN schema |-> ArrayOf(schema[c].type, values(c))]
        BY <1>1 DEF FileArrays
    <2>2. schema # <<>> /\ Len(arrays) = Len(schema)
        BY DEF Valid
    <2>3. CASE arrays = <<>>
        <3> HIDE DEF arrays
        <3>1. Len(view.cols) \in Nat /\ DOMAIN schema = 1 .. Len(view.cols)
            BY LabelledDomain, TablesOK, LenProperties
        <3>2. Len(schema) = Len(view.cols)
            BY <3>1
        <3>3. Len(schema) = 0
            BY <2>2, <2>3 DEF arrays
        <3>4. DOMAIN schema = {}
            BY <3>1, <3>2, <3>3
        <3> QED
            BY <3>4 DEF FaithfulBatch
    <2>4. CASE arrays # <<>>
        <3>1. \A c \in DOMAIN schema : DOMAIN ArrayOf(schema[c].type, values(c)).cells = DOMAIN rows
            BY DEF FileArrayOf
        <3>2. \A c \in DOMAIN schema, r \in DOMAIN rows :
                Becomes(ArrayOf(schema[c].type, values(c)), r, values(c)[r])
            <4> SUFFICES ASSUME NEW c \in DOMAIN schema, NEW r \in DOMAIN rows
                         PROVE  Becomes(ArrayOf(schema[c].type, values(c)), r, values(c)[r])
                OBVIOUS
            <4>1. c \in DOMAIN rows[r].fields
                BY <1>1, LabelledDomain DEF Fits
            <4>2. values(c)[r].n \in Int /\ r \in DOMAIN values(c)
                BY <4>1 DEF AllNumbered, Numbered
            <4> HIDE DEF values
            <4> QED
                BY <4>2, FileCells DEF Becomes
        <3>4. arrays = [c \in DOMAIN schema |-> ArrayOf(schema[c].type, values(c))] /\ Valid(arrays)
            BY <2>1, <2>4
        <3> HIDE DEF arrays
        <3>5. /\ DOMAIN schema \subseteq DOMAIN arrays
              /\ \A c \in DOMAIN schema : DOMAIN arrays[c].cells = DOMAIN rows
              /\ \A c \in DOMAIN schema, r \in DOMAIN rows :
                   Becomes(arrays[c], r, rows[r].fields[c][2])
            BY <3>1, <3>2, <3>4
        <3>3. FaithfulBatch(Batch(arrays, rows))
            BY <1>1, <3>4, <3>5, PositionFaithful
        <3> QED
            BY <3>3 DEF arrays
    <2> QED
        BY <2>3, <2>4
<1>2. CASE format # "csv"
    <2> DEFINE values(c) == [r \in DOMAIN rows |-> Field(rows[r], schema[c].name)]
    <2>1. arrays = [c \in DOMAIN schema |-> ArrayOf(schema[c].type, values(c))]
        BY <1>2 DEF FileArrays, NamedBatch
    <2>2. \A c \in DOMAIN schema : DOMAIN ArrayOf(schema[c].type, values(c)).cells = DOMAIN rows
        BY DEF FileArrayOf
    <2>3. \A c \in DOMAIN schema, r \in DOMAIN rows :
            Becomes(ArrayOf(schema[c].type, values(c)), r, values(c)[r])
        BY FileCells, FieldInt DEF AllNumbered, Numbered, Becomes
    <2> HIDE DEF arrays
    <2>4. FaithfulBatch(Batch(arrays, rows))
        BY <2>1, <2>2, <2>3, BatchFaithful DEF arrays
    <2> QED
        BY <2>4 DEF arrays
<1> QED
    BY <1>1, <1>2

(***************************************************************************)
(* Where rows come from.  The rows of a table and the header of its file   *)
(* have their values at the places of the columns.                         *)
(***************************************************************************)
HeaderOf(table) == [id |-> 0, fields |-> [i \in DOMAIN table.cols |-> <<table.cols[i].name, Null>>]]
LinesOf(table) == Range(table.rows) \cup {HeaderOf(table)}
Pieces(lines) == [row : lines, end : BOOLEAN]

LEMMA LinesFit ==
    ASSUME SessionOK, Positional, NEW row \in LinesOf(view) PROVE Fits(row, view)
<1>1. CASE row = HeaderOf(view)
    BY <1>1 DEF HeaderOf, Fits
<1>2. CASE row \in Range(view.rows) /\ view \in Versions[provider]
    <2>1. Rectangular(view)
        BY <1>2, ReaderAssumption DEF SessionOK, Positional
    <2> QED
        BY <1>2, <2>1 DEF Rectangular, Fits, Range
<1>3. CASE row \in Range(view.rows) /\ view = NoTable
    BY <1>3 DEF NoTable, Range
<1> QED
    BY <1>1, <1>2, <1>3 DEF LinesOf, SessionOK

LEMMA LinesNumbered ==
    ASSUME SessionOK, NEW rows \in Seq(LinesOf(view)) PROVE AllNumbered(rows)
<1>1. ASSUME NEW row \in LinesOf(view) PROVE Numbered(row)
    <2>1. CASE row = HeaderOf(view)
        <3>1. \A i \in DOMAIN row.fields : row.fields[i][2] = Null
            BY <2>1 DEF HeaderOf
        <3> QED
            BY <3>1 DEF Numbered, Null
    <2>2. CASE row \in Range(view.rows)
        BY <2>2, TableNumbered DEF AllNumbered, Range
    <2> QED
        BY <1>1, <2>1, <2>2 DEF LinesOf
<1>2. \A r \in DOMAIN rows : rows[r] \in LinesOf(view)
    BY ElementOfSeq, LenProperties
<1> QED
    BY <1>1, <1>2 DEF AllNumbered

LEMMA BytesIn ==
    ASSUME NEW t, t.rows \in Seq(Range(t.rows)), NEW format
    PROVE  Bytes(format, t) \in Seq(Pieces(LinesOf(t)))
<1> DEFINE header == HeaderOf(t)
           L == LinesOf(t)
           lines == IF format = "csv" THEN <<header>> \o t.rows ELSE t.rows
           byte(i) == [row |-> lines[(i + 1) \div 2], end |-> i % 2 = 0]
           bytes == [i \in 1 .. 2 * Len(lines) |-> byte(i)]
<1>1. lines \in Seq(L)
    <2>1. t.rows \in Seq(L) /\ <<header>> \in Seq(L)
        BY SeqMonotonic DEF LinesOf
    <2> HIDE DEF header, L
    <2>2. <<header>> \o t.rows \in Seq(L)
        BY <2>1, ConcatProperties
    <2> QED
        BY <2>1, <2>2
<1>2. Len(lines) \in Nat /\ \A i \in 1 .. Len(lines) : lines[i] \in L
    BY <1>1, LenProperties, ElementOfSeq
<1>3. Bytes(format, t) \in {bytes, SubSeq(bytes, 1, Len(bytes) - 1)}
    BY DEF Bytes, HeaderOf
<1> HIDE DEF lines, L
<1>4. \A i \in 1 .. 2 * Len(lines) : byte(i) \in Pieces(L)
    <2> SUFFICES ASSUME NEW i \in 1 .. 2 * Len(lines) PROVE byte(i) \in Pieces(L)
        OBVIOUS
    <2>1. (i + 1) \div 2 \in 1 .. Len(lines)
        BY <1>2
    <2> QED
        BY <1>2, <2>1 DEF Pieces
<1>5. bytes \in Seq(Pieces(L))
    <2>1. 2 * Len(lines) \in Nat
        BY <1>2
    <2> HIDE DEF byte
    <2> QED
        BY <1>4, <2>1, IsASeq
<1> HIDE DEF bytes
<1>6. SubSeq(bytes, 1, Len(bytes) - 1) \in Seq(Pieces(L))
    <2>1. Len(bytes) \in Nat
        BY <1>5, LenProperties
    <2>2. \A i \in 1 .. Len(bytes) - 1 : bytes[i] \in Pieces(L)
        BY <1>5, <2>1, ElementOfSeq
    <2> QED
        BY <1>5, <2>1, <2>2, SubSeqProperties
<1> QED
    BY <1>3, <1>5, <1>6 DEF L

LEMMA Room ==
    ASSUME NEW B \in Nat, NEW r \in Nat, NEW p \in Nat, 2 * r + p <= 2 * B
    PROVE  B - r \in Int /\ 2 * (B - r) - p \in Nat
<1> QED
    OBVIOUS

LEMMA Filled ==
    ASSUME NEW B \in Nat, NEW r \in Nat, NEW n \in Nat, NEW h \in Nat, n <= 2 * (B - r)
    PROVE  2 * (r + h) + (n - 2 * h) <= 2 * B
<1> QED
    OBVIOUS

LEMMA Remainder ==
    ASSUME NEW n \in Nat, NEW h \in Nat, NEW m, 2 * h <= n,
           m = IF 2 * h + 1 <= n THEN n - (2 * h + 1) + 1 ELSE 0
    PROVE  m = n - 2 * h
<1> QED
    OBVIOUS

LEMMA Halves ==
    ASSUME NEW n \in Nat
    PROVE  /\ n \div 2 \in Nat /\ 2 * (n \div 2) <= n /\ n - 2 * (n \div 2) \in 0 .. 1
           /\ (2 * (n \div 2) + 1) \div 2 = n \div 2
<1> QED
    OBVIOUS

LEMMA RowsInType ==
    ASSUME NEW L, NEW bytes \in Seq(Pieces(L)) PROVE RowsIn(bytes) \in Seq(L)
<1> DEFINE N == (Len(bytes) + 1) \div 2
           row(i) == bytes[2 * i - 1].row
<1>1. Len(bytes) \in Nat /\ N \in Nat /\ \A i \in 1 .. Len(bytes) : bytes[i] \in Pieces(L)
    BY LenProperties, ElementOfSeq
<1>2. \A i \in 1 .. N : row(i) \in L
    <2> SUFFICES ASSUME NEW i \in 1 .. N PROVE row(i) \in L
        OBVIOUS
    <2>1. 2 * i - 1 \in 1 .. Len(bytes)
        BY <1>1
    <2> QED
        BY <1>1, <2>1 DEF Pieces
<1>3. RowsIn(bytes) = [i \in 1 .. N |-> row(i)]
    BY DEF RowsIn
<1> HIDE DEF N, row
<1>4. [i \in 1 .. N |-> row(i)] \in Seq(L)
    BY <1>1, <1>2, IsASeq
<1> QED
    BY <1>3, <1>4

(***************************************************************************)
(* The decoder.  It never holds more than a batch of rows and a started    *)
(* one, so that what it consumes is never less than nothing.               *)
(***************************************************************************)
DecoderOK(d, L) ==
    /\ d \in [skip : BOOLEAN, rows : Seq(L), partial : Seq(Pieces(L))]
    /\ d.skip => d.rows = <<>>
    /\ Len(d.partial) <= 1
    /\ 2 * Len(d.rows) + Len(d.partial) <= 2 * BatchSize

\* What one call of the decoder does, if it completes so many lines.
Decodes(d, bytes, half) ==
    LET e == Decode(d, bytes).decoder
        consumed == Decode(d, bytes).consumed
        read == d.partial \o SubSeq(bytes, 1, consumed)
    IN  /\ half \in Nat /\ 2 * half <= Len(read) /\ Len(read) - 2 * half \in 0 .. 1
        /\ d.skip => Len(read) <= 2
        /\ consumed = 0 => bytes = <<>> \/ Len(d.rows) = BatchSize
        /\ e.skip = (d.skip /\ half = 0)
        /\ e.rows = IF d.skip THEN d.rows ELSE d.rows \o RowsIn(SubSeq(read, 1, 2 * half))
        /\ e.partial = SubSeq(read, 2 * half + 1, Len(read))

LEMMA DecodeOK ==
    ASSUME NEW L, NEW d, DecoderOK(d, L), NEW bytes \in Seq(Pieces(L))
    PROVE  /\ DecoderOK(Decode(d, bytes).decoder, L)
           /\ Decode(d, bytes).consumed \in 0 .. Len(bytes)
           /\ \E half : Decodes(d, bytes, half)
<1> DEFINE room == IF d.skip THEN 1 ELSE BatchSize - Len(d.rows)
           consumed == Min({Len(bytes), 2 * room - Len(d.partial)})
           taken == SubSeq(bytes, 1, consumed)
           read == d.partial \o taken
           complete == SubSeq(read, 1, 2 * (Len(read) \div 2))
           rest == SubSeq(read, Len(complete) + 1, Len(read))
           rows == IF d.skip THEN d.rows ELSE d.rows \o RowsIn(complete)
<1>1. /\ d.partial \in Seq(Pieces(L)) /\ d.rows \in Seq(L) /\ d.skip \in BOOLEAN
      /\ Len(d.partial) \in Nat /\ Len(d.rows) \in Nat /\ Len(bytes) \in Nat /\ BatchSize \in Nat \ {0}
      /\ Len(d.partial) <= 1 /\ 2 * Len(d.rows) + Len(d.partial) <= 2 * BatchSize
      /\ d.skip => Len(d.rows) = 0
    BY LenProperties, ReaderAssumption DEF DecoderOK
<1>2. /\ room \in Int /\ 2 * room - Len(d.partial) \in Nat
      /\ d.skip => room = 1
      /\ ~ d.skip => room = BatchSize - Len(d.rows)
    <2>1. CASE d.skip
        <3>1. room = 1
            BY <2>1
        <3> QED
            BY <1>1, <2>1, <3>1
    <2>2. CASE ~ d.skip
        <3>1. room = BatchSize - Len(d.rows)
            BY <2>2
        <3>2. BatchSize - Len(d.rows) \in Int /\ 2 * (BatchSize - Len(d.rows)) - Len(d.partial) \in Nat
            BY <1>1, Room
        <3> HIDE DEF room
        <3> QED
            BY <2>2, <3>1, <3>2
    <2> QED
        BY <2>1, <2>2
<1> HIDE DEF room
<1>3. /\ consumed \in 0 .. Len(bytes) /\ consumed <= 2 * room - Len(d.partial)
      /\ consumed \in {Len(bytes), 2 * room - Len(d.partial)}
    <2> DEFINE x == 2 * room - Len(d.partial)
    <2>1. x \in Nat /\ x \in Int /\ Len(bytes) \in Int
        BY <1>1, <1>2
    <2> HIDE DEF x
    <2>2. /\ Min({Len(bytes), x}) \in 0 .. Len(bytes) /\ Min({Len(bytes), x}) <= x
          /\ Min({Len(bytes), x}) \in {Len(bytes), x}
        <3> DEFINE m == Min({Len(bytes), x})
        <3>1. m \in {Len(bytes), x} /\ m <= Len(bytes) /\ m <= x
            BY <2>1, MinOfTwo
        <3> HIDE DEF m
        <3>2. m \in 0 .. Len(bytes)
            BY <1>1, <2>1, <3>1
        <3> QED
            BY <3>1, <3>2 DEF m
    <2> QED
        BY <2>2 DEF x
<1> HIDE DEF consumed
<1>4. taken \in Seq(Pieces(L)) /\ Len(taken) = consumed
    BY <1>1, <1>3, SubSeqIn
<1> HIDE DEF taken
<1>5. read \in Seq(Pieces(L)) /\ Len(read) = Len(d.partial) + consumed
    BY <1>1, <1>4, ConcatProperties
<1> HIDE DEF read
<1>6. Len(read) \in Nat /\ Len(read) <= 2 * room
    BY <1>1, <1>2, <1>3, <1>5
<1> DEFINE half == Len(read) \div 2
<1>h. half \in Nat /\ 2 * half <= Len(read) /\ Len(read) - 2 * half \in 0 .. 1 /\ (2 * half + 1) \div 2 = half
    BY <1>6, Halves
<1> HIDE DEF half
<1>7. complete \in Seq(Pieces(L)) /\ Len(complete) = 2 * half
    <2>1. complete = SubSeq(read, 1, 2 * half)
        BY DEF half
    <2>2. 2 * half \in Int /\ 1 \in Nat \ {0}
        BY <1>h
    <2>3. SubSeq(read, 1, 2 * half) \in Seq(Pieces(L)) /\ Len(SubSeq(read, 1, 2 * half)) = 2 * half
        BY <1>5, <1>h, <2>2, SubSeqIn
    <2> QED
        BY <2>1, <2>3
<1> HIDE DEF complete
<1>8. rest \in Seq(Pieces(L)) /\ Len(rest) = Len(read) - 2 * half
    <2>1. 2 * half + 1 \in Nat \ {0} /\ Len(read) \in Int
        BY <1>6, <1>h
    <2>2. rest = SubSeq(read, 2 * half + 1, Len(read))
        BY <1>7
    <2>3. rest \in Seq(Pieces(L)) /\ Len(rest) = IF 2 * half + 1 <= Len(read) THEN Len(read) - (2 * half + 1) + 1 ELSE 0
        BY <1>5, <2>1, <2>2, SubSeqIn
    <2> HIDE DEF rest
    <2>4. Len(rest) = Len(read) - 2 * half
        BY <1>6, <1>h, <2>3, Remainder
    <2> QED
        BY <2>3, <2>4
<1> HIDE DEF rest
<1>9. RowsIn(complete) \in Seq(L) /\ Len(RowsIn(complete)) = half
    <2>1. (Len(complete) + 1) \div 2 = half
        BY <1>h, <1>7
    <2>2. Len(RowsIn(complete)) = half
        BY <1>h, <2>1 DEF RowsIn
    <2> QED
        BY <1>7, <2>2, RowsInType
<1>10. rows \in Seq(L) /\ Len(rows) = IF d.skip THEN 0 ELSE Len(d.rows) + half
    BY <1>1, <1>9, ConcatProperties
<1>11. d.skip => rows = <<>>
    BY DEF DecoderOK
<1> HIDE DEF rows
<1>12. Len(rest) <= 1 /\ 2 * Len(rows) + Len(rest) <= 2 * BatchSize
    <2>1. CASE d.skip
        <3>1. Len(rows) = 0 /\ Len(rest) \in 0 .. 1
            BY <1>h, <1>8, <1>10, <2>1
        <3>2. 2 * Len(rows) + Len(rest) \in 0 .. 1
            BY <3>1
        <3>3. 1 <= 2 * BatchSize /\ 0 <= 2 * BatchSize
            BY ReaderAssumption
        <3>4. 2 * Len(rows) + Len(rest) <= 2 * BatchSize
            BY <3>2, <3>3
        <3>5. Len(rest) <= 1
            BY <1>6, <1>h, <1>8
        <3> QED
            BY <3>4, <3>5
    <2>2. CASE ~ d.skip
        <3>1. Len(rows) = Len(d.rows) + half /\ Len(read) <= 2 * (BatchSize - Len(d.rows))
            BY <1>2, <1>6, <1>10, <2>2
        <3>2. 2 * (Len(d.rows) + half) + (Len(read) - 2 * half) <= 2 * BatchSize
            BY <1>1, <1>6, <1>h, <3>1, Filled
        <3>3. Len(rest) \in 0 .. 1
            BY <1>h, <1>8
        <3> QED
            BY <1>8, <3>1, <3>2, <3>3
    <2> QED
        BY <2>1, <2>2
<1>13. /\ Decode(d, bytes).consumed = consumed
       /\ Decode(d, bytes).decoder = [skip |-> d.skip /\ complete = <<>>, rows |-> rows, partial |-> rest]
    BY DEF Decode, room, consumed, taken, read, complete, rest, rows
<1> DEFINE e == Decode(d, bytes).decoder
<1>14. e.skip = (d.skip /\ complete = <<>>) /\ e.rows = rows /\ e.partial = rest
    BY <1>13
<1>15. e \in [skip : BOOLEAN, rows : Seq(L), partial : Seq(Pieces(L))]
    BY <1>8, <1>10, <1>13
<1> HIDE DEF e
<1>16. DecoderOK(e, L)
    BY <1>11, <1>12, <1>14, <1>15 DEF DecoderOK
<1>17. consumed = 0 => bytes = <<>> \/ Len(d.rows) = BatchSize
    <2> SUFFICES ASSUME consumed = 0, bytes # <<>> PROVE Len(d.rows) = BatchSize
        OBVIOUS
    <2>1. 2 * room - Len(d.partial) = 0
        BY <1>3, EmptySeq
    <2>2. ~ d.skip
        BY <1>1, <1>2, <2>1
    <2> QED
        BY <1>1, <1>2, <2>1, <2>2
<1>18. d.skip => Len(read) <= 2
    BY <1>2, <1>6
<1>19. complete = <<>> <=> half = 0
    BY <1>7, <1>h, EmptySeq
<1>20. e.rows = IF d.skip THEN d.rows ELSE d.rows \o RowsIn(SubSeq(read, 1, 2 * half))
    BY <1>14 DEF rows, complete, half
<1>21. e.partial = SubSeq(read, 2 * half + 1, Len(read))
    BY <1>7, <1>14 DEF rest
<1>22. Decodes(d, bytes, half)
    <2>1. read = d.partial \o SubSeq(bytes, 1, consumed) /\ Decode(d, bytes).consumed = consumed
        BY <1>13 DEF read, taken
    <2>2. e.skip = (d.skip /\ half = 0)
        BY <1>14, <1>19
    <2> HIDE DEF half
    <2> QED
        BY <1>h, <1>17, <1>18, <1>20, <1>21, <2>1, <2>2 DEF Decodes, e
<1> QED
    BY <1>3, <1>13, <1>16, <1>22 DEF e

(***************************************************************************)
(* The inductive invariant of the cells.  Nothing is read before the       *)
(* stream begins; an object of S3 that is read range by range is still the *)
(* one that the stream began with, unless the stream is torn; and what     *)
(* waits for its batch are lines of the table that was fixed.              *)
(***************************************************************************)
EmptyDecoders == [skip : BOOLEAN, rows : {<<>>}, partial : {<<>>}]

Fresh == pc \in {"schema", "open"} => sent = <<>> /\ chunk = <<>> /\ decoder \in EmptyDecoders

Steady == provider = "s3" /\ Live /\ pc = "read" /\ ~ torn => source = view

Fit ==
    ~ torn /\ pc = "read" =>
        /\ provider \in {"postgres", "sqlite"} => chunk \in Seq(Range(view.rows))
        /\ provider = "neo4j" => IsSeq(chunk) /\ AllNumbered(chunk)
        /\ provider \in {"s3", "uri"} /\ ~ request.binary =>
             chunk \in Seq(Pieces(LinesOf(view))) /\ DecoderOK(decoder, LinesOf(view))

CellsInv == TypeInv /\ sent \in Seq(Range(sent)) /\ Fresh /\ Steady /\ Fit /\ CellsFaithful

\* The steps of a reader before and after its stream begins.
Exempt == torn \/ (provider \in {"s3", "uri"} /\ request.binary) \/ (Positional /\ ~ Labelled)

Opens ==
    /\ pc \in {"schema", "open"} /\ UNCHANGED <<sent, chunk>> /\ decoder' \in EmptyDecoders
    /\ pc' = "read" /\ provider = "s3" /\ Live => view' = source

Reads ==
    /\ pc \notin {"schema", "open"} /\ pc' \notin {"schema", "open"} /\ UNCHANGED <<schema, view>>
    /\ sent' = sent \/ \E b : sent' = Append(sent, b) /\ (Exempt \/ FaithfulBatch(b))
    /\ Fit'

LEMMA EmptyOK == ASSUME NEW d \in EmptyDecoders, NEW L PROVE DecoderOK(d, L)
<1>1. d.rows = <<>> /\ d.partial = <<>> /\ d \in [skip : BOOLEAN, rows : Seq(L), partial : Seq(Pieces(L))]
    <2>1. <<>> \in Seq(L) /\ <<>> \in Seq(Pieces(L))
        OBVIOUS
    <2> DEFINE R == Seq(L)
               P == Seq(Pieces(L))
    <2> HIDE DEF R, P
    <2>2. <<>> \in R /\ <<>> \in P
        BY <2>1 DEF R, P
    <2>3. d \in [skip : BOOLEAN, rows : R, partial : P] /\ d.rows = <<>> /\ d.partial = <<>>
        BY <2>2 DEF EmptyDecoders
    <2> QED
        BY <2>3 DEF R, P
<1>2. Len(d.rows) = 0 /\ Len(d.partial) = 0 /\ 0 <= 2 * BatchSize
    BY <1>1, ReaderAssumption
<1> QED
    BY <1>1, <1>2 DEF DecoderOK

LEMMA Unchanging ==
    ASSUME CellsInv, Reader
    PROVE  UNCHANGED <<provider, request, torn>> /\ Live' = Live /\ (source' = source \/ Writes)
<1>1. UNCHANGED <<provider, request, torn>> /\ (source' = source \/ Writes)
    BY PgMoves, SqliteMoves, Neo4jMoves, EsReaderMoves, MilvusMoves, S3Moves, UriMoves, BinaryMoves
    DEF Reader, Moves, Writes, EsMoves, CellsInv, TypeInv, ControlInv, FormatKnown
<1> QED
    BY <1>1 DEF Live

LEMMA OpensKeeps == ASSUME CellsInv, Reader, Opens PROVE CellsInv'
<1>1. TypeInv'
    BY TypeSteps DEF CellsInv, ReadersNext
<1>2. UNCHANGED <<provider, request, torn>> /\ Live' = Live /\ (provider = "s3" => source' = source)
    BY Unchanging DEF Writes
<1>3. sent' = <<>> /\ chunk' = <<>> /\ decoder' \in EmptyDecoders
    BY DEF CellsInv, Fresh, Opens
<1>4. (sent \in Seq(Range(sent)))' /\ Fresh' /\ CellsFaithful'
    BY <1>3 DEF Fresh, CellsFaithful
<1>5. Steady'
    BY <1>2 DEF Opens, Steady
<1>6. Fit'
    BY <1>3, EmptyOK, EmptyIs DEF Fit, AllNumbered
<1> QED
    BY <1>1, <1>4, <1>5, <1>6 DEF CellsInv

LEMMA ReadsKeeps == ASSUME CellsInv, Reader, Reads PROVE CellsInv'
<1>1. TypeInv'
    BY TypeSteps DEF CellsInv, ReadersNext
<1>2. UNCHANGED <<provider, request, torn>> /\ Live' = Live /\ (provider = "s3" => source' = source)
    BY Unchanging DEF Writes
<1>3. Fresh' /\ Fit'
    BY DEF Reads, Fresh
<1>4. Steady'
    <2>1. ASSUME provider = "s3", pc' = "read" PROVE pc = "read"
        BY <2>1, S3Moves, BinaryMoves
        DEF Reader, Reads, S3Reader, ReadFile, S3Binary, OpenBinary, ReadBinary
    <2> QED
        BY <1>2, <2>1 DEF CellsInv, Steady, Reads
<1>5. (sent \in Seq(Range(sent)))'
    <2>1. ASSUME NEW b, sent' = Append(sent, b) PROVE sent' \in Seq(Range(sent'))
        <3>1. sent \in Seq(Range(sent) \cup {b}) /\ b \in Range(sent) \cup {b}
            BY SeqMonotonic DEF CellsInv
        <3>2. sent' \in Seq(Range(sent) \cup {b})
            BY <2>1, <3>1, AppendProperties
        <3> QED
            BY <3>2, RangeSeq
    <2> QED
        BY <2>1 DEF Reads, CellsInv
<1>6. CellsFaithful'
    <2>1. CASE Exempt
        BY <1>2, <2>1 DEF Exempt, CellsFaithful, Positional, Labelled, Names, Reads
    <2>2. CASE ~ Exempt
        <3>1. \A b \in DOMAIN sent : FaithfulBatch(sent[b])
            BY <2>2 DEF CellsInv, CellsFaithful, Exempt, Labelled, FaithfulBatch, Faithful
        <3>2. \A b \in DOMAIN sent' : FaithfulBatch(sent'[b])
            <4>1. ASSUME NEW x, sent' = Append(sent, x), FaithfulBatch(x) PROVE \A b \in DOMAIN sent' : FaithfulBatch(sent'[b])
                <5>1. sent \in Seq(Range(sent))
                    BY DEF CellsInv
                <5>2. Range(sent') = Range(sent) \cup {x}
                    BY <4>1, <5>1, RangeAppend
                <5>3. \A b \in DOMAIN sent' : sent'[b] \in Range(sent) \cup {x}
                    BY <5>2 DEF Range
                <5>4. \A y \in Range(sent) : FaithfulBatch(y)
                    BY <3>1 DEF Range
                <5> QED
                    BY <4>1, <5>3, <5>4
            <4> QED
                BY <2>2, <3>1, <4>1 DEF Reads
        <3>3. UNCHANGED <<schema, provider>>
            BY <1>2 DEF Reads
        <3>4. \A b \in DOMAIN sent' : \A c \in DOMAIN schema : \A r \in DOMAIN sent'[b].rows :
                Faithful(schema[c].type, sent'[b].cells[c][r], Field(sent'[b].rows[r], schema[c].name))
            BY <3>2 DEF FaithfulBatch
        <3> QED
            BY <3>3, <3>4 DEF CellsFaithful, Faithful
    <2> QED
        BY <2>1, <2>2
<1> QED
    BY <1>1, <1>3, <1>4, <1>5, <1>6 DEF CellsInv

\* What all readers but those of files do until the stream begins.
LEMMA Opening ==
    ASSUME CellsInv, pc \in {"schema", "open"}, UNCHANGED <<sent, chunk, decoder>>,
           provider # "s3" \/ pc' # "read" \/ view' = source
    PROVE  Opens
<1> QED
    BY DEF CellsInv, Fresh, Opens

LEMMA NextViewRow ==
    ASSUME CellsInv, chunk \in Seq(Range(view.rows)), pos < Len(view.rows)
    PROVE  Append(chunk, view.rows[pos + 1]) \in Seq(Range(view.rows))
<1>1. Len(view.rows) \in Nat /\ DOMAIN view.rows = 1 .. Len(view.rows) /\ pos \in Nat
    BY TablesOK DEF CellsInv, TypeInv, ControlInv
<1>2. pos + 1 \in DOMAIN view.rows
    BY <1>1
<1>3. view.rows[pos + 1] \in Range(view.rows)
    BY <1>2 DEF Range
<1> QED
    BY <1>3

LEMMA ViewRowsFit ==
    ASSUME CellsInv, Positional, NEW rows \in Seq(LinesOf(view)), NEW r \in DOMAIN rows
    PROVE  Fits(rows[r], view)
<1>1. rows[r] \in LinesOf(view)
    BY ElementOfSeq, LenProperties
<1> QED
    BY <1>1, LinesFit DEF CellsInv, TypeInv, ControlInv

\* The loop over a cursor of a table that is read by position.
LEMMA CursorReads ==
    ASSUME CellsInv, provider \in {"postgres", "sqlite"}, pc = "read", pc' \in {"read", "commit", "done"},
           UNCHANGED <<schema, view, torn, provider>>, NEW rows,
           rows = chunk \/ (pos < Len(view.rows) /\ rows = Append(chunk, view.rows[pos + 1])),
           chunk' \in {<<>>, rows},
           \/ sent' = sent
           \/ \E b : /\ sent' = Append(sent, b)
                     /\ (\A r \in DOMAIN rows : Fits(rows[r], view)) => Exempt \/ FaithfulBatch(b)
    PROVE  Reads
<1>1. torn \/ rows \in Seq(Range(view.rows))
    BY NextViewRow DEF CellsInv, Fit
<1>2. torn \/ \A r \in DOMAIN rows : Fits(rows[r], view)
    <2>1. Seq(Range(view.rows)) \subseteq Seq(LinesOf(view))
        BY SeqMonotonic DEF LinesOf
    <2> QED
        BY <1>1, <2>1, ViewRowsFit DEF Positional
<1>3. sent' = sent \/ \E b : sent' = Append(sent, b) /\ (Exempt \/ FaithfulBatch(b))
    <2>1. torn => Exempt
        BY DEF Exempt
    <2> QED
        BY <1>2, <2>1
<1>4. <<>> \in Seq(Range(view.rows))
    OBVIOUS
<1>5. torn \/ chunk' \in Seq(Range(view.rows))
    BY <1>1, <1>4
<1> QED
    BY <1>3, <1>5 DEF Reads, Fit

LEMMA PgCellsKept == ASSUME CellsInv, PgReader, provider = "postgres" PROVE Opens \/ Reads
<1> USE DEF Stop, Refuse, Begin, Complete, GoOn, worldVars, progressVars
<1> DEFINE arrays(rows) == PositionalBatch(PgArrayOf, rows)
           finish == pc' = "commit" /\ UNCHANGED <<outcome, held>>
<1>1. ASSUME NEW columns, pc = "schema", Announce(columns) PROVE Opens
    BY <1>1, Opening DEF Announce
<1>2. ASSUME pc = "open", Execute({"connection", "transaction", "read_only"}) PROVE Opens
    BY <1>2, Opening DEF Execute, WriteThrough
<1>3. ASSUME NextRow(arrays, finish) PROVE Reads
    <2>1. pc = "read" /\ UNCHANGED <<schema, view, torn, provider>> /\ Reading = view /\ SessionOK
        BY <1>3 DEF NextRow, Reading, Live, CellsInv, TypeInv, ControlInv
    <2>2. PICK rows :
            /\ rows = chunk \/ (pos < Len(view.rows) /\ rows = Append(chunk, view.rows[pos + 1]))
            /\ chunk' \in {<<>>, rows} /\ pc' \in {"read", "commit", "done"}
            /\ \/ sent' = sent
               \/ Valid(arrays(rows)) /\ sent' = Append(sent, Batch(arrays(rows), rows))
        BY <1>3, <2>1 DEF NextRow, PushRow, Yield
    <2>3. ASSUME Valid(arrays(rows)), \A r \in DOMAIN rows : Fits(rows[r], view)
          PROVE  Exempt \/ FaithfulBatch(Batch(arrays(rows), rows))
        BY <2>1, <2>3, PgFaithful DEF Exempt, Positional
    <2> QED
        BY <2>1, <2>2, <2>3, CursorReads
<1>4. ASSUME pc = "commit", Complete, UNCHANGED <<worldVars, progressVars>> PROVE Reads
    BY <1>4 DEF Reads, Fit
<1>5. ASSUME pc = "schema", Refuse PROVE Opens
    BY <1>5, Opening
<1> QED
    BY <1>1, <1>2, <1>3, <1>4, <1>5 DEF PgReader

LEMMA SqliteCellsKept == ASSUME CellsInv, SqliteReader, provider = "sqlite" PROVE Opens \/ Reads
<1> USE DEF Stop, Refuse, Begin, Complete, GoOn, worldVars, progressVars
<1> DEFINE arrays(rows) == PositionalBatch(SqliteArrayOf, rows)
<1>1. ASSUME NEW columns, pc = "schema", Announce(columns) PROVE Opens
    BY <1>1, Opening DEF Announce
<1>2. ASSUME pc = "open", Execute({"connection", "read_only"}) PROVE Opens
    BY <1>2, Opening DEF Execute, WriteThrough
<1>3. ASSUME NextRow(arrays, Complete) PROVE Reads
    <2>1. pc = "read" /\ UNCHANGED <<schema, view, torn, provider>> /\ Reading = view /\ SessionOK
        BY <1>3 DEF NextRow, Reading, Live, CellsInv, TypeInv, ControlInv
    <2>2. PICK rows :
            /\ rows = chunk \/ (pos < Len(view.rows) /\ rows = Append(chunk, view.rows[pos + 1]))
            /\ chunk' \in {<<>>, rows} /\ pc' \in {"read", "commit", "done"}
            /\ \/ sent' = sent
               \/ Valid(arrays(rows)) /\ sent' = Append(sent, Batch(arrays(rows), rows))
        BY <1>3, <2>1 DEF NextRow, PushRow, Yield
    <2>3. ASSUME Valid(arrays(rows)), \A r \in DOMAIN rows : Fits(rows[r], view)
          PROVE  Exempt \/ FaithfulBatch(Batch(arrays(rows), rows))
        BY <2>1, <2>3, SqliteFaithful DEF Exempt, Positional
    <2> QED
        BY <2>1, <2>2, <2>3, CursorReads
<1> QED
    BY <1>1, <1>2, <1>3 DEF SqliteReader

\* The readers that look a value up by the name of its column.
LEMMA NamedReads ==
    ASSUME pc \notin {"schema", "open"}, pc' \notin {"schema", "open"}, UNCHANGED <<schema, view, provider>>,
           provider \in {"neo4j", "elasticsearch", "milvus"},
           sent' = sent \/ \E b : sent' = Append(sent, b) /\ (Exempt \/ FaithfulBatch(b)),
           provider = "neo4j" /\ ~ torn' /\ pc' = "read" => IsSeq(chunk') /\ AllNumbered(chunk')
    PROVE  Reads
<1> QED
    BY DEF Reads, Fit

LEMMA Neo4jCellsKept == ASSUME CellsInv, Neo4jReader, provider = "neo4j" PROVE Opens \/ Reads
<1> USE DEF Stop, Refuse, Begin, Complete, GoOn, worldVars, progressVars
<1> DEFINE arrays(rows) == NamedBatch(BoltArrayOf, rows)
<1>1. ASSUME NEW columns, pc = "schema", Announce(columns) PROVE Opens
    BY <1>1, Opening DEF Announce
<1>2. ASSUME pc = "open", Execute({"connection"}) PROVE Opens
    BY <1>2, Opening DEF Execute, WriteThrough
<1>3. ASSUME NextRow(arrays, Complete) PROVE Reads
    <2>1. pc = "read" /\ UNCHANGED <<schema, view, provider, torn>> /\ pc' \in {"read", "done"} /\ Reading = source
        BY <1>3 DEF NextRow, PushRow, Yield, Reading, Live
    <2>2. PICK rows : /\ rows = chunk \/ (pos < Len(source.rows) /\ rows = Append(chunk, source.rows[pos + 1]))
                      /\ chunk' \in {chunk, <<>>, rows}
                      /\ \/ sent' = sent
                         \/ Valid(arrays(rows)) /\ sent' = Append(sent, Batch(arrays(rows), rows))
        BY <1>3, <2>1 DEF NextRow, PushRow, Yield
    <2>3. ASSUME ~ torn PROVE IsSeq(rows) /\ AllNumbered(rows) /\ IsSeq(chunk') /\ AllNumbered(chunk')
        <3>1. IsSeq(chunk) /\ AllNumbered(chunk)
            BY <2>1, <2>3 DEF CellsInv, Fit
        <3>2. IsSeq(<<>>) /\ AllNumbered(<<>>)
            BY EmptyIs DEF AllNumbered
        <3>3. ASSUME pos < Len(source.rows), rows = Append(chunk, source.rows[pos + 1])
              PROVE  IsSeq(rows) /\ AllNumbered(rows)
            <4>1. SessionOK /\ pos \in Nat
                BY DEF CellsInv, TypeInv, ControlInv
            <4>2. Len(source.rows) \in Nat /\ DOMAIN source.rows = 1 .. Len(source.rows) /\ AllNumbered(source.rows)
                BY <4>1, TablesOK, TableNumbered
            <4>3. pos + 1 \in DOMAIN source.rows
                BY <3>3, <4>1, <4>2
            <4>4. Numbered(source.rows[pos + 1])
                BY <4>2, <4>3 DEF AllNumbered
            <4> DEFINE row == source.rows[pos + 1]
            <4> HIDE DEF row
            <4>5. chunk \in Seq(Range(chunk)) /\ Len(chunk) \in Nat /\ DOMAIN chunk = 1 .. Len(chunk)
                BY <3>1, SeqLen DEF IsSeq
            <4>6. rows = Append(chunk, row)
                BY <3>3 DEF row
            <4>7. IsSeq(rows) /\ Range(rows) = Range(chunk) \cup {row}
                <5>1. chunk \in Seq(Range(chunk) \cup {row}) /\ row \in Range(chunk) \cup {row}
                    BY <4>5, SeqMonotonic
                <5>2. rows \in Seq(Range(chunk) \cup {row})
                    BY <4>6, <5>1, AppendProperties
                <5> QED
                    BY <4>5, <4>6, <5>2, SeqIn, RangeAppend
            <4>8. \A x \in Range(rows) : Numbered(x)
                BY <3>1, <4>4, <4>7 DEF AllNumbered, Range, row
            <4> QED
                BY <4>7, <4>8 DEF AllNumbered, Range
        <3> QED
            BY <2>2, <3>1, <3>2, <3>3
    <2>4. sent' = sent \/ \E b : sent' = Append(sent, b) /\ (Exempt \/ FaithfulBatch(b))
        BY <2>2, <2>3, NamedBolt DEF Exempt
    <2> QED
        BY <2>1, <2>3, <2>4, NamedReads
<1>4. ASSUME pc = "schema", Refuse PROVE Opens
    BY <1>4, Opening
<1>5. ASSUME pc = "schema", pc' = "open", UNCHANGED <<sent, chunk, decoder>> PROVE Opens
    BY <1>5, Opening
<1> QED
    BY <1>1, <1>2, <1>3, <1>4, <1>5 DEF Neo4jReader

LEMMA EsCellsKept == ASSUME CellsInv, EsReader, provider = "elasticsearch" PROVE Opens \/ Reads
<1> USE DEF Stop, Refuse, Begin, worldVars, progressVars
<1>1. CASE pc = "schema"
    BY <1>1, Opening DEF EsReader, Announce
<1>2. CASE pc = "open"
    BY <1>2, Opening DEF EsReader
<1>3. CASE pc = "read"
    <2> DEFINE hits == SearchAfter(PageSize(EsQuery.size))
               arrays == NamedBatch(json_values_to_array, hits)
    <2>1. UNCHANGED <<schema, view, provider>> /\ pc' \notin {"schema", "open"}
        BY <1>3 DEF EsReader, fetch_search_page
    <2>2. sent' = sent \/ (Valid(arrays) /\ sent' = Append(sent, Batch(arrays, hits)))
        BY <1>3 DEF EsReader, fetch_search_page
    <2>3. AllNumbered(hits)
        <3>1. SessionOK /\ EsRequestInput(request) # {}
            BY <1>3 DEF CellsInv, TypeInv, ControlInv, Parsed
        <3>2. PageSize(EsQuery.size) \in Int
            BY <3>1, EsQueryOf, PageSizeInt DEF CellsInv, TypeInv
        <3> QED
            BY <3>1, <3>2, HitsNumbered
    <2> HIDE DEF hits
    <2>4. sent' = sent \/ \E b : sent' = Append(sent, b) /\ FaithfulBatch(b)
        BY <2>2, <2>3, NamedJson
    <2> QED
        BY <1>3, <2>1, <2>4, NamedReads
<1>4. CASE pc \in {"close", "close_error"}
    BY <1>4, NamedReads DEF EsReader
<1> QED
    BY <1>1, <1>2, <1>3, <1>4 DEF EsReader

LEMMA MilvusCellsKept == ASSUME CellsInv, MilvusReader, provider = "milvus" PROVE Opens \/ Reads
<1> USE DEF Stop, Refuse, Begin, Complete, GoOn, worldVars, progressVars
<1>1. CASE pc = "schema"
    BY <1>1, Opening DEF MilvusReader, Announce
<1>2. CASE pc = "open"
    BY <1>2, Opening DEF MilvusReader
<1>3. CASE pc = "read"
    <2> DEFINE arrays(rows) == NamedBatch(json_values_to_array, rows)
               size == PageSize(MilvusQuery.limit)
               offset == MilvusQuery.offset
               page == FromOffset(source.rows, offset + pos, size)
               slice == FromOffset(WantedRows(view), pos, BatchSize)
    <2>1. UNCHANGED <<schema, view, provider>> /\ pc' \notin {"schema", "open"}
        BY <1>3 DEF MilvusReader, read_query_paginated, SendPage, Yield
    <2>2. \/ sent' = sent
          \/ \E rows \in {page, slice} : Valid(arrays(rows)) /\ sent' = Append(sent, Batch(arrays(rows), rows))
        BY <1>3 DEF MilvusReader, read_query_paginated, SendPage, Yield
    <2>3. SessionOK /\ pos \in Nat /\ MilvusRequestInput(request) # {}
        BY <1>3 DEF CellsInv, TypeInv, ControlInv, Parsed
    <2>4. MilvusQuery.limit \subseteq Int /\ IsOption(MilvusQuery.limit) /\ offset \in Nat /\ size \in Int
        BY <2>3, MilvusQueryOf, PageSizeInt
    <2>5. /\ IsSeq(source.rows) /\ AllNumbered(source.rows)
          /\ IsSeq(view.rows) /\ AllNumbered(view.rows)
        BY <2>3, TablesOK, TableNumbered DEF IsSeq
    <2>6. AllNumbered(page)
        <3>1. offset + pos \in Nat
            BY <2>3, <2>4
        <3> HIDE DEF offset, size
        <3> QED
            BY <2>4, <2>5, <3>1, PageNumbered DEF FromOffset
    <2>7. AllNumbered(slice)
        <3> DEFINE rest == SubSeq(view.rows, offset + 1, Len(view.rows))
                   all == Limited(rest, MilvusQuery.limit)
        <3>1. WantedRows(view) = all
            BY <2>3 DEF WantedRows
        <3>2. Len(view.rows) \in Nat /\ DOMAIN view.rows = 1 .. Len(view.rows) /\ offset + 1 \in Nat \ {0}
            BY <2>4, <2>5, SeqLen
        <3>3. /\ IsSeq(rest) /\ Len(rest) = IF offset + 1 <= Len(view.rows) THEN Len(view.rows) - (offset + 1) + 1 ELSE 0
              /\ \A i \in 1 .. Len(rest) : rest[i] = view.rows[(offset + 1) + i - 1]
            BY <2>5, <3>2, SubSeqIs
        <3> HIDE DEF rest, offset
        <3>4. /\ IsSeq(all) /\ Len(all) <= Len(rest) /\ \A i \in 1 .. Len(all) : all[i] = rest[i]
            BY <2>4, <3>3, LimitedIs
        <3> HIDE DEF all
        <3>5. ASSUME NEW i \in DOMAIN all PROVE Numbered(all[i])
            <4>1. i \in 1 .. Len(all) /\ Len(all) \in Nat /\ Len(rest) \in Nat
                BY <3>3, <3>4, SeqLen
            <4>2. i \in 1 .. Len(rest)
                BY <3>4, <4>1
            <4>3. (offset + 1) + i - 1 \in DOMAIN view.rows
                BY <2>4, <3>2, <3>3, <4>1, <4>2
            <4>4. all[i] = view.rows[(offset + 1) + i - 1]
                BY <3>3, <3>4, <4>1, <4>2
            <4> QED
                BY <2>5, <4>3, <4>4 DEF AllNumbered
        <3>6. AllNumbered(all)
            BY <3>5 DEF AllNumbered
        <3> QED
            BY <2>3, <3>1, <3>4, <3>6, PageNumbered, ReaderAssumption DEF FromOffset
    <2> HIDE DEF page, slice
    <2>8. sent' = sent \/ \E b : sent' = Append(sent, b) /\ FaithfulBatch(b)
        BY <2>2, <2>6, <2>7, NamedJson
    <2> QED
        BY <1>3, <2>1, <2>8, NamedReads
<1> QED
    BY <1>1, <1>2, <1>3 DEF MilvusReader

LEMMA FileBytes ==
    ASSUME CellsInv, ~ torn, pc = "read", provider \in {"s3", "uri"}, NEW format
    PROVE  Reading = view /\ Bytes(format, Reading) \in Seq(Pieces(LinesOf(view)))
<1>1. Reading = view
    BY DEF CellsInv, Steady, Reading, Live
<1>2. view.rows \in Seq(Range(view.rows))
    BY TablesOK DEF CellsInv, TypeInv, ControlInv
<1> QED
    BY <1>1, <1>2, BytesIn

LEMMA BytesFit ==
    ASSUME CellsInv, ~ torn, pc = "read", provider \in {"s3", "uri"}, ~ request.binary, NEW format,
           NextBytes(format)
    PROVE  chunk' \in Seq(Pieces(LinesOf(view)))
<1> DEFINE bytes == Bytes(format, Reading)
           length == Len(Bytes(format, view))
           most == Min({MaxChunk, length - pos})
           P == Pieces(LinesOf(view))
<1>1. bytes \in Seq(P) /\ chunk \in Seq(P)
    BY FileBytes DEF CellsInv, Fit
<1>2. length \in Nat /\ pos \in Nat
    BY TablesOK, BytesLen DEF CellsInv, TypeInv, ControlInv
<1>3. most \in Int
    <2> HIDE DEF length
    <2>1. MaxChunk \in Int /\ length - pos \in Int
        BY <1>2, FileAssumption
    <2> QED
        BY <2>1, MinOfTwo
<1>4. PICK n \in 1 .. most :
        chunk' = chunk \/ (~ (pos + n > Len(bytes)) /\ chunk' = SubSeq(bytes, pos + 1, pos + n))
    BY DEF NextBytes
<1> HIDE DEF bytes, length, most, P
<1>5. ASSUME ~ (pos + n > Len(bytes)) PROVE SubSeq(bytes, pos + 1, pos + n) \in Seq(P)
    <2>1. pos + 1 \in Nat \ {0} /\ pos + n \in Int /\ Len(bytes) \in Nat
        BY <1>1, <1>2, <1>3, LenProperties
    <2>2. pos + n <= Len(bytes)
        BY <1>5, <2>1
    <2> QED
        BY <1>1, <2>1, <2>2, SubSeqIn
<1> QED
    BY <1>1, <1>4, <1>5 DEF P

\* A batch of decoded rows.
LEMMA DecodedFaithful ==
    ASSUME CellsInv, provider \in {"s3", "uri"}, NEW format, NEW rows \in Seq(LinesOf(view)),
           Valid(FileArrays(format, rows))
    PROVE  Exempt \/ FaithfulBatch(Batch(FileArrays(format, rows), rows))
<1>1. Positional /\ SessionOK
    BY DEF Positional, CellsInv, TypeInv, ControlInv
<1>2. \A r \in DOMAIN rows : Fits(rows[r], view)
    BY <1>1, ViewRowsFit
<1>3. AllNumbered(rows)
    BY <1>1, LinesNumbered
<1> QED
    BY <1>1, <1>2, <1>3, FileFaithful DEF Exempt

\* What a step of the stream of a file has to keep.
LEMMA FileReads ==
    ASSUME CellsInv, pc = "read", pc' \in {"read", "done"}, UNCHANGED <<schema, view, torn, provider, request>>,
           provider \in {"s3", "uri"}, ~ request.binary,
           \/ sent' = sent
           \/ \E b : sent' = Append(sent, b) /\ (~ torn => Exempt \/ FaithfulBatch(b)),
           ~ torn /\ pc' = "read" => /\ chunk' \in Seq(Pieces(LinesOf(view)))
                                     /\ DecoderOK(decoder', LinesOf(view))
    PROVE  Reads
<1>1. sent' = sent \/ \E b : sent' = Append(sent, b) /\ (Exempt \/ FaithfulBatch(b))
    <2>1. torn => Exempt
        BY DEF Exempt
    <2> QED
        BY <2>1
<1>2. Fit'
    BY DEF Fit
<1> QED
    BY <1>1, <1>2 DEF Reads

LEMMA FlushFits ==
    ASSUME NEW L, NEW d, DecoderOK(d, L) PROVE DecoderOK([d EXCEPT !.rows = <<>>], L)
<1> DEFINE e == [d EXCEPT !.rows = <<>>]
<1>1. d \in [skip : BOOLEAN, rows : Seq(L), partial : Seq(Pieces(L))] /\ Len(d.partial) <= 1
    BY DEF DecoderOK
<1>2. e.skip = d.skip /\ e.rows = <<>> /\ e.partial = d.partial
    BY <1>1
<1>3. e \in [skip : BOOLEAN, rows : Seq(L), partial : Seq(Pieces(L))]
    <2>1. <<>> \in Seq(L)
        OBVIOUS
    <2> QED
        BY <1>1, <2>1
<1> HIDE DEF e
<1>4. Len(e.rows) = 0 /\ Len(e.partial) \in Nat /\ Len(e.partial) <= 1
    BY <1>1, <1>2, LenProperties
<1>5. 2 * Len(e.rows) + Len(e.partial) <= 2 * BatchSize
    BY <1>4, ReaderAssumption
<1>6. DecoderOK(e, L)
    BY <1>2, <1>3, <1>4, <1>5 DEF DecoderOK
<1> QED
    BY <1>6 DEF e

LEMMA DecodeReads ==
    ASSUME CellsInv, pc = "read", UNCHANGED <<schema, view, torn, provider, request>>,
           provider \in {"s3", "uri"}, ~ request.binary, NEW format, decode_stream(format)
    PROVE  Reads
<1> USE DEF Stop, Complete, GoOn
<1> DEFINE L == LinesOf(view)
           P == Pieces(LinesOf(view))
<1>0. ~ torn => chunk \in Seq(P) /\ DecoderOK(decoder, L) /\ decoder.rows \in Seq(L)
    BY DEF CellsInv, Fit, DecoderOK
<1>e. <<>> \in Seq(P)
    OBVIOUS
<1>1. ASSUME chunk = <<>>, NextBytes(format), UNCHANGED <<decoder, sent>> PROVE Reads
    <2>1. pc' \in {"read", "done"}
        BY <1>1 DEF NextBytes
    <2>2. ~ torn => chunk' \in Seq(P)
        BY <1>1, BytesFit
    <2> QED
        BY <1>0, <1>1, <2>1, <2>2, FileReads
<1>2. CASE chunk # <<>>
    <2> DEFINE d == Decode(decoder, chunk)
    <2>1. ~ torn => DecoderOK(d.decoder, L) /\ d.consumed \in 0 .. Len(chunk)
        BY <1>0, DecodeOK
    <2> HIDE DEF d, L, P
    <2>2. ~ torn => SubSeq(chunk, d.consumed + 1, Len(chunk)) \in Seq(P)
        <3> SUFFICES ASSUME ~ torn PROVE SubSeq(chunk, d.consumed + 1, Len(chunk)) \in Seq(P)
            OBVIOUS
        <3>1. Len(chunk) \in Nat /\ chunk \in Seq(P)
            BY <1>0, LenProperties
        <3>2. d.consumed + 1 \in Nat \ {0} /\ Len(chunk) \in Int /\ Len(chunk) <= Len(chunk)
            BY <2>1, <3>1
        <3> QED
            BY <3>1, <3>2, SubSeqIn
    <2>3. CASE ~ d.sound
        BY <1>2, <2>3, FileReads DEF decode_stream, DecodeChunk, d
    <2>4. CASE d.sound /\ d.consumed # 0
        <3>1. decoder' = d.decoder /\ chunk' = SubSeq(chunk, d.consumed + 1, Len(chunk)) /\ sent' = sent /\ pc' = pc
            BY <1>2, <2>4 DEF decode_stream, DecodeChunk, d
        <3> QED
            BY <2>1, <2>2, <3>1, FileReads DEF L, P
    <2>5. CASE d.sound /\ d.consumed = 0 /\ decoder.rows # <<>>
        <3> DEFINE arrays == FileArrays(format, decoder.rows)
        <3>1. Flush(format, decoder, GoOn) /\ chunk' = chunk
            BY <1>2, <2>5 DEF decode_stream, DecodeChunk, d
        <3>2. /\ decoder' = [decoder EXCEPT !.rows = <<>>] /\ pc' \in {"read", "done"}
              /\ \/ sent' = sent
                 \/ Valid(arrays) /\ sent' = Append(sent, Batch(arrays, decoder.rows))
            BY <3>1 DEF Flush, Yield
        <3>3. ~ torn => DecoderOK(decoder', L)
            BY <1>0, <3>2, FlushFits
        <3>4. ~ torn /\ Valid(arrays) => Exempt \/ FaithfulBatch(Batch(arrays, decoder.rows))
            BY <1>0, DecodedFaithful DEF L
        <3> HIDE DEF arrays
        <3> QED
            BY <1>0, <3>1, <3>2, <3>3, <3>4, FileReads DEF L, P
    <2>6. CASE d.sound /\ d.consumed = 0 /\ decoder.rows = <<>>
        <3>1. chunk' = <<>> /\ decoder' = decoder /\ sent' = sent /\ pc' = pc
            BY <1>2, <2>6 DEF decode_stream, DecodeChunk, d
        <3> QED
            BY <1>0, <1>e, <3>1, FileReads DEF L, P
    <2> QED
        BY <2>3, <2>4, <2>5, <2>6
<1>3. ASSUME chunk = <<>>, ~ (NextBytes(format) /\ UNCHANGED <<decoder, sent>>) PROVE Reads
    <2> DEFINE e == DecodeEnd(decoder, format)
               rows == IF decoder.skip THEN decoder.rows ELSE decoder.rows \o RowsIn(decoder.partial)
               arrays == FileArrays(format, e.decoder.rows)
    <2>1. /\ pc' = "done"
          /\ \/ sent' = sent
             \/ Valid(arrays) /\ sent' = Append(sent, Batch(arrays, e.decoder.rows))
        BY <1>3 DEF decode_stream, Flush, Yield
    <2>2. ~ torn => e.decoder.rows \in Seq(L)
        <3> SUFFICES ASSUME ~ torn PROVE e.decoder.rows \in Seq(L)
            OBVIOUS
        <3>1. decoder \in [skip : BOOLEAN, rows : Seq(L), partial : Seq(P)]
            BY <1>0 DEF DecoderOK
        <3>2. e.decoder.rows = rows
            BY <3>1 DEF DecodeEnd
        <3>3. RowsIn(decoder.partial) \in Seq(L) /\ decoder.rows \in Seq(L)
            BY <3>1, RowsInType
        <3>4. decoder.rows \o RowsIn(decoder.partial) \in Seq(L)
            BY <3>3, ConcatProperties
        <3> QED
            BY <3>2, <3>3, <3>4
    <2>3. ~ torn /\ Valid(arrays) => Exempt \/ FaithfulBatch(Batch(arrays, e.decoder.rows))
        <3> DEFINE r == e.decoder.rows
        <3> HIDE DEF r
        <3>1. ~ torn => r \in Seq(L)
            BY <2>2 DEF r
        <3>2. ~ torn /\ Valid(FileArrays(format, r)) => Exempt \/ FaithfulBatch(Batch(FileArrays(format, r), r))
            BY <3>1, DecodedFaithful
        <3> QED
            BY <3>2 DEF r
    <2> HIDE DEF arrays, e
    <2> QED
        BY <2>1, <2>3, FileReads
<1> QED
    BY <1>1, <1>2, <1>3 DEF decode_stream

LEMMA SliceIn ==
    ASSUME CellsInv PROVE NextSlice(view.rows) \in Seq(LinesOf(view))
<1>1. /\ view.rows \in Seq(Range(view.rows)) /\ Len(view.rows) \in Nat /\ pos \in Nat
    BY TablesOK DEF CellsInv, TypeInv, ControlInv
<1>2. view.rows \in Seq(LinesOf(view))
    BY <1>1, SeqMonotonic DEF LinesOf
<1> DEFINE to == Min({pos + BatchSize, Len(view.rows)})
<1>3. pos + BatchSize \in Int /\ Len(view.rows) \in Int /\ pos + 1 \in Nat \ {0}
    BY <1>1, ReaderAssumption
<1>4. to \in Int /\ to <= Len(view.rows)
    BY <1>3, MinOfTwo
<1> HIDE DEF to
<1>5. SubSeq(view.rows, pos + 1, to) \in Seq(LinesOf(view))
    BY <1>2, <1>3, <1>4, SubSeqIn
<1> QED
    BY <1>5 DEF NextSlice, to

LEMMA ParquetFaithful ==
    ASSUME CellsInv, provider \in {"s3", "uri"}, Labelled, NEW rows \in Seq(LinesOf(view)), NEW arrays,
           arrays = [i \in DOMAIN view.cols |->
                       [type |-> view.cols[i].type, cells |-> [r \in DOMAIN rows |-> rows[r].fields[i][2]]]],
           Valid(arrays)
    PROVE  FaithfulBatch(Batch(arrays, rows))
<1>1. Positional /\ SessionOK
    BY DEF Positional, CellsInv, TypeInv, ControlInv
<1>2. \A r \in DOMAIN rows : Fits(rows[r], view)
    BY <1>1, ViewRowsFit
<1>3. \A c \in DOMAIN schema, r \in DOMAIN rows : Becomes(arrays[c], r, rows[r].fields[c][2])
    BY LabelledDomain DEF Becomes
<1> QED
    BY <1>1, <1>2, <1>3, LabelledDomain, PositionFaithful

LEMMA ReadFileReads ==
    ASSUME CellsInv, provider \in {"s3", "uri"}, ~ request.binary, NEW format \in Formats, NEW path,
           ReadFile(format, path)
    PROVE  Reads
<1> USE DEF Stop, Complete, GoOn
<1> DEFINE rows == NextSlice(view.rows)
           L == LinesOf(view)
<1>1. pc = "read" /\ UNCHANGED <<schema, view, torn, provider, request>>
    BY DEF ReadFile, worldVars
<1>2. rows \in Seq(L)
    BY SliceIn
<1>3. ~ torn => chunk \in Seq(Pieces(L)) /\ DecoderOK(decoder, L)
    BY <1>1 DEF CellsInv, Fit
<1>4. ASSUME decode_stream(format) PROVE Reads
    BY <1>1, <1>4, DecodeReads
<1>5. ASSUME read_json_batches(path) PROVE Reads
    <2> DEFINE arrays == FileArrays("json", rows)
    <2>1. /\ UNCHANGED <<chunk, decoder>> /\ pc' \in {"read", "done"}
          /\ \/ sent' = sent
             \/ Valid(arrays) /\ sent' = Append(sent, Batch(arrays, rows))
        BY <1>1, <1>5 DEF read_json_batches, Yield
    <2>2. Valid(arrays) => Exempt \/ FaithfulBatch(Batch(arrays, rows))
        <3> HIDE DEF rows
        <3> QED
            BY <1>2, DecodedFaithful
    <2> HIDE DEF arrays, rows
    <2> QED
        BY <1>1, <1>3, <2>1, <2>2, FileReads
<1>6. ASSUME read_parquet_batches PROVE Reads
    <2> DEFINE arrays == [i \in DOMAIN view.cols |->
                           [type |-> view.cols[i].type, cells |-> [r \in DOMAIN rows |-> rows[r].fields[i][2]]]]
    <2>1. /\ UNCHANGED <<chunk, decoder>> /\ pc' \in {"read", "done"}
          /\ \/ sent' = sent
             \/ Valid(arrays) /\ sent' = Append(sent, Batch(arrays, rows))
        BY <1>1, <1>6 DEF read_parquet_batches, Yield
    <2>2. Valid(arrays) => Exempt \/ FaithfulBatch(Batch(arrays, rows))
        <3>1. Labelled \/ Exempt
            BY DEF Exempt, Positional
        <3> HIDE DEF rows
        <3>2. Labelled /\ Valid(arrays) => FaithfulBatch(Batch(arrays, rows))
            BY <1>2, ParquetFaithful
        <3> QED
            BY <3>1, <3>2
    <2> HIDE DEF arrays, rows
    <2> QED
        BY <1>1, <1>3, <2>1, <2>2, FileReads
<1> QED
    BY <1>4, <1>5, <1>6 DEF ReadFile, Formats

LEMMA AnnounceOpens ==
    ASSUME CellsInv, pc = "schema", NEW format, NEW path, NEW keeps, AnnounceFile(format, path, keeps)
    PROVE  Opens
<1>1. sent = <<>> /\ chunk = <<>> /\ decoder \in EmptyDecoders
    BY DEF CellsInv, Fresh
<1>2. UNCHANGED <<sent, chunk>> /\ pc' # "read"
    BY DEF AnnounceFile, Refuse, Stop, progressVars
<1>3. decoder' = decoder \/ \E skip \in BOOLEAN : decoder' = [decoder EXCEPT !.skip = skip]
    BY DEF AnnounceFile, Refuse, progressVars
<1>4. decoder' \in EmptyDecoders
    BY <1>1, <1>3 DEF EmptyDecoders
<1> QED
    BY <1>2, <1>4 DEF Opens

LEMMA S3CellsKept == ASSUME CellsInv, S3Reader, provider = "s3", ~ request.binary PROVE Opens \/ Reads
<1> DEFINE formats == FormatOf(request.extension, request.hint)
           format == CHOOSE f \in formats : TRUE
<1> USE DEF Stop, Refuse, Begin, worldVars, progressVars
<1>1. CASE pc = "schema"
    <2>1. ASSUME Refuse PROVE Opens
        BY <1>1, <2>1, Opening
    <2> QED
        BY <1>1, <2>1, AnnounceOpens DEF S3Reader, ReadFile
<1>2. CASE pc = "open"
    <2>1. CASE format # "json"
        <3>1. UNCHANGED <<sent, chunk, decoder>> /\ view' = source
            BY <1>2, <2>1 DEF S3Reader, ReadFile
        <3> QED
            BY <1>2, <3>1, Opening
    <2>2. CASE format = "json"
        <3>1. formats = {"json"}
            <4>1. formats # {}
                BY <1>2 DEF CellsInv, TypeInv, ControlInv, FormatKnown
            <4> QED
                BY <2>2, <4>1 DEF FormatOf, from_format_str
        <3>2. ~ Live
            BY <3>1 DEF Live
        <3>3. UNCHANGED <<sent, chunk, decoder>>
            BY <1>2, <2>2 DEF S3Reader, ReadFile
        <3> QED
            BY <1>2, <3>2, <3>3 DEF CellsInv, Fresh, Opens
    <2> QED
        BY <2>1, <2>2
<1>3. CASE pc = "read"
    <2>1. formats # {} /\ ReadFile(format, {})
        BY <1>3 DEF S3Reader, CellsInv, TypeInv, ControlInv, FormatKnown
    <2>2. format \in Formats
        BY <2>1, FormatsKnown
    <2> QED
        BY <2>1, <2>2, ReadFileReads
<1> QED
    BY <1>1, <1>2, <1>3 DEF S3Reader, ReadFile

LEMMA UriCellsKept == ASSUME CellsInv, UriReader, provider = "uri", ~ request.binary PROVE Opens \/ Reads
<1> USE DEF Stop, Refuse, worldVars, progressVars
<1>1. CASE pc = "schema"
    <2>1. ASSUME Refuse PROVE Opens
        BY <1>1, <2>1, Opening
    <2> QED
        BY <1>1, <2>1, AnnounceOpens DEF UriReader, fetch_response
<1>2. CASE pc = "open"
    BY <1>2, Opening DEF UriReader
<1>3. CASE pc = "read"
    <2> DEFINE format == CHOOSE f \in UriFormat(view) : TRUE
    <2>1. UriFormat(view) # {} /\ ReadFile(format, UriQuery.data_path)
        BY <1>3 DEF UriReader, CellsInv, TypeInv, ControlInv, FormatKnown
    <2>2. format \in Formats
        BY <2>1, UriFormats
    <2> QED
        BY <2>1, <2>2, ReadFileReads
<1> QED
    BY <1>1, <1>2, <1>3 DEF UriReader

LEMMA BinaryCellsKept ==
    ASSUME CellsInv, S3Binary \/ UriBinary, provider \in {"s3", "uri"}, request.binary PROVE Opens \/ Reads
<1> USE DEF Stop, Refuse, Complete, GoOn, worldVars, progressVars
<1>1. ASSUME OpenBinary PROVE Opens
    BY <1>1, Opening DEF OpenBinary
<1>2. ASSUME pc = "schema", Refuse PROVE Opens
    BY <1>2, Opening
<1>3. ASSUME ReadBinary("csv") PROVE Reads
    <2>1. pc = "read" /\ pc' \in {"read", "done"} /\ UNCHANGED <<schema, view, provider, request>>
        BY <1>3 DEF ReadBinary, NextBytes
    <2>2. sent' = sent \/ \E b : sent' = Append(sent, b)
        BY <1>3 DEF ReadBinary
    <2>3. Exempt
        BY DEF Exempt
    <2> QED
        BY <2>1, <2>2, <2>3 DEF Reads, Fit
<1> QED
    BY <1>1, <1>2, <1>3 DEF S3Binary, UriBinary

LEMMA CellsStart == ReadersInit => CellsInv
<1> SUFFICES ASSUME ReadersInit PROVE CellsInv
    OBVIOUS
<1>1. sent = <<>> /\ chunk = <<>> /\ pc = "schema" /\ decoder \in EmptyDecoders
    BY DEF ReadersInit, SessionInit, EmptyDecoders
<1>2. sent \in Seq(Range(sent)) /\ Fresh /\ Steady /\ Fit /\ CellsFaithful
    BY <1>1 DEF Fresh, Steady, Fit, CellsFaithful
<1> QED
    BY <1>2, TypeStarts DEF CellsInv

LEMMA WorldCells == CellsInv /\ World => CellsInv'
<1> SUFFICES ASSUME CellsInv, World PROVE CellsInv'
    OBVIOUS
<1>1. TypeInv'
    BY TypeSteps DEF CellsInv, ReadersNext
<1>2. /\ UNCHANGED <<provider, request, schema, view, chunk, decoder, sent>>
      /\ pc' \in {pc, "stuck", "done"}
      /\ torn => torn'
    <2> USE DEF Stop, worldVars, progressVars
    <2>1. CASE Change
        BY <2>1 DEF Change
    <2>2. CASE SourceFails
        BY <2>2 DEF SourceFails
    <2>3. CASE ClientDrops
        BY <2>3 DEF ClientDrops
    <2>4. CASE PitExpires
        BY <2>4 DEF PitExpires
    <2>5. CASE Stalls
        BY <2>5 DEF Stalls
    <2> QED
        BY <2>1, <2>2, <2>3, <2>4, <2>5 DEF World
<1>3. (sent \in Seq(Range(sent)))' /\ Fresh' /\ Fit'
    BY <1>2 DEF CellsInv, Fresh, Fit
<1>4. CellsFaithful'
    BY <1>2 DEF CellsInv, CellsFaithful, Positional, Names
<1>5. Steady'
    <2>1. Live' = Live
        BY <1>2 DEF Live
    <2>2. ASSUME provider = "s3", Live, pc = "read", ~ torn' PROVE source' = source
        BY <2>2 DEF World, Change, SourceFails, Stalls, ClientDrops, PitExpires, worldVars
    <2> QED
        BY <1>2, <2>1, <2>2 DEF CellsInv, Steady
<1> QED
    BY <1>1, <1>3, <1>4, <1>5 DEF CellsInv

LEMMA CellsSteps == CellsInv /\ [ReadersNext]_readerVars => CellsInv'
<1> SUFFICES ASSUME CellsInv, [ReadersNext]_readerVars PROVE CellsInv'
    OBVIOUS
<1>1. CASE Reader
    <2>1. Opens \/ Reads
        BY <1>1, PgCellsKept, SqliteCellsKept, Neo4jCellsKept, EsCellsKept, MilvusCellsKept, S3CellsKept,
           UriCellsKept, BinaryCellsKept DEF Reader
    <2> QED
        BY <1>1, <2>1, OpensKeeps, ReadsKeeps
<1>2. CASE World
    BY <1>2, WorldCells
<1>3. CASE UNCHANGED readerVars
    <2>1. TypeInv'
        BY TypeSteps DEF CellsInv
    <2> QED
        BY <1>3, <2>1 DEF readerVars, CellsInv, Fresh, Steady, Fit, Live, CellsFaithful, Positional, Names
<1> QED
    BY <1>1, <1>2, <1>3 DEF ReadersNext

LEMMA CellsInvariance == ReadersSpec => []CellsInv
<1> QED
    BY CellsStart, CellsSteps, PTL DEF ReadersSpec

(***************************************************************************)
(* Every cell that a client gets is the value under the label of its       *)
(* column, its text, null, or the value to the step that its column can    *)
(* tell apart, for any tables, any sizes of batches, pages and reads, and  *)
(* any changes of the source (rows_to_batch, json_values_to_array,         *)
(* decode_stream and their like).                                          *)
(***************************************************************************)
THEOREM CellsAreFaithful == ReadersSpec => []CellsFaithful
<1>1. CellsInv => CellsFaithful
    BY DEF CellsInv
<1> QED
    BY <1>1, CellsInvariance, PTL

(***************************************************************************)
(* The bytes of a file spell its rows, after the header if there is one.   *)
(***************************************************************************)
Headers(format) == IF format = "csv" THEN 1 ELSE 0

LEMMA BytesSpell ==
    ASSUME NEW t, IsSeq(t.rows), NEW format
    PROVE  /\ IsSeq(Bytes(format, t))
           /\ \/ Len(Bytes(format, t)) = 2 * (Headers(format) + Len(t.rows))
              \/ format = "csv" /\ Len(Bytes(format, t)) = 2 * (Headers(format) + Len(t.rows)) - 1
           /\ \A k \in 1 .. Len(t.rows) : Bytes(format, t)[2 * (Headers(format) + k) - 1].row = t.rows[k]
<1> DEFINE header == HeaderOf(t)
           lines == IF format = "csv" THEN <<header>> \o t.rows ELSE t.rows
           byte(i) == [row |-> lines[(i + 1) \div 2], end |-> i % 2 = 0]
           bytes == [i \in 1 .. 2 * Len(lines) |-> byte(i)]
           h == Headers(format)
           n == Len(t.rows)
<1>1. n \in Nat /\ h \in {0, 1} /\ (h = 1 <=> format = "csv")
    BY SeqLen DEF Headers
<1>2. Len(lines) = h + n /\ \A k \in 1 .. n : lines[h + k] = t.rows[k]
    <2>1. CASE format = "csv"
        <3>1. IsSeq(<<header>>) /\ Len(<<header>>) = 1
            BY DEF IsSeq, Range
        <3> HIDE DEF header
        <3>2. /\ Len(<<header>> \o t.rows) = 1 + n
              /\ \A k \in 1 .. n : (<<header>> \o t.rows)[1 + k] = t.rows[k]
            BY <3>1, ConcatIs
        <3> QED
            BY <1>1, <2>1, <3>2
    <2>2. CASE format # "csv"
        <3>1. h = 0 /\ \A k \in 1 .. n : 0 + k = k
            BY <1>1, <2>2
        <3> QED
            BY <1>1, <2>2, <3>1
    <2> QED
        BY <2>1, <2>2
<1>3. Bytes(format, t) = IF format = "csv" /\ ~ t.newline THEN SubSeq(bytes, 1, Len(bytes) - 1) ELSE bytes
    BY DEF Bytes, HeaderOf
<1> HIDE DEF lines, h
<1>4. IsSeq(bytes) /\ Len(bytes) = 2 * (h + n)
    <2>1. 2 * Len(lines) \in Nat
        BY <1>1, <1>2
    <2>2. bytes = [i \in 1 .. 2 * Len(lines) |-> bytes[i]]
        OBVIOUS
    <2> HIDE DEF bytes
    <2> QED
        BY <1>2, <2>1, <2>2, AsSeq
<1>5. ASSUME NEW k \in 1 .. n PROVE bytes[2 * (h + k) - 1].row = t.rows[k]
    <2> DEFINE i == 2 * (h + k) - 1
    <2>1. i \in 1 .. 2 * Len(lines) /\ (i + 1) \div 2 = h + k
        BY <1>1, <1>2
    <2> HIDE DEF i
    <2>2. bytes[i].row = lines[(i + 1) \div 2]
        BY <2>1
    <2> QED
        BY <1>2, <2>1, <2>2 DEF i
<1> HIDE DEF bytes
<1>6. CASE format = "csv" /\ ~ t.newline
    <2> DEFINE s == SubSeq(bytes, 1, Len(bytes) - 1)
    <2>1. h = 1 /\ Len(bytes) - 1 \in Int /\ Len(bytes) - 1 <= Len(bytes) /\ 1 <= Len(bytes) - 1
        BY <1>1, <1>4, <1>6
    <2>2. /\ IsSeq(s) /\ Len(s) = (Len(bytes) - 1) - 1 + 1
          /\ \A i \in 1 .. Len(s) : s[i] = bytes[1 + i - 1]
        BY <1>4, <2>1, SubSeqIs
    <2> HIDE DEF s
    <2>3. Len(s) = 2 * (h + n) - 1
        BY <1>1, <1>4, <2>1, <2>2
    <2>4. ASSUME NEW k \in 1 .. n PROVE s[2 * (h + k) - 1].row = t.rows[k]
        <3> DEFINE i == 2 * (h + k) - 1
        <3>1. i \in 1 .. Len(s) /\ 1 + i - 1 = i
            BY <1>1, <2>3
        <3>2. bytes[i].row = t.rows[k]
            BY <1>5
        <3> HIDE DEF i
        <3>3. s[i] = bytes[i]
            BY <2>2, <3>1
        <3> QED
            BY <3>2, <3>3 DEF i
    <2> QED
        BY <1>3, <1>6, <2>2, <2>3, <2>4 DEF s, h
<1>7. CASE ~ (format = "csv" /\ ~ t.newline)
    BY <1>3, <1>4, <1>5, <1>7 DEF h
<1> QED
    BY <1>6, <1>7

(***************************************************************************)
(* The decoder is on its way through the bytes: those that it has not made *)
(* rows of follow on the lines that the client has got, or that wait.      *)
(***************************************************************************)
Ahead(d, bytes, to) == to - Len(bytes) - Len(d.partial)

OnTrack(d, bytes, to, format, t, got) ==
    /\ to <= Len(Bytes(format, t)) /\ Ahead(d, bytes, to) >= 0
    /\ \A i \in 1 .. Len(d.partial) : d.partial[i] = Bytes(format, t)[Ahead(d, bytes, to) + i]
    /\ \A i \in 1 .. Len(bytes) : bytes[i] = Bytes(format, t)[Ahead(d, bytes, to) + Len(d.partial) + i]
    /\ IF d.skip THEN Ahead(d, bytes, to) = 0 /\ format = "csv" /\ got = <<>> /\ d.rows = <<>>
       ELSE Ahead(d, bytes, to) = 2 * (Headers(format) + Len(got) + Len(d.rows))
    /\ Continues(got, d.rows, t.rows)

\* The rows among bytes that begin with a line.
SpeltFrom(bytes, format, t, from) ==
    /\ \A i \in 1 .. Len(bytes) : bytes[i] = Bytes(format, t)[2 * (Headers(format) + from) + i]
    /\ from + (Len(bytes) + 1) \div 2 <= Len(t.rows)

RowsFrom(rows, bytes, t, from) ==
    /\ IsSeq(rows) /\ Len(rows) = (Len(bytes) + 1) \div 2
    /\ \A i \in 1 .. Len(rows) : rows[i] = t.rows[from + i]

LEMMA RowsSpelt ==
    ASSUME NEW t, IsSeq(t.rows), NEW format, NEW bytes, IsSeq(bytes), NEW from \in Nat,
           SpeltFrom(bytes, format, t, from)
    PROVE  RowsFrom(RowsIn(bytes), bytes, t, from)
<1> USE DEF SpeltFrom, RowsFrom
<1> DEFINE n == (Len(bytes) + 1) \div 2
           rows == RowsIn(bytes)
           h == Headers(format)
<1>1. Len(bytes) \in Nat /\ n \in Nat /\ Len(t.rows) \in Nat /\ h \in {0, 1}
    BY SeqLen DEF Headers
<1>2. rows = [i \in 1 .. n |-> bytes[2 * i - 1].row]
    BY DEF RowsIn
<1>3. IsSeq(rows) /\ Len(rows) = n
    <2>1. rows = [i \in 1 .. n |-> rows[i]]
        BY <1>2
    <2> HIDE DEF rows, n
    <2> QED
        BY <1>1, <2>1, AsSeq
<1>4. ASSUME NEW i \in 1 .. n PROVE rows[i] = t.rows[from + i]
    <2>1. 2 * i - 1 \in 1 .. Len(bytes) /\ from + i \in 1 .. Len(t.rows)
        BY <1>1
    <2>2. 2 * (h + from) + (2 * i - 1) = 2 * (h + (from + i)) - 1
        BY <1>1
    <2> HIDE DEF h, n, rows
    <2>3. bytes[2 * i - 1] = Bytes(format, t)[2 * (h + (from + i)) - 1]
        BY <2>1, <2>2 DEF h
    <2>4. Bytes(format, t)[2 * (h + (from + i)) - 1].row = t.rows[from + i]
        BY <2>1, BytesSpell DEF h
    <2> QED
        BY <1>2, <2>3, <2>4
<1> QED
    BY <1>3, <1>4

LEMMA ReadOn ==
    ASSUME NEW a \in Nat, NEW b \in Nat, NEW k \in 0 .. b, NEW to \in Nat, NEW half \in Nat, NEW r,
           r = a + k, 2 * half <= r, NEW start, start = to - b - a
    PROVE  /\ to - (b - k) - (r - 2 * half) = start + 2 * half
           /\ (start + 2 * half) + (r - 2 * half) = start + a + k
<1> QED
    OBVIOUS

LEMMA DecodeTrack ==
    ASSUME NEW L, NEW d, DecoderOK(d, L), NEW bytes \in Seq(Pieces(L)), NEW to \in Nat, NEW format, NEW t,
           IsSeq(t.rows), NEW got, OnTrack(d, bytes, to, format, t, got)
    PROVE  OnTrack(Decode(d, bytes).decoder, SubSeq(bytes, Decode(d, bytes).consumed + 1, Len(bytes)), to,
                   format, t, got)
<1> DEFINE e == Decode(d, bytes).decoder
           k == Decode(d, bytes).consumed
           taken == SubSeq(bytes, 1, k)
           left == SubSeq(bytes, k + 1, Len(bytes))
           read == d.partial \o taken
           r == Len(read)
           a == Len(d.partial)
           b == Len(bytes)
           all == Bytes(format, t)
           start == Ahead(d, bytes, to)
<1>1. k \in 0 .. Len(bytes) /\ \E half : Decodes(d, bytes, half)
    BY DecodeOK
<1>2. PICK half : Decodes(d, bytes, half)
    BY <1>1
<1>3. /\ half \in Nat /\ 2 * half <= r /\ r - 2 * half \in 0 .. 1
      /\ d.skip => r <= 2
      /\ e.skip = (d.skip /\ half = 0)
      /\ e.rows = IF d.skip THEN d.rows ELSE d.rows \o RowsIn(SubSeq(read, 1, 2 * half))
      /\ e.partial = SubSeq(read, 2 * half + 1, r)
    BY <1>2 DEF Decodes
<1>4. IsSeq(bytes) /\ b \in Nat /\ IsSeq(d.partial) /\ a \in Nat /\ IsSeq(d.rows) /\ Len(d.rows) \in Nat
    <2>1. d.partial \in Seq(Pieces(L)) /\ d.rows \in Seq(L)
        BY DEF DecoderOK
    <2> QED
        BY <2>1, SeqIn, SeqLen
<1>5. /\ to <= Len(all) /\ start >= 0 /\ start = to - b - a
      /\ \A i \in 1 .. a : d.partial[i] = all[start + i]
      /\ \A i \in 1 .. b : bytes[i] = all[start + a + i]
      /\ IF d.skip THEN start = 0 /\ format = "csv" /\ got = <<>> /\ d.rows = <<>>
         ELSE start = 2 * (Headers(format) + Len(got) + Len(d.rows))
      /\ Continues(got, d.rows, t.rows)
    BY DEF OnTrack, Ahead
<1> HIDE DEF e, k, start, all, a, b
<1>6. IsSeq(taken) /\ Len(taken) = k /\ \A i \in 1 .. k : taken[i] = all[start + a + i]
    <2>1. k \in Int /\ k <= b /\ k \in Nat
        BY <1>1, <1>4 DEF b
    <2>2. /\ IsSeq(taken) /\ Len(taken) = IF 1 <= k THEN k - 1 + 1 ELSE 0
          /\ \A i \in 1 .. Len(taken) : taken[i] = bytes[1 + i - 1]
        BY <1>4, <2>1, SubSeqIs DEF b
    <2> HIDE DEF taken
    <2>3. Len(taken) = k
        BY <2>1, <2>2
    <2>4. \A i \in 1 .. k : i \in 1 .. b /\ 1 + i - 1 = i
        BY <1>4, <2>1
    <2> QED
        BY <1>5, <2>2, <2>3, <2>4
<1>7. /\ IsSeq(left) /\ Len(left) = b - k
      /\ \A i \in 1 .. b - k : left[i] = all[start + a + k + i]
    <2>1. k + 1 \in Nat \ {0} /\ b \in Int /\ b <= Len(bytes) /\ k \in 0 .. b
        BY <1>1, <1>4 DEF b
    <2>2. /\ IsSeq(left) /\ Len(left) = IF k + 1 <= b THEN b - (k + 1) + 1 ELSE 0
          /\ \A i \in 1 .. Len(left) : left[i] = bytes[(k + 1) + i - 1]
        BY <1>4, <2>1, SubSeqIs DEF b
    <2> HIDE DEF left
    <2>3. Len(left) = b - k
        BY <1>4, <2>1, <2>2
    <2>4. start \in Int
        BY <1>4, <1>5
    <2>5. ASSUME NEW i \in 1 .. b - k PROVE left[i] = all[start + a + k + i]
        <3>1. k + i \in 1 .. b /\ (k + 1) + i - 1 = k + i /\ start + a + (k + i) = start + a + k + i
            BY <1>4, <2>1, <2>4
        <3>2. left[i] = bytes[k + i]
            BY <2>2, <2>3, <3>1
        <3> QED
            BY <1>5, <3>1, <3>2
    <2> QED
        BY <2>2, <2>3, <2>5
<1> HIDE DEF taken, left
<1>8. IsSeq(read) /\ r = a + k /\ \A i \in 1 .. r : read[i] = all[start + i]
    <2>1. /\ IsSeq(read) /\ r = a + k
          /\ \A i \in 1 .. a : read[i] = d.partial[i]
          /\ \A i \in 1 .. k : read[a + i] = taken[i]
        <3>1. /\ IsSeq(read) /\ Len(read) = Len(d.partial) + Len(taken)
              /\ \A i \in 1 .. Len(d.partial) : read[i] = d.partial[i]
              /\ \A i \in 1 .. Len(taken) : read[Len(d.partial) + i] = taken[i]
            <4>1. IsSeq(d.partial) /\ IsSeq(taken)
                BY <1>4, <1>6
            <4> QED
                BY <4>1, ConcatIs
        <3> HIDE DEF read
        <3> QED
            BY <1>6, <3>1 DEF a
    <2> HIDE DEF read, r
    <2>2. k \in Nat /\ start \in Int
        BY <1>1, <1>4, <1>5
    <2>3. ASSUME NEW i \in 1 .. r PROVE read[i] = all[start + i]
        <3>1. CASE i \in 1 .. a
            BY <1>5, <2>1, <3>1
        <3>2. CASE i \notin 1 .. a
            <4> DEFINE j == i - a
            <4>1. j \in 1 .. k /\ i = a + j /\ start + a + j = start + i
                BY <1>4, <2>1, <2>2, <3>2
            <4> HIDE DEF j
            <4>2. read[i] = taken[j]
                BY <2>1, <4>1
            <4> QED
                BY <1>6, <4>1, <4>2
        <3> QED
            BY <3>1, <3>2
    <2> QED
        BY <2>1, <2>3
<1> HIDE DEF read, r
<1>9. k \in 0 .. b /\ k \in Nat /\ r \in Nat /\ start \in Nat
    BY <1>1, <1>4, <1>5, <1>8 DEF b
<1> DEFINE rest == e.partial
<1>10. /\ IsSeq(rest) /\ Len(rest) = r - 2 * half
       /\ \A i \in 1 .. Len(rest) : rest[i] = all[(start + 2 * half) + i]
    <2>1. 2 * half + 1 \in Nat \ {0} /\ r \in Int /\ r <= Len(read)
        BY <1>3, <1>9 DEF r
    <2>2. /\ IsSeq(rest) /\ Len(rest) = IF 2 * half + 1 <= r THEN r - (2 * half + 1) + 1 ELSE 0
          /\ \A i \in 1 .. Len(rest) : rest[i] = read[(2 * half + 1) + i - 1]
        BY <1>3, <1>8, <2>1, SubSeqIs
    <2> HIDE DEF rest
    <2>3. Len(rest) = r - 2 * half
        BY <1>3, <1>9, <2>2
    <2>4. ASSUME NEW i \in 1 .. Len(rest) PROVE rest[i] = all[(start + 2 * half) + i]
        <3>1. 2 * half + i \in 1 .. r /\ (2 * half + 1) + i - 1 = 2 * half + i
              /\ start + (2 * half + i) = (start + 2 * half) + i
            BY <1>3, <1>9, <2>3
        <3>2. rest[i] = read[2 * half + i]
            BY <2>2, <3>1
        <3> QED
            BY <1>8, <3>1, <3>2
    <2> QED
        BY <2>2, <2>3, <2>4
<1>11. /\ Ahead(e, left, to) = start + 2 * half
       /\ (start + 2 * half) + Len(e.partial) = start + a + k
    BY <1>3, <1>4, <1>5, <1>7, <1>8, <1>9, <1>10, ReadOn DEF Ahead
<1>12. /\ IF e.skip THEN start + 2 * half = 0 /\ format = "csv" /\ got = <<>> /\ e.rows = <<>>
          ELSE start + 2 * half = 2 * (Headers(format) + Len(got) + Len(e.rows))
       /\ Continues(got, e.rows, t.rows)
    <2>1. CASE d.skip
        <3>1. e.rows = <<>> /\ got = <<>> /\ format = "csv" /\ start = 0 /\ half \in {0, 1} /\ e.skip = (half = 0)
            BY <1>3, <1>5, <1>9, <2>1
        <3>2. Headers(format) = 1 /\ Len(got) = 0 /\ Len(e.rows) = 0
            BY <3>1, EmptyIs DEF Headers
        <3>3. Continues(got, e.rows, t.rows)
            BY <1>5, <2>1, <3>1
        <3>4. CASE half = 0
            <4>1. start + 2 * half = 0
                BY <3>1, <3>4
            <4>2. e.skip
                BY <3>1, <3>4, Zenon
            <4> QED
                BY <3>1, <3>3, <4>1, <4>2
        <3>5. CASE half = 1
            <4>1. start + 2 * half = 2 /\ 2 * (1 + 0 + 0) = 2
                BY <3>1, <3>5
            <4>s. ~ e.skip
                <5>1. half # 0
                    BY <3>5
                <5> QED
                    BY <3>1, <5>1, Zenon
            <4>2. start + 2 * half = 2 * (Headers(format) + Len(got) + Len(e.rows))
                BY <3>2, <4>1
            <4> QED
                BY <3>3, <4>s, <4>2
        <3> QED
            BY <3>1, <3>4, <3>5
    <2>2. CASE ~ d.skip
        <3> DEFINE complete == SubSeq(read, 1, 2 * half)
                   n == Len(got) + Len(d.rows)
                   new == RowsIn(complete)
        <3>1. Len(got) \in Nat /\ n \in Nat /\ Headers(format) \in Nat /\ Len(t.rows) \in Nat
            BY <1>4, <1>5, SeqLen DEF Continues, Headers
        <3>2. start = 2 * (Headers(format) + n)
            BY <1>4, <1>5, <2>2, <3>1
        <3>3. /\ IsSeq(complete) /\ Len(complete) = 2 * half
              /\ \A i \in 1 .. 2 * half : complete[i] = all[2 * (Headers(format) + n) + i]
            <4>1. 1 \in Nat \ {0} /\ 2 * half \in Int /\ 2 * half <= Len(read)
                BY <1>3, <1>9 DEF r
            <4>2. /\ IsSeq(complete) /\ Len(complete) = IF 1 <= 2 * half THEN 2 * half - 1 + 1 ELSE 0
                  /\ \A i \in 1 .. Len(complete) : complete[i] = read[1 + i - 1]
                BY <1>8, <4>1, SubSeqIs
            <4> HIDE DEF complete, n
            <4>3. Len(complete) = 2 * half
                BY <1>3, <4>2
            <4>4. \A i \in 1 .. 2 * half : i \in 1 .. r /\ 1 + i - 1 = i
                BY <1>3, <1>9
            <4> QED
                BY <1>8, <3>2, <4>2, <4>3, <4>4
        <3> HIDE DEF complete, n
        <3>4. (Len(complete) + 1) \div 2 = half
            BY <1>3, <3>3
        <3>5. n + half <= Len(t.rows)
            <4>1. start + r <= to
                BY <1>4, <1>5, <1>8, <1>9
            <4>2. Len(all) <= 2 * (Headers(format) + Len(t.rows))
                BY <3>1, BytesSpell DEF all
            <4>3. Len(all) \in Nat
                BY BytesSpell, SeqLen DEF all
            <4>4. 2 * (Headers(format) + n) + 2 * half <= 2 * (Headers(format) + Len(t.rows))
                <5>1. start + 2 * half <= start + r
                    BY <1>3, <1>9
                <5>2. start + r <= Len(all)
                    BY <1>5, <1>9, <4>1, <4>3
                <5>3. start + 2 * half <= Len(all)
                    BY <1>3, <1>9, <4>3, <5>1, <5>2
                <5> DEFINE most == 2 * (Headers(format) + Len(t.rows))
                <5>4. most \in Nat
                    BY <3>1
                <5> HIDE DEF most
                <5>5. start + 2 * half <= most
                    BY <1>3, <1>9, <4>2, <4>3, <5>3, <5>4 DEF most
                <5> QED
                    BY <3>2, <5>5 DEF most
            <4> QED
                BY <1>3, <3>1, <4>4
        <3>6. IsSeq(new) /\ Len(new) = half /\ \A i \in 1 .. half : new[i] = t.rows[n + i]
            <4>1. \A i \in 1 .. Len(complete) : complete[i] = Bytes(format, t)[2 * (Headers(format) + n) + i]
                BY <3>3 DEF all
            <4>2. n + (Len(complete) + 1) \div 2 <= Len(t.rows)
                BY <3>4, <3>5
            <4>3. /\ IsSeq(new) /\ Len(new) = (Len(complete) + 1) \div 2
                  /\ \A i \in 1 .. Len(new) : new[i] = t.rows[n + i]
                <5>1. IsSeq(complete) /\ n \in Nat
                    BY <3>1, <3>3
                <5>2. SpeltFrom(complete, format, t, n)
                    BY <4>1, <4>2 DEF SpeltFrom
                <5>3. RowsFrom(new, complete, t, n)
                    BY <5>1, <5>2, RowsSpelt
                <5> HIDE DEF new
                <5> QED
                    BY <5>3 DEF RowsFrom
            <4> HIDE DEF new
            <4> QED
                BY <3>4, <4>3
        <3> HIDE DEF new
        <3>7. e.rows = d.rows \o new /\ ~ e.skip
            BY <1>3, <2>2 DEF new, complete
        <3>8. Len(e.rows) = Len(d.rows) + half
            BY <1>4, <3>6, <3>7, ConcatIs
        <3>9. Continues(got, e.rows, t.rows)
            <4>1. Len(got) + Len(d.rows) + Len(new) <= Len(t.rows)
                BY <3>5, <3>6 DEF n
            <4>2. \A i \in 1 .. Len(new) : new[i] = t.rows[Len(got) + Len(d.rows) + i]
                BY <3>6 DEF n
            <4>3. Continues(got, d.rows, t.rows) /\ IsSeq(new)
                BY <1>5, <3>6
            <4>4. Continues(got, d.rows \o new, t.rows)
                BY <4>1, <4>2, <4>3, ContinuesMore
            <4> QED
                BY <3>7, <4>4
        <3>10. start + 2 * half = 2 * (Headers(format) + Len(got) + Len(e.rows))
            <4> DEFINE h == Headers(format)
                       g == Len(got)
                       m == Len(d.rows)
            <4>1. h \in Nat /\ g \in Nat /\ m \in Nat /\ start = 2 * (h + (g + m)) /\ Len(e.rows) = m + half
                BY <1>4, <3>1, <3>2, <3>8 DEF n
            <4> HIDE DEF h, g, m
            <4>2. start + 2 * half = 2 * (h + g + (m + half))
                BY <1>3, <4>1
            <4> QED
                BY <4>1, <4>2 DEF h, g
        <3> QED
            BY <3>7, <3>9, <3>10
    <2> QED
        BY <2>1, <2>2
<1>13. Ahead(e, left, to) >= 0
    BY <1>3, <1>9, <1>11
<1>14. OnTrack(e, left, to, format, t, got)
    <2>1. \A i \in 1 .. Len(left) : left[i] = all[Ahead(e, left, to) + Len(e.partial) + i]
        BY <1>7, <1>11
    <2> QED
        BY <1>5, <1>10, <1>11, <1>12, <1>13, <2>1 DEF OnTrack, all
<1> QED
    BY <1>14 DEF e, k, left

LEMMA StartTrack ==
    ASSUME NEW d \in EmptyDecoders, NEW format, d.skip = (format = "csv"), NEW t, IsSeq(t.rows)
    PROVE  OnTrack(d, <<>>, 0, format, t, <<>>)
<1>1. d.rows = <<>> /\ d.partial = <<>> /\ Len(<<>>) = 0
    BY EmptyIs DEF EmptyDecoders
<1>2. Ahead(d, <<>>, 0) = 0
    <2>1. Ahead(d, <<>>, 0) = 0 - Len(<<>>) - Len(<<>>)
        BY <1>1 DEF Ahead
    <2>2. 0 - 0 - 0 = 0
        OBVIOUS
    <2> QED
        BY <1>1, <2>1, <2>2
<1>3. Len(Bytes(format, t)) \in Nat
    BY BytesSpell, SeqLen
<1>4. Continues(<<>>, d.rows, t.rows)
    BY <1>1, ContinuesStart
<1>5. format # "csv" => 0 = 2 * (Headers(format) + Len(<<>>) + Len(d.rows))
    BY <1>1 DEF Headers
<1>6. d.skip <=> format = "csv"
    BY Zenon
<1> QED
    BY <1>1, <1>2, <1>3, <1>4, <1>5, <1>6 DEF OnTrack

LEMMA ReadTrack ==
    ASSUME NEW d, NEW to \in Nat, NEW format, NEW t, IsSeq(t.rows), NEW got, IsSeq(d.partial),
           OnTrack(d, <<>>, to, format, t, got), NEW n \in Nat, to + n <= Len(Bytes(format, t))
    PROVE  OnTrack(d, SubSeq(Bytes(format, t), to + 1, to + n), to + n, format, t, got)
<1> DEFINE all == Bytes(format, t)
           new == SubSeq(all, to + 1, to + n)
           a == Len(d.partial)
<1>1. IsSeq(all) /\ a \in Nat /\ Len(<<>>) = 0
    BY BytesSpell, SeqLen, EmptyIs
<1>2. /\ IsSeq(new) /\ Len(new) = IF to + 1 <= to + n THEN (to + n) - (to + 1) + 1 ELSE 0
      /\ \A i \in 1 .. Len(new) : new[i] = all[(to + 1) + i - 1]
    <2> DEFINE lo == to + 1
               hi == to + n
    <2>1. lo \in Nat \ {0} /\ hi \in Int /\ hi <= Len(all)
        OBVIOUS
    <2> HIDE DEF all, lo, hi
    <2>2. /\ IsSeq(SubSeq(all, lo, hi))
          /\ Len(SubSeq(all, lo, hi)) = IF lo <= hi THEN hi - lo + 1 ELSE 0
          /\ \A i \in 1 .. Len(SubSeq(all, lo, hi)) : SubSeq(all, lo, hi)[i] = all[lo + i - 1]
        BY <1>1, <2>1, SubSeqIs
    <2> QED
        BY <2>2, Zenon DEF lo, hi
<1> HIDE DEF new
<1>3. Len(new) = n
    BY <1>2
<1>4. /\ Ahead(d, <<>>, to) = to - a /\ Ahead(d, new, to + n) = to - a
      /\ (to - a) + a = to
    BY <1>1, <1>3 DEF Ahead
<1>5. \A i \in 1 .. Len(new) : new[i] = all[Ahead(d, new, to + n) + a + i]
    <2>1. \A i \in 1 .. Len(new) : (to + 1) + i - 1 = to + i
        BY <1>3
    <2> QED
        BY <1>2, <1>4, <2>1
<1>6. OnTrack(d, new, to + n, format, t, got)
    BY <1>4, <1>5 DEF OnTrack
<1> QED
    BY <1>6 DEF new

LEMMA FlushTrack ==
    ASSUME NEW L, NEW d, DecoderOK(d, L), NEW bytes, NEW to, NEW format, NEW t, NEW got,
           OnTrack(d, bytes, to, format, t, got)
    PROVE  OnTrack([d EXCEPT !.rows = <<>>], bytes, to, format, t, got \o d.rows)
<1> DEFINE e == [d EXCEPT !.rows = <<>>]
           g == got \o d.rows
<1>1. e.rows = <<>> /\ e.skip = d.skip /\ e.partial = d.partial
    BY DEF DecoderOK
<1>2. Continues(got, d.rows, t.rows)
    BY DEF OnTrack
<1>3. Continues(g, <<>>, t.rows) /\ Len(g) = Len(got) + Len(d.rows)
    BY <1>2, ContinuesSend
<1>4. Len(got) \in Nat /\ Len(d.rows) \in Nat
    BY <1>2, SeqLen DEF Continues
<1> HIDE DEF e
<1>5. Ahead(e, bytes, to) = Ahead(d, bytes, to)
    BY <1>1 DEF Ahead
<1>6. CASE d.skip
    <2>1. got = <<>> /\ d.rows = <<>>
        BY <1>6 DEF OnTrack
    <2>2. g = <<>>
        BY <2>1
    <2> HIDE DEF g
    <2>3. OnTrack(e, bytes, to, format, t, g)
        BY <1>1, <1>3, <1>5, <1>6, <2>2 DEF OnTrack
    <2> QED
        BY <2>3 DEF e, g
<1>7. CASE ~ d.skip
    <2> HIDE DEF g
    <2> DEFINE h == Headers(format)
               x == Len(got)
               y == Len(d.rows)
    <2>1. h \in Nat /\ x \in Nat /\ y \in Nat
        BY <1>4 DEF Headers
    <2> HIDE DEF h, x, y
    <2>2. 2 * (h + x + y) = 2 * (h + (x + y) + 0)
        BY <2>1
    <2>3. Len(g) = x + y /\ Len(e.rows) = 0
        BY <1>1, <1>3, EmptyIs DEF x, y
    <2>4. Ahead(e, bytes, to) = 2 * (h + x + y)
        BY <1>5, <1>7 DEF OnTrack, h, x, y
    <2>5. Ahead(e, bytes, to) = 2 * (Headers(format) + Len(g) + Len(e.rows))
        BY <2>2, <2>3, <2>4 DEF h
    <2>6. OnTrack(e, bytes, to, format, t, g)
        BY <1>1, <1>3, <1>5, <1>7, <2>5 DEF OnTrack
    <2> QED
        BY <2>6 DEF e, g
<1> QED
    BY <1>6, <1>7

\* The end of the bytes is the end of the rows.
LEMMA EndTrack ==
    ASSUME NEW L, NEW d, DecoderOK(d, L), NEW to, NEW format, NEW t, IsSeq(t.rows), NEW got,
           OnTrack(d, <<>>, to, format, t, got), to = Len(Bytes(format, t)), DecodeEnd(d, format).sound
    PROVE  /\ Continues(got, DecodeEnd(d, format).decoder.rows, t.rows)
           /\ Len(got) + Len(DecodeEnd(d, format).decoder.rows) = Len(t.rows)
<1> DEFINE rows == DecodeEnd(d, format).decoder.rows
           all == Bytes(format, t)
           h == Headers(format)
           n == Len(got) + Len(d.rows)
           a == Len(d.partial)
           N == Len(t.rows)
<1>1. rows = IF d.skip THEN d.rows ELSE d.rows \o RowsIn(d.partial)
    BY DEF DecodeEnd, DecoderOK
<1>2. d.partial = <<>> \/ format = "csv"
    BY DEF DecodeEnd
<1>3. /\ IsSeq(d.partial) /\ IsSeq(d.rows) /\ a \in Nat /\ a <= 1 /\ (d.partial = <<>> <=> a = 0)
      /\ d.skip \in BOOLEAN /\ Len(d.rows) \in Nat
    <2>1. d.partial \in Seq(Pieces(L)) /\ d.rows \in Seq(L) /\ a <= 1 /\ d.skip \in BOOLEAN
        BY DEF DecoderOK
    <2> QED
        BY <2>1, SeqIn, SeqLen, EmptyWhenLen
<1>4. Continues(got, d.rows, t.rows) /\ IsSeq(got) /\ Len(got) \in Nat /\ n \in Nat /\ N \in Nat /\ h \in {0, 1}
    BY <1>3, SeqLen DEF OnTrack, Continues, Headers
<1>5. /\ Len(all) \in Nat
      /\ Len(all) = 2 * (h + N) \/ (format = "csv" /\ Len(all) = 2 * (h + N) - 1)
    BY BytesSpell, SeqLen
<1> DEFINE start == Ahead(d, <<>>, to)
<1>6. start = Len(all) - a
    BY <1>3, <1>5, EmptyIs DEF Ahead
<1>7. /\ \A i \in 1 .. a : d.partial[i] = all[start + i]
      /\ IF d.skip THEN start = 0 /\ format = "csv" /\ got = <<>> /\ d.rows = <<>>
         ELSE start = 2 * (h + Len(got) + Len(d.rows))
    BY DEF OnTrack
<1> HIDE DEF rows, all, start
<1>8. CASE d.skip
    <2>1. Len(all) <= 1 /\ format = "csv" /\ h = 1 /\ Len(got) = 0 /\ rows = <<>> /\ Len(rows) = 0 /\ d.rows = <<>>
        BY <1>1, <1>3, <1>5, <1>6, <1>7, <1>8, EmptyIs DEF Headers
    <2>2. N = 0
        BY <1>4, <1>5, <2>1
    <2>3. Continues(got, rows, t.rows) /\ Len(got) + Len(rows) = N
        BY <1>4, <2>1, <2>2
    <2> QED
        BY <2>3 DEF rows
<1>9. CASE ~ d.skip
    <2>1. start = 2 * (h + n)
        BY <1>3, <1>4, <1>7, <1>9
    <2> HIDE DEF h, n, a, N
    <2>2. n + a = N
        <3>1. CASE a = 0
            BY <1>4, <1>5, <1>6, <2>1, <3>1
        <3>2. CASE a = 1
            BY <1>4, <1>5, <1>6, <2>1, <3>2
        <3> QED
            BY <1>3, <3>1, <3>2
    <2> DEFINE new == RowsIn(d.partial)
    <2>3. (a + 1) \div 2 = a
        <3>1. CASE a = 0
            BY <3>1
        <3>2. CASE a = 1
            BY <3>2
        <3> QED
            BY <1>3, <3>1, <3>2
    <2>4. SpeltFrom(d.partial, format, t, n)
        <3>1. \A i \in 1 .. a : d.partial[i] = all[2 * (h + n) + i]
            BY <1>7, <2>1
        <3>2. n + (a + 1) \div 2 <= N
            BY <1>4, <2>2, <2>3
        <3> QED
            BY <3>1, <3>2 DEF SpeltFrom, a, all, h, N
    <2>5. RowsFrom(new, d.partial, t, n)
        BY <1>3, <1>4, <2>4, RowsSpelt
    <2> HIDE DEF new
    <2>6. IsSeq(new) /\ Len(new) = a /\ \A i \in 1 .. Len(new) : new[i] = t.rows[n + i]
        BY <2>3, <2>5 DEF RowsFrom, a
    <2>7. rows = d.rows \o new
        BY <1>1, <1>9 DEF new
    <2>8. Continues(got, d.rows \o new, t.rows)
        <3>1. Len(got) + Len(d.rows) + Len(new) <= Len(t.rows)
            BY <1>4, <2>2, <2>6 DEF n, N
        <3>2. \A i \in 1 .. Len(new) : new[i] = t.rows[Len(got) + Len(d.rows) + i]
            BY <2>6 DEF n
        <3>3. IsSeq(new) /\ Continues(got, d.rows, t.rows)
            BY <1>4, <2>6
        <3> QED
            BY <3>1, <3>2, <3>3, ContinuesMore
    <2>9. Len(rows) = Len(d.rows) + a
        BY <1>3, <2>6, <2>7, ConcatIs
    <2>10. Len(got) + Len(rows) = N
        BY <1>3, <1>4, <2>2, <2>9 DEF n
    <2> QED
        BY <2>7, <2>8, <2>10 DEF rows, N
<1> QED
    BY <1>3, <1>8, <1>9

(***************************************************************************)
(* What a step of a reader is to its client: nothing, the moment that the  *)
(* stream is about, an error, a batch, or the end.                         *)
(***************************************************************************)
Waits == UNCHANGED <<view, sent, outcome>>

Takes == ~ Begun /\ ~ torn /\ outcome = "none" /\ view' = source /\ UNCHANGED <<sent, outcome>>

Fails == outcome = "none" /\ outcome' = "error" /\ UNCHANGED <<view, sent>>

Adds(b) ==
    /\ Begun /\ outcome = "none" /\ outcome' \in {"none", "ok"} /\ view' = view
    /\ sent' = Append(sent, b) /\ IsSeq(b.rows) /\ b.rows # <<>>
    /\ ~ torn => /\ IsPrefix(Flat(sent'), WantedRows(Reading))
                 /\ outcome' = "ok" => Flat(sent') = WantedRows(Reading)

Ends ==
    /\ Begun /\ outcome = "none" /\ outcome' = "ok" /\ UNCHANGED <<view, sent>>
    /\ ~ torn => Flat(sent) = WantedRows(Reading)

ReaderStep == Waits \/ Takes \/ Fails \/ (\E b : Adds(b)) \/ Ends

LEMMA GivenFlat == Given = Flat(sent)
<1> QED
    BY DEF Given, Flat

LEMMA SameWanted ==
    ASSUME UNCHANGED <<provider, request>>, NEW t PROVE WantedRows(t)' = WantedRows(t')
<1> QED
    BY DEF WantedRows, Limited, EsSorted, SortedBefore, SortValues, EsQuery, MilvusQuery

LEMMA PrefixOfAppend ==
    ASSUME NEW s, IsSeq(s), NEW t, IsSeq(t), t # <<>>
    PROVE  IsPrefix(s, s \o t) /\ IsStrictPrefix(s, s \o t)
<1> DEFINE u == s \o t
<1>1. IsSeq(u) /\ Len(u) = Len(s) + Len(t) /\ \A i \in 1 .. Len(s) : u[i] = s[i]
    BY ConcatIs
<1> HIDE DEF u
<1>2. Len(s) \in Nat /\ Len(t) \in Nat /\ Len(t) # 0
    BY SeqLen, EmptyWhenLen
<1>3. IsPrefix(s, u)
    <2>1. Len(s) <= Len(u)
        BY <1>1, <1>2
    <2> QED
        BY <1>1, <2>1, PrefixIs
<1>4. s # u
    BY <1>1, <1>2
<1> QED
    BY <1>3, <1>4 DEF IsStrictPrefix, u

LEMMA StepMaps ==
    ASSUME SessionOK, BatchesOK(sent), UNCHANGED <<provider, request, source, torn>>, ReaderStep
    PROVE  [Stream!Next]_(Stream!streamVars)
<1>1. Isolation' = Isolation /\ Live' = Live
    BY DEF Isolation, Live
<1>2. WantedRows(source)' = WantedRows(source)
    BY SameWanted
<1>3. outcome = "none" => StreamStatus = IF torn THEN "torn" ELSE IF Begun THEN "streaming" ELSE "waiting"
    BY DEF StreamStatus
<1>4. view' = view => Result' = Result
    <2> SUFFICES ASSUME view' = view PROVE Result' = Result
        OBVIOUS
    <2>1. Begun' = Begun /\ Reading' = Reading
        BY <1>1 DEF Begun, Reading
    <2>2. WantedRows(Reading)' = WantedRows(Reading)
        BY <2>1, SameWanted
    <2> QED
        BY <2>1, <2>2 DEF Result
<1>5. CASE Waits
    <2>1. StreamStatus' = StreamStatus
        BY <1>5 DEF Waits, StreamStatus, Begun
    <2>2. Given' = Given /\ Result' = Result
        BY <1>4, <1>5 DEF Waits, Given
    <2> QED
        BY <1>1, <1>2, <2>1, <2>2 DEF Stream!streamVars
<1>6. CASE Takes
    <2>1. StreamStatus = "waiting"
        BY <1>3, <1>6 DEF Takes
    <2>2. source # NoTable
        BY ReaderAssumption DEF SessionOK
    <2>3. Begun' /\ Reading' = source
        BY <1>1, <1>6, <2>2 DEF Takes, Begun, Reading
    <2>4. StreamStatus' = "streaming"
        BY <1>6, <2>3 DEF Takes, StreamStatus
    <2>5. Result' = WantedRows(source)
        <3>1. WantedRows(Reading)' = WantedRows(source)
            BY <2>3, SameWanted
        <3> QED
            BY <2>3, <3>1 DEF Result
    <2>6. Given' = Given
        BY <1>6 DEF Takes, Given
    <2> QED
        BY <1>1, <1>2, <2>1, <2>4, <2>5, <2>6 DEF Stream!Next, Stream!Take
<1>7. CASE Fails
    <2>1. StreamStatus \in {"waiting", "streaming", "torn"}
        BY <1>3, <1>7 DEF Fails
    <2>2. StreamStatus' = "failed" /\ Given' = Given
        BY <1>7 DEF Fails, StreamStatus, Given
    <2> QED
        BY <1>1, <1>2, <2>1, <2>2 DEF Stream!Next, Stream!Fail
<1>8. ASSUME NEW b, Adds(b) PROVE Stream!Next
    <2>1. Given' = Given \o b.rows
        <3>1. Flat(Append(sent, b)) = Flat(sent) \o b.rows
            BY <1>8, FlatAppend DEF Adds
        <3> QED
            BY <1>8, <3>1, GivenFlat DEF Adds, Given, Flat
    <2>2. IsPrefix(Given, Given') /\ IsStrictPrefix(Given, Given')
        <3>1. IsSeq(Given)
            BY FlatIs, GivenFlat
        <3> QED
            BY <1>8, <2>1, <3>1, PrefixOfAppend DEF Adds
    <2>3. CASE torn
        <3>1. StreamStatus = "torn"
            BY <1>3, <1>8, <2>3 DEF Adds
        <3>2. StreamStatus' \in {"torn", "complete"}
            BY <1>8, <2>3 DEF Adds, StreamStatus
        <3> QED
            BY <1>1, <2>2, <3>1, <3>2 DEF Stream!Next, Stream!Torn, Stream!IsPrefix, IsPrefix
    <2>4. CASE ~ torn
        <3>1. StreamStatus = "streaming"
            BY <1>3, <1>8, <2>4 DEF Adds
        <3>2. Result' = Result /\ Result = WantedRows(Reading)
            BY <1>4, <1>8 DEF Adds, Result
        <3>3. Given' = Flat(sent')
            BY DEF Given, Flat
        <3>4. IsPrefix(Given', Result)
            BY <1>8, <2>4, <3>2, <3>3 DEF Adds
        <3>5. Begun'
            BY <1>8 DEF Adds, Begun
        <3>6. StreamStatus' = "streaming" \/ (StreamStatus' = "complete" /\ Given' = Result)
            <4>1. CASE outcome' = "none"
                BY <2>4, <3>5, <4>1 DEF StreamStatus
            <4>2. CASE outcome' = "ok"
                <5>1. StreamStatus' = "complete"
                    BY <4>2 DEF StreamStatus
                <5> QED
                    BY <1>8, <2>4, <3>2, <3>3, <4>2, <5>1 DEF Adds
            <4> QED
                BY <1>8, <4>1, <4>2 DEF Adds
        <3> QED
            BY <1>1, <1>2, <2>2, <3>1, <3>2, <3>4, <3>6 DEF Stream!Next, Stream!Give, Stream!IsPrefix, IsPrefix,
               Stream!IsStrictPrefix, IsStrictPrefix
    <2> QED
        BY <2>3, <2>4
<1>9. CASE Ends
    <2>1. StreamStatus' = "complete" /\ Given' = Given
        BY <1>9 DEF Ends, StreamStatus, Given
    <2>2. CASE torn
        <3>1. StreamStatus = "torn"
            BY <1>3, <1>9, <2>2 DEF Ends
        <3>2. IsPrefix(Given, Given)
            <4>1. IsSeq(Given)
                BY FlatIs, GivenFlat
            <4>2. Len(Given) \in Nat
                BY <4>1, SeqLen
            <4> QED
                BY <4>1, <4>2, PrefixIs
        <3> QED
            BY <1>1, <2>1, <3>1, <3>2 DEF Stream!Next, Stream!Torn, Stream!IsPrefix, IsPrefix
    <2>3. CASE ~ torn
        <3>1. StreamStatus = "streaming"
            BY <1>3, <1>9, <2>3 DEF Ends
        <3>2. Result' = Result /\ Result = WantedRows(Reading)
            BY <1>4, <1>9 DEF Ends, Result
        <3>3. Given = Result
            BY <1>9, <2>3, <3>2, GivenFlat DEF Ends
        <3> QED
            BY <1>1, <1>2, <2>1, <3>1, <3>2, <3>3 DEF Stream!Next, Stream!End
    <2> QED
        BY <2>2, <2>3
<1> QED
    BY <1>5, <1>6, <1>7, <1>8, <1>9 DEF ReaderStep

(***************************************************************************)
(* The inductive invariant of the streams.  A reader has fixed its view    *)
(* when its stream has begun, and not before, unless it keeps what it      *)
(* fetched.  What it has read and not yet given follows on what it gave,   *)
(* and so does what it reads next.  Where the source changed under a       *)
(* reader that cannot bear it, only the batches are still sequences.       *)
(***************************************************************************)
OfFile == provider \in {"s3", "uri"} /\ ~ request.binary
ReadFormat ==
    CHOOSE f \in IF provider = "s3" THEN FormatOf(request.extension, request.hint) ELSE UriFormat(view) : TRUE
Decoding == OfFile /\ ReadFormat \in {"csv", "jsonl"}
Keeps == provider = "uri" \/ (provider = "s3" /\ ~ Live)
ByRow == provider \in {"postgres", "sqlite", "neo4j"} \/ (provider \in {"s3", "uri"} /\ request.binary)
Waiting == IF ByRow THEN chunk ELSE <<>>
AnyLines == UNION {LinesOf(t) : t \in Versions[provider]}

BeginsRight ==
    /\ pc \in {"schema", "open"} => pos = 0 /\ ~ torn
    /\ pc = "schema" => ~ Begun
    /\ pc = "open" => (Begun <=> Keeps)
    /\ pc \notin {"schema", "open", "stuck", "done"} => Begun
    /\ pc = "open" /\ OfFile => (decoder.skip <=> ReadFormat = "csv")
    /\ torn /\ pc # "done" => Live
    /\ pc = "commit" => provider = "postgres"
    /\ pc \in {"close", "close_error"} => provider = "elasticsearch"

SeqsRight ==
    /\ BatchesOK(sent)
    /\ pc = "read" => IsSeq(chunk)
    /\ pc = "read" /\ OfFile => chunk \in Seq(Pieces(AnyLines)) /\ DecoderOK(decoder, AnyLines)

ReadsOn ==
    IF Decoding THEN OnTrack(decoder, chunk, pos, ReadFormat, view, Flat(sent))
    ELSE /\ Continues(Flat(sent), Waiting, WantedRows(Reading))
         /\ pos = Len(Flat(sent)) + Len(Waiting)
         /\ provider = "elasticsearch" /\ sent # <<>> =>
                pos >= 1 /\ Last(Last(sent).rows) = EsSorted(view.rows)[pos]

RowsRight ==
    ~ torn => /\ pc = "read" => ReadsOn
              /\ pc \in {"commit", "close"} => Flat(sent) = WantedRows(Reading)

StreamInv == CellsInv /\ BeginsRight /\ SeqsRight /\ RowsRight

LEMMA FlatNone == BatchesOK(<<>>) /\ Flat(<<>>) = <<>>
<1>1. BatchesOK(<<>>)
    BY EmptyIs DEF BatchesOK
<1>2. Flat(<<>>) = FlattenSeq(<<>>)
    <2>1. [i \in DOMAIN <<>> |-> <<>>[i].rows] = <<>>
        OBVIOUS
    <2> QED
        BY <2>1 DEF Flat
<1>3. FlattenSeq(<<>>) = <<>>
    BY DEF FlattenSeq
<1> QED
    BY <1>1, <1>2, <1>3

LEMMA WantedSeq ==
    ASSUME SessionOK, NEW t \in Versions[provider] PROVE IsSeq(WantedRows(t)) /\ IsSeq(t.rows)
<1>1. IsSeq(t.rows)
    BY ReaderAssumption DEF SessionOK, IsSeq
<1>2. CASE provider = "elasticsearch" /\ EsRequestInput(request) # {}
    <2>1. WantedRows(t) = Limited(EsSorted(t.rows), EsQuery.size)
        BY <1>2 DEF WantedRows
    <2>2. IsSeq(EsSorted(t.rows))
        <3> DEFINE n == Len(t.rows)
                   s == EsSorted(t.rows)
        <3>1. n \in Nat /\ DOMAIN t.rows = 1 .. n
            BY <1>1, SeqLen
        <3>2. s = [k \in 1 .. n |-> s[k]]
            BY <3>1 DEF EsSorted
        <3> HIDE DEF n, s
        <3>3. IsSeq(s)
            BY <3>1, <3>2, AsSeq
        <3> QED
            BY <3>3 DEF s
    <2>3. EsQuery.size \subseteq Int /\ IsOption(EsQuery.size)
        BY <1>2, EsQueryOf
    <2> QED
        BY <1>1, <2>1, <2>2, <2>3, LimitedIs
<1>3. CASE provider = "milvus" /\ MilvusRequestInput(request) # {}
    <2> DEFINE s == SubSeq(t.rows, MilvusQuery.offset + 1, Len(t.rows))
    <2>1. WantedRows(t) = Limited(s, MilvusQuery.limit)
        BY <1>3 DEF WantedRows
    <2>2. MilvusQuery.limit \subseteq Int /\ IsOption(MilvusQuery.limit) /\ MilvusQuery.offset \in Nat
        BY <1>3, MilvusQueryOf
    <2>3. IsSeq(s)
        <3>1. MilvusQuery.offset + 1 \in Nat \ {0} /\ Len(t.rows) \in Int /\ Len(t.rows) <= Len(t.rows)
            BY <1>1, <2>2, SeqLen
        <3> QED
            BY <1>1, <3>1, SubSeqIs
    <2> HIDE DEF s
    <2> QED
        BY <1>1, <2>1, <2>2, <2>3, LimitedIs
<1>4. CASE provider \in {"s3", "uri"} /\ request.binary
    <2>1. WantedRows(t) = Bytes("csv", t)
        BY <1>4 DEF WantedRows
    <2> QED
        BY <1>1, <2>1, BytesSpell
<1>5. CASE /\ ~ (provider = "elasticsearch" /\ EsRequestInput(request) # {})
           /\ ~ (provider = "milvus" /\ MilvusRequestInput(request) # {})
           /\ ~ (provider \in {"s3", "uri"} /\ request.binary)
    <2>1. WantedRows(t) = t.rows
        BY <1>5 DEF WantedRows
    <2> QED
        BY <1>1, <2>1
<1> QED
    BY <1>2, <1>3, <1>4, <1>5

LEMMA StreamStarts == ReadersInit => StreamInv /\ Stream!Init
<1> SUFFICES ASSUME ReadersInit PROVE StreamInv /\ Stream!Init
    OBVIOUS
<1>1. /\ pc = "schema" /\ sent = <<>> /\ view = NoTable /\ pos = 0 /\ torn = FALSE /\ outcome = "none"
    BY DEF ReadersInit, SessionInit
<1>2. BeginsRight /\ RowsRight
    BY <1>1 DEF BeginsRight, RowsRight, Begun
<1>3. SeqsRight
    BY <1>1, FlatNone DEF SeqsRight
<1>4. Stream!Init
    <2>1. ~ Begun
        BY <1>1 DEF Begun
    <2>2. Result = <<>> /\ StreamStatus = "waiting"
        BY <1>1, <2>1 DEF Result, StreamStatus
    <2>3. Given = <<>>
        BY <1>1, FlatNone DEF Given, Flat
    <2>4. Isolation \in {"snapshot", "append", "none"}
        BY DEF Isolation
    <2> QED
        BY <2>2, <2>3, <2>4 DEF Stream!Init
<1> QED
    BY <1>2, <1>3, <1>4, CellsStart DEF StreamInv

\* A step that leaves the view and the batches where they are.
LEMMA SameReading ==
    ASSUME UNCHANGED <<provider, request, source, view>>
    PROVE  /\ Reading' = Reading /\ WantedRows(Reading)' = WantedRows(Reading)
           /\ Live' = Live /\ Begun' = Begun
<1>1. Reading' = Reading /\ Live' = Live /\ Begun' = Begun
    BY DEF Reading, Live, Begun
<1> QED
    BY <1>1, SameWanted

LEMMA SameFile ==
    ASSUME UNCHANGED <<provider, request>>
    PROVE  /\ OfFile' = OfFile /\ AnyLines' = AnyLines /\ Keeps' = Keeps /\ ByRow' = ByRow
           /\ view' = view \/ provider = "s3" => ReadFormat' = ReadFormat /\ Decoding' = Decoding
<1>1. OfFile' = OfFile /\ ByRow' = ByRow /\ AnyLines' = AnyLines
    BY DEF OfFile, ByRow, AnyLines, LinesOf, HeaderOf
<1>2. Keeps' = Keeps
    BY DEF Keeps, Live
<1>3. view' = view \/ provider = "s3" => ReadFormat' = ReadFormat
    BY DEF ReadFormat, UriFormat, UriQuery
<1> QED
    BY <1>1, <1>2, <1>3 DEF Decoding

LEMMA GivenPrefix == ASSUME BatchesOK(sent) PROVE IsPrefix(Given, Given)
<1>1. IsSeq(Given)
    BY FlatIs, GivenFlat
<1>2. Len(Given) \in Nat
    BY <1>1, SeqLen
<1> QED
    BY <1>1, <1>2, PrefixIs

\* The source changes, and the stream stands it or is torn.
LEMMA ChangeKeeps ==
    ASSUME StreamInv, Change, CellsInv' PROVE StreamInv' /\ [Stream!Next]_(Stream!streamVars)
<1>0. SessionOK /\ BatchesOK(sent)
    BY DEF StreamInv, CellsInv, TypeInv, ControlInv, SeqsRight
<1>1. /\ UNCHANGED <<provider, request, pc, view, pos, chunk, decoder, sent, outcome>>
      /\ pc \notin {"schema", "stuck", "done"} /\ outcome = "none"
    BY <1>0 DEF Change, SessionOK
<1>2. /\ Live' = Live /\ Begun' = Begun /\ Isolation' = Isolation /\ Given' = Given
      /\ Decoding' = Decoding /\ ReadFormat' = ReadFormat /\ Keeps' = Keeps /\ ByRow' = ByRow
      /\ OfFile' = OfFile /\ AnyLines' = AnyLines /\ Waiting' = Waiting
    BY <1>1, SameFile DEF Live, Begun, Isolation, Given, Waiting
<1>3. /\ source' \in Versions[provider]
      /\ torn' = (torn \/ /\ Live /\ pc = "read"
                          /\ (provider = "s3" \/ ~ IsPrefix(WantedRows(source), WantedRows(source'))))
    BY DEF Change
<1>4. WantedRows(source)' = WantedRows(source') /\ WantedRows(view)' = WantedRows(view)
    BY <1>1, SameWanted
<1>5. Begun /\ Live => pc = "read"
    BY <1>1 DEF StreamInv, BeginsRight, SessionOK, Keeps, Live, CellsInv, TypeInv, ControlInv
<1>6. pc # "read" \/ ~ Live => torn' = torn
    BY <1>0, <1>3 DEF SessionOK
<1>7. BeginsRight' /\ SeqsRight'
    BY <1>1, <1>2, <1>6 DEF StreamInv, BeginsRight, SeqsRight
<1>8. ~ torn' => ~ torn
    BY <1>3
<1>9. ~ Live => WantedRows(Reading)' = WantedRows(Reading)
    BY <1>2, <1>4 DEF Reading
<1>10. ASSUME ~ torn', Live, pc = "read"
       PROVE  provider # "s3" /\ IsPrefix(WantedRows(source), WantedRows(source')) /\ ~ Decoding
    BY <1>3, <1>10 DEF Decoding, OfFile, Live
<1>11. RowsRight'
    <2> SUFFICES ASSUME ~ torn' PROVE RowsRight'
        BY DEF RowsRight
    <2>1. /\ pc = "read" => ReadsOn
          /\ pc \in {"commit", "close"} => Flat(sent) = WantedRows(Reading)
        BY <1>8 DEF StreamInv, RowsRight
    <2>2. CASE ~ Live
        <3>1. EsSorted(view.rows)' = EsSorted(view.rows)
            BY <1>1 DEF EsSorted, SortedBefore, SortValues, EsQuery
        <3>2. ReadsOn => ReadsOn'
            BY <1>1, <1>2, <1>9, <2>2, <3>1 DEF ReadsOn
        <3> QED
            BY <1>1, <1>9, <2>1, <2>2, <3>2 DEF RowsRight
    <2>3. CASE Live
        <3>1. pc \notin {"commit", "close"}
            BY <1>5, <2>3 DEF StreamInv, BeginsRight
        <3>2. ASSUME pc = "read" PROVE ReadsOn'
            <4>1. ~ Decoding /\ provider # "elasticsearch" /\ Reading = source /\ Reading' = source'
                BY <1>2, <1>10, <2>3, <3>2 DEF Live, Reading
            <4>2. Continues(Flat(sent), Waiting, WantedRows(source)) /\ pos = Len(Flat(sent)) + Len(Waiting)
                BY <2>1, <3>2, <4>1 DEF ReadsOn
            <4>3. IsSeq(WantedRows(source'))
                BY <1>0, <1>3, WantedSeq
            <4>4. Continues(Flat(sent), Waiting, WantedRows(source'))
                BY <1>10, <2>3, <3>2, <4>2, <4>3, ContinuesGrown
            <4>5. WantedRows(Reading)' = WantedRows(source')
                BY <1>4, <4>1
            <4> QED
                BY <1>1, <1>2, <4>1, <4>2, <4>4, <4>5 DEF ReadsOn
        <3> QED
            BY <1>1, <3>1, <3>2 DEF RowsRight
    <2> QED
        BY <2>2, <2>3
<1>12. StreamInv'
    BY <1>7, <1>11 DEF StreamInv
<1>13. StreamStatus = IF torn THEN "torn" ELSE IF Begun THEN "streaming" ELSE "waiting"
    BY <1>1 DEF StreamStatus
<1>14. StreamStatus' = IF torn' THEN "torn" ELSE IF Begun THEN "streaming" ELSE "waiting"
    BY <1>1, <1>2 DEF StreamStatus
<1>15. Stream!Next
    <2>1. CASE torn
        <3>1. StreamStatus = "torn" /\ StreamStatus' = "torn"
            BY <1>3, <1>13, <1>14, <2>1
        <3>2. IsPrefix(Given, Given')
            BY <1>0, <1>2, GivenPrefix
        <3> QED
            BY <1>2, <3>1, <3>2 DEF Stream!Next, Stream!Torn, Stream!IsPrefix, IsPrefix
    <2>2. CASE ~ torn /\ (~ Begun \/ ~ Live)
        <3>1. StreamStatus' = StreamStatus
            BY <1>1, <1>6, <1>13, <1>14, <2>2 DEF StreamInv, BeginsRight
        <3>2. Result' = Result
            BY <1>2, <1>9, <2>2 DEF Result
        <3>3. Isolation = "snapshot" \/ StreamStatus # "streaming"
            BY <1>13, <2>2 DEF Isolation
        <3> QED
            BY <1>2, <3>1, <3>2, <3>3 DEF Stream!Next, Stream!Change
    <2>3. CASE ~ torn /\ Begun /\ Live
        <3>1. pc = "read" /\ StreamStatus = "streaming"
            BY <1>5, <1>13, <2>3
        <3>2. CASE torn'
            <4>1. StreamStatus' = "torn"
                BY <1>14, <3>2
            <4>2. ~ (Isolation = "append" /\ IsPrefix(WantedRows(source), WantedRows(source')))
                BY <1>3, <2>3, <3>2 DEF Isolation
            <4>3. Isolation # "snapshot"
                BY <2>3 DEF Isolation
            <4> QED
                BY <1>2, <1>4, <3>1, <4>1, <4>2, <4>3
                DEF Stream!Next, Stream!Change, Stream!IsPrefix, IsPrefix
        <3>3. CASE ~ torn'
            <4>1. StreamStatus' = StreamStatus
                BY <1>13, <1>14, <2>3, <3>3
            <4>2. Isolation = "append" /\ IsPrefix(WantedRows(source), WantedRows(source'))
                BY <1>10, <2>3, <3>1, <3>3 DEF Isolation
            <4>3. Result' = WantedRows(source')
                BY <1>2, <1>4, <2>3 DEF Result, Reading
            <4> QED
                BY <1>2, <1>4, <3>1, <4>1, <4>2, <4>3
                DEF Stream!Next, Stream!Change, Stream!IsPrefix, IsPrefix
        <3> QED
            BY <3>2, <3>3
    <2> QED
        BY <2>1, <2>2, <2>3
<1> QED
    BY <1>12, <1>15

\* What a client cannot see.
LEMMA StutterKeeps ==
    ASSUME StreamInv, CellsInv',
           UNCHANGED <<provider, request, source, view, pos, chunk, decoder, sent, torn, pc, outcome>>
    PROVE  StreamInv' /\ [Stream!Next]_(Stream!streamVars)
<1>0. SessionOK /\ BatchesOK(sent)
    BY DEF StreamInv, CellsInv, TypeInv, ControlInv, SeqsRight
<1>2. /\ Live' = Live /\ Begun' = Begun /\ Isolation' = Isolation /\ Given' = Given
      /\ Decoding' = Decoding /\ ReadFormat' = ReadFormat /\ Keeps' = Keeps /\ ByRow' = ByRow
      /\ OfFile' = OfFile /\ AnyLines' = AnyLines /\ Waiting' = Waiting
    BY SameFile DEF Live, Begun, Isolation, Given, Waiting
<1>3. WantedRows(Reading)' = WantedRows(Reading) /\ WantedRows(source)' = WantedRows(source)
    BY SameReading, SameWanted
<1>4. EsSorted(view.rows)' = EsSorted(view.rows)
    BY DEF EsSorted, SortedBefore, SortValues, EsQuery
<1>5. BeginsRight' /\ SeqsRight'
    BY <1>2 DEF StreamInv, BeginsRight, SeqsRight
<1>6. ReadsOn' = ReadsOn
    BY <1>2, <1>3, <1>4 DEF ReadsOn
<1>7. RowsRight'
    BY <1>3, <1>6 DEF StreamInv, RowsRight
<1>8. StreamStatus' = StreamStatus /\ Result' = Result
    BY <1>2, <1>3 DEF StreamStatus, Result
<1> QED
    BY <1>2, <1>3, <1>5, <1>7, <1>8 DEF StreamInv, Stream!streamVars

\* A reader that is stuck has given what it has given.
LEMMA StallKeeps ==
    ASSUME StreamInv, Stalls, CellsInv' PROVE StreamInv' /\ [Stream!Next]_(Stream!streamVars)
<1>1. pc' = "stuck" /\ UNCHANGED <<provider, request, source, view, sent, torn, outcome>>
    BY DEF Stalls, worldVars, progressVars
<1>2. BatchesOK(sent)
    BY DEF StreamInv, SeqsRight
<1>3. Live' = Live /\ Begun' = Begun /\ Isolation' = Isolation /\ Given' = Given
    BY <1>1 DEF Live, Begun, Isolation, Given
<1>4. WantedRows(Reading)' = WantedRows(Reading) /\ WantedRows(source)' = WantedRows(source)
    BY <1>1, SameReading, SameWanted
<1>5. torn => Live
    BY DEF StreamInv, BeginsRight, Stalls
<1>6. StreamInv'
    BY <1>1, <1>2, <1>3, <1>5 DEF StreamInv, BeginsRight, SeqsRight, RowsRight
<1>7. StreamStatus' = StreamStatus /\ Result' = Result
    BY <1>1, <1>3, <1>4 DEF StreamStatus, Result
<1> QED
    BY <1>3, <1>4, <1>6, <1>7 DEF Stream!streamVars

\* A call fails, the client goes away, or a point in time expires.
LEMMA FailureKeeps ==
    ASSUME StreamInv, SourceFails \/ ClientDrops \/ PitExpires, CellsInv'
    PROVE  StreamInv' /\ [Stream!Next]_(Stream!streamVars)
<1>0. SessionOK /\ BatchesOK(sent)
    BY DEF StreamInv, CellsInv, TypeInv, ControlInv, SeqsRight
<1>1. UNCHANGED <<provider, request, source, view, pos, chunk, decoder, sent, torn>>
    BY DEF SourceFails, ClientDrops, PitExpires, progressVars
<1>2. /\ Live' = Live /\ Begun' = Begun /\ Isolation' = Isolation /\ Given' = Given
      /\ Decoding' = Decoding /\ ReadFormat' = ReadFormat /\ Keeps' = Keeps /\ ByRow' = ByRow
      /\ OfFile' = OfFile /\ AnyLines' = AnyLines /\ Waiting' = Waiting
    BY <1>1, SameFile DEF Live, Begun, Isolation, Given, Waiting
<1>3. WantedRows(Reading)' = WantedRows(Reading) /\ WantedRows(source)' = WantedRows(source)
    BY <1>1, SameReading, SameWanted
<1>4. CASE pc' = "done" /\ outcome = "none" /\ outcome' \in {"error", "dropped"}
    <2>1. StreamInv'
        BY <1>0, <1>1, <1>4 DEF StreamInv, BeginsRight, SeqsRight, RowsRight
    <2>2. StreamStatus \in {"waiting", "streaming", "torn"} /\ StreamStatus' \in {"failed", "dropped"}
        BY <1>4 DEF StreamStatus
    <2> QED
        BY <1>2, <1>3, <2>1, <2>2 DEF Stream!Next, Stream!Fail
<1>5. CASE UNCHANGED <<pc, outcome>>
    BY <1>1, <1>5, StutterKeeps
<1>6. (pc' = "done" /\ outcome = "none" /\ outcome' \in {"error", "dropped"}) \/ UNCHANGED <<pc, outcome>>
    BY <1>0 DEF SourceFails, ClientDrops, PitExpires, Stop, SessionOK
<1> QED
    BY <1>4, <1>5, <1>6

(***************************************************************************)
(* The steps of a reader.                                                  *)
(***************************************************************************)
Calm == UNCHANGED <<provider, request, source, torn>> /\ ~ Writes
Kept == BeginsRight' /\ SeqsRight' /\ RowsRight'

LEMMA Alive == ASSUME StreamInv, pc # "done" PROVE outcome = "none" /\ SessionOK /\ BatchesOK(sent) /\ pos \in Nat
<1> QED
    BY DEF StreamInv, CellsInv, TypeInv, ControlInv, SessionOK, SeqsRight

\* The stream ends, well or not.
LEMMA Stopped == ASSUME pc' = "done", BatchesOK(sent') PROVE Kept
<1> QED
    BY DEF Kept, BeginsRight, SeqsRight, RowsRight

LEMMA StoppedShort ==
    ASSUME StreamInv, pc # "done", pc' = "done", outcome' = "error", UNCHANGED <<view, sent>>
    PROVE  ReaderStep /\ Kept
<1> QED
    BY Alive, Stopped DEF ReaderStep, Fails

LEMMA RefusalStops == ASSUME StreamInv, pc # "done", Refuse PROVE ReaderStep /\ Kept
<1>1. pc' = "done" /\ outcome' = "error" /\ view' = view /\ sent' = sent
    BY DEF Refuse, Stop, progressVars
<1> QED
    BY <1>1, StoppedShort

\* The schema is announced.
LEMMA Announced ==
    ASSUME StreamInv, Calm, pc = "schema", pc' = "open", UNCHANGED <<pos, sent, outcome>>,
           view' = IF Keeps THEN source ELSE view,
           OfFile => (decoder'.skip <=> ReadFormat' = "csv")
    PROVE  ReaderStep /\ Kept
<1>0. outcome = "none" /\ SessionOK /\ BatchesOK(sent)
    BY Alive
<1>1. ~ Begun /\ pos = 0 /\ ~ torn
    BY DEF StreamInv, BeginsRight
<1>2. Keeps' = Keeps /\ OfFile' = OfFile
    BY SameFile DEF Calm
<1>3. source # NoTable
    BY <1>0, ReaderAssumption DEF SessionOK
<1>4. Begun' <=> Keeps
    BY <1>1, <1>3 DEF Begun
<1>5. BeginsRight'
    BY <1>1, <1>2, <1>4 DEF BeginsRight, Calm
<1>6. SeqsRight' /\ RowsRight'
    BY <1>0 DEF SeqsRight, RowsRight
<1>7. Waits \/ Takes
    BY <1>0, <1>1 DEF Waits, Takes
<1> QED
    BY <1>5, <1>6, <1>7 DEF Kept, ReaderStep

\* The stream begins.
LEMMA Started ==
    ASSUME StreamInv, Calm, pc \in {"schema", "open"}, pc' = "read",
           UNCHANGED <<pos, chunk, decoder, sent, outcome>>,
           IF Begun THEN view' = view /\ ~ Live ELSE view' = source,
           Decoding' => (decoder.skip <=> ReadFormat' = "csv")
    PROVE  ReaderStep /\ Kept
<1>0. outcome = "none" /\ SessionOK /\ BatchesOK(sent)
    BY Alive
<1>1. pos = 0 /\ ~ torn /\ sent = <<>> /\ chunk = <<>> /\ decoder \in EmptyDecoders
    BY DEF StreamInv, BeginsRight, CellsInv, Fresh
<1>2. source # NoTable /\ source \in Versions[provider] /\ view' \in Versions[provider]
    BY <1>0, ReaderAssumption DEF SessionOK, Begun
<1>3. Begun' /\ view' # NoTable
    BY <1>2, ReaderAssumption, <1>0 DEF Begun, SessionOK
<1>4. Live' = Live /\ OfFile' = OfFile /\ Reading' \in Versions[provider]
    BY <1>2, SameFile DEF Calm, Live, Reading
<1>5. BeginsRight'
    BY <1>1, <1>3 DEF BeginsRight, Calm
<1>6. SeqsRight'
    BY <1>0, <1>1, EmptyIs, EmptyOK DEF SeqsRight
<1>7. Flat(sent') = <<>> /\ Waiting' = <<>> /\ Len(<<>>) = 0
    BY <1>1, FlatNone, EmptyIs DEF Waiting
<1>8. ReadsOn'
    <2>1. CASE Decoding'
        <3>1. OnTrack(decoder', <<>>, 0, ReadFormat', view', <<>>)
            <4>1. IsSeq(view'.rows)
                BY <1>0, <1>2, WantedSeq
            <4>2. decoder'.skip = (ReadFormat' = "csv")
                <5>1. decoder.skip \in BOOLEAN
                    BY <1>1 DEF EmptyDecoders
                <5> QED
                    BY <2>1, <5>1
            <4> QED
                BY <1>1, <4>1, <4>2, StartTrack
        <3> QED
            BY <1>1, <1>7, <2>1, <3>1 DEF ReadsOn
    <2>2. CASE ~ Decoding'
        <3>1. WantedRows(Reading)' = WantedRows(Reading')
            BY SameWanted DEF Calm
        <3>2. IsSeq(WantedRows(Reading'))
            BY <1>0, <1>4, WantedSeq
        <3>3. Continues(<<>>, <<>>, WantedRows(Reading'))
            BY <3>2, ContinuesStart
        <3>4. 0 = 0 + 0
            OBVIOUS
        <3> QED
            BY <1>1, <1>7, <2>2, <3>1, <3>3, <3>4 DEF ReadsOn
    <2> QED
        BY <2>1, <2>2
<1>9. RowsRight'
    BY <1>8 DEF RowsRight
<1>10. Waits \/ Takes
    BY <1>0, <1>1 DEF Waits, Takes
<1> QED
    BY <1>5, <1>6, <1>9, <1>10 DEF Kept, ReaderStep

\* While the stream is read.
LEMMA StillReading ==
    ASSUME StreamInv, pc = "read", pc' = "read", Calm, view' = view PROVE BeginsRight'
<1> QED
    BY SameReading DEF StreamInv, BeginsRight, Calm

LEMMA BatchSent ==
    ASSUME StreamInv, pc = "read", Calm, view' = view, NEW b, sent' = Append(sent, b), IsSeq(b.rows), b.rows # <<>>,
           outcome' \in {"none", "ok"},
           ~ torn => \E more : /\ Continues(Flat(sent), more, WantedRows(Reading)) /\ more = b.rows
                               /\ outcome' = "ok" => Len(Flat(sent)) + Len(more) = Len(WantedRows(Reading))
    PROVE  /\ Adds(b) /\ ReaderStep
           /\ BatchesOK(sent') /\ Flat(sent') = Flat(sent) \o b.rows
<1>0. outcome = "none" /\ SessionOK /\ BatchesOK(sent)
    BY Alive
<1>1. BatchesOK(sent') /\ Flat(sent') = Flat(sent) \o b.rows
    BY <1>0, FlatAppend
<1>2. Begun
    BY DEF StreamInv, BeginsRight
<1>3. ASSUME ~ torn
      PROVE  /\ IsPrefix(Flat(sent'), WantedRows(Reading))
             /\ outcome' = "ok" => Flat(sent') = WantedRows(Reading)
    <2> DEFINE all == WantedRows(Reading)
               new == Flat(sent')
    <2>1. /\ Continues(Flat(sent), b.rows, all)
          /\ outcome' = "ok" => Len(Flat(sent)) + Len(b.rows) = Len(all)
        BY <1>3
    <2>2. Continues(new, <<>>, all) /\ Len(new) = Len(Flat(sent)) + Len(b.rows)
        BY <1>1, <2>1, ContinuesSend
    <2> HIDE DEF all, new
    <2>3. IsPrefix(new, all)
        BY <2>2, ContinuesPrefix
    <2>4. outcome' = "ok" => new = all
        BY <2>1, <2>2, ContinuesAll
    <2> QED
        BY <2>3, <2>4 DEF all, new
<1>4. Adds(b)
    BY <1>0, <1>2, <1>3 DEF Adds
<1> QED
    BY <1>1, <1>4 DEF ReaderStep

(***************************************************************************)
(* Readers that collect rows, or pieces of a file, in a chunk.             *)
(***************************************************************************)
LEMMA ByRowIs ==
    ASSUME StreamInv, pc = "read", ByRow
    PROVE  /\ ~ OfFile /\ ~ Decoding /\ provider # "elasticsearch" /\ Waiting = chunk /\ IsSeq(chunk) /\ Begun
           /\ ~ torn => Continues(Flat(sent), chunk, WantedRows(Reading)) /\ pos = Len(Flat(sent)) + Len(chunk)
<1>1. ~ OfFile /\ ~ Decoding /\ provider # "elasticsearch" /\ Waiting = chunk
    BY DEF ByRow, OfFile, Decoding, Waiting
<1>2. IsSeq(chunk) /\ Begun
    BY DEF StreamInv, SeqsRight, BeginsRight
<1>3. ~ torn => ReadsOn
    BY DEF StreamInv, RowsRight
<1> QED
    BY <1>1, <1>2, <1>3 DEF ReadsOn

ByRowNext ==
    /\ BatchesOK(sent') /\ IsSeq(chunk')
    /\ ~ torn => Continues(Flat(sent'), chunk', WantedRows(Reading)) /\ pos' = Len(Flat(sent')) + Len(chunk')

LEMMA ByRowKept ==
    ASSUME StreamInv, Calm, view' = view, pc = "read", pc' = "read", ByRow, ByRowNext
    PROVE  Kept
<1>1. BeginsRight'
    BY StillReading
<1>2. WantedRows(Reading)' = WantedRows(Reading)
    BY SameReading DEF Calm
<1>3. OfFile' = OfFile /\ Decoding' = Decoding /\ ByRow' = ByRow /\ ~ OfFile /\ ~ Decoding /\ provider' # "elasticsearch"
    BY SameFile, ByRowIs DEF Calm
<1>4. Waiting' = chunk'
    BY <1>3 DEF Waiting
<1>5. SeqsRight'
    BY <1>3 DEF SeqsRight, ByRowNext
<1>6. RowsRight'
    BY <1>2, <1>3, <1>4 DEF RowsRight, ReadsOn, ByRowNext, Calm
<1> QED
    BY <1>1, <1>5, <1>6 DEF Kept

\* What is read next: it follows on what was read before.
Arrives(new) ==
    /\ IsSeq(new)
    /\ ~ torn => /\ pos + Len(new) <= Len(WantedRows(Reading))
                 /\ \A i \in 1 .. Len(new) : new[i] = WantedRows(Reading)[pos + i]

LEMMA JoinedIs ==
    ASSUME StreamInv, pc = "read", ByRow, NEW new, Arrives(new)
    PROVE  /\ IsSeq(chunk \o new) /\ Len(chunk \o new) = Len(chunk) + Len(new)
           /\ ~ torn => /\ Continues(Flat(sent), chunk \o new, WantedRows(Reading))
                        /\ pos + Len(new) = Len(Flat(sent)) + Len(chunk \o new)
<1> DEFINE all == WantedRows(Reading)
           got == Flat(sent)
<1>1. IsSeq(chunk) /\ IsSeq(new)
    BY ByRowIs DEF Arrives
<1>2. IsSeq(chunk \o new) /\ Len(chunk \o new) = Len(chunk) + Len(new)
    BY <1>1, ConcatIs
<1>3. ASSUME ~ torn PROVE Continues(got, chunk \o new, all) /\ pos + Len(new) = Len(got) + Len(chunk \o new)
    <2>1. Continues(got, chunk, all) /\ pos = Len(got) + Len(chunk)
        BY <1>3, ByRowIs
    <2>2. pos + Len(new) <= Len(all) /\ \A i \in 1 .. Len(new) : new[i] = all[pos + i]
        BY <1>3 DEF Arrives
    <2> HIDE DEF all, got
    <2>3. Len(got) \in Nat /\ Len(chunk) \in Nat /\ Len(new) \in Nat
        BY <1>1, <2>1, SeqLen DEF Continues
    <2>4. Continues(got, chunk \o new, all)
        BY <1>1, <2>1, <2>2, ContinuesMore
    <2>5. pos + Len(new) = Len(got) + Len(chunk \o new)
        BY <1>2, <2>1, <2>3
    <2> QED
        BY <2>4, <2>5
<1> QED
    BY <1>2, <1>3

LEMMA RowsJoin ==
    ASSUME StreamInv, Calm, UNCHANGED <<view, pc, sent, outcome>>, pc = "read", ByRow, NEW new, Arrives(new),
           chunk' = chunk \o new, pos' = pos + Len(new)
    PROVE  ReaderStep /\ Kept
<1>1. ByRowNext
    BY JoinedIs, Alive DEF ByRowNext
<1>2. Kept
    BY <1>1, ByRowKept
<1> QED
    BY <1>2 DEF ReaderStep, Waits

LEMMA RowsSent ==
    ASSUME StreamInv, Calm, UNCHANGED <<view, pc, outcome>>, pc = "read", ByRow, NEW new, Arrives(new),
           NEW b, sent' = Append(sent, b), b.rows = chunk \o new, b.rows # <<>>,
           chunk' = <<>>, pos' = pos + Len(new)
    PROVE  ReaderStep /\ Kept
<1>1. /\ IsSeq(b.rows)
      /\ ~ torn => /\ Continues(Flat(sent), b.rows, WantedRows(Reading))
                   /\ pos' = Len(Flat(sent)) + Len(b.rows)
    BY JoinedIs
<1>2. outcome' = "none"
    BY Alive
<1>3. ReaderStep /\ BatchesOK(sent') /\ Flat(sent') = Flat(sent) \o b.rows
    BY <1>1, <1>2, BatchSent
<1>4. ByRowNext
    <2> DEFINE all == WantedRows(Reading)
               got == Flat(sent)
               more == b.rows
    <2>1. ASSUME ~ torn PROVE Continues(got \o more, <<>>, all) /\ pos' = Len(got \o more) + 0
        <3>1. Continues(got, more, all) /\ pos' = Len(got) + Len(more)
            BY <1>1, <2>1
        <3> HIDE DEF all, got, more
        <3>2. Continues(got \o more, <<>>, all) /\ Len(got \o more) = Len(got) + Len(more)
            BY <3>1, ContinuesSend
        <3>3. Len(got) \in Nat /\ Len(more) \in Nat
            BY <3>1, SeqLen DEF Continues
        <3> QED
            BY <3>1, <3>2, <3>3
    <2> QED
        BY <1>3, <2>1, EmptyIs DEF ByRowNext
<1>5. Kept
    BY <1>4, ByRowKept
<1> QED
    BY <1>3, <1>5

\* All rows were read: the stream is complete, or to be committed first.
Finishes ==
    \/ pc' = "done" /\ outcome' = "ok"
    \/ pc' = "commit" /\ outcome' = outcome /\ provider = "postgres"

LEMMA FinishKept ==
    ASSUME StreamInv, Calm, view' = view, pc = "read", Finishes, BatchesOK(sent'),
           ~ torn => Flat(sent') = WantedRows(Reading)
    PROVE  Kept
<1>1. CASE pc' = "done"
    BY <1>1, Stopped
<1>2. CASE pc' = "commit" /\ provider = "postgres"
    <2>1. WantedRows(Reading)' = WantedRows(Reading) /\ Begun' = Begun /\ Live' = Live
        BY SameReading DEF Calm
    <2>2. Begun /\ (torn => Live)
        BY DEF StreamInv, BeginsRight
    <2>3. BeginsRight'
        BY <1>2, <2>1, <2>2 DEF BeginsRight, Calm
    <2>4. SeqsRight' /\ RowsRight'
        BY <1>2, <2>1 DEF SeqsRight, RowsRight, Calm
    <2> QED
        BY <2>3, <2>4 DEF Kept
<1> QED
    BY <1>1, <1>2 DEF Finishes

LEMMA LastSent ==
    ASSUME StreamInv, Calm, view' = view, pc = "read", ByRow, Finishes,
           NEW b, sent' = Append(sent, b), b.rows = chunk, chunk # <<>>,
           ~ torn => pos >= Len(WantedRows(Reading))
    PROVE  ReaderStep /\ Kept
<1> DEFINE all == WantedRows(Reading)
           got == Flat(sent)
<1>1. IsSeq(chunk)
    BY ByRowIs
<1>2. ASSUME ~ torn
      PROVE  Continues(got, chunk, all) /\ Len(got) + Len(chunk) = Len(all) /\ got \o chunk = all
    <2>1. Continues(got, chunk, all) /\ pos = Len(got) + Len(chunk) /\ pos >= Len(all)
        BY <1>2, ByRowIs
    <2> HIDE DEF all, got
    <2>2. Len(got) \in Nat /\ Len(chunk) \in Nat /\ Len(all) \in Nat /\ Len(got) + Len(chunk) <= Len(all)
        BY <2>1, SeqLen DEF Continues
    <2>3. Len(got) + Len(chunk) = Len(all)
        BY <2>1, <2>2
    <2>4. Continues(got \o chunk, <<>>, all) /\ Len(got \o chunk) = Len(got) + Len(chunk)
        BY <2>1, ContinuesSend
    <2>5. got \o chunk = all
        BY <2>3, <2>4, ContinuesAll
    <2> QED
        BY <2>1, <2>3, <2>5
<1>3. outcome' \in {"none", "ok"}
    BY Alive DEF Finishes
<1>4. ReaderStep /\ BatchesOK(sent') /\ Flat(sent') = Flat(sent) \o b.rows
    BY <1>1, <1>2, <1>3, BatchSent
<1>5. Kept
    BY <1>2, <1>4, FinishKept
<1> QED
    BY <1>4, <1>5

LEMMA NoneLeft ==
    ASSUME StreamInv, Calm, UNCHANGED <<view, sent>>, pc = "read", ByRow, Finishes, chunk = <<>>,
           ~ torn => pos >= Len(WantedRows(Reading))
    PROVE  ReaderStep /\ Kept
<1> DEFINE all == WantedRows(Reading)
           got == Flat(sent)
<1>1. ASSUME ~ torn PROVE got = all
    <2>1. Continues(got, <<>>, all) /\ pos = Len(got) + Len(<<>>) /\ pos >= Len(all)
        BY <1>1, ByRowIs
    <2> HIDE DEF all, got
    <2>2. Len(got) \in Nat /\ Len(<<>>) = 0 /\ Len(all) \in Nat /\ Len(got) + Len(<<>>) <= Len(all)
        BY <2>1, SeqLen, EmptyIs DEF Continues
    <2>3. Len(got) = Len(all)
        BY <2>1, <2>2
    <2> QED
        BY <2>1, <2>3, ContinuesAll
<1>2. outcome = "none" /\ BatchesOK(sent) /\ Begun
    BY Alive, ByRowIs
<1>3. Kept
    BY <1>1, <1>2, FinishKept
<1>4. Waits \/ Ends
    BY <1>1, <1>2 DEF Waits, Ends, Finishes
<1> QED
    BY <1>3, <1>4 DEF ReaderStep

(***************************************************************************)
(* The loop over a cursor.                                                 *)
(***************************************************************************)
Breaks == pc' = "done" /\ outcome' = "error" /\ sent' = sent
RowComes ==
    /\ pos < Len(Reading.rows) /\ pos' = pos + 1
    /\ \/ /\ chunk' = <<>> /\ UNCHANGED <<pc, outcome>>
          /\ \E b : sent' = Append(sent, b) /\ b.rows = Append(chunk, Reading.rows[pos + 1])
       \/ chunk' = Append(chunk, Reading.rows[pos + 1]) /\ UNCHANGED <<pc, outcome, sent>>
       \/ Breaks
RowsEnd ==
    /\ ~ (pos < Len(Reading.rows))
    /\ \/ chunk = <<>> /\ sent' = sent /\ Finishes
       \/ chunk # <<>> /\ Finishes /\ \E b : sent' = Append(sent, b) /\ b.rows = chunk
       \/ Breaks

LEMMA CursorStep ==
    ASSUME StreamInv, Calm, view' = view, pc = "read", provider \in {"postgres", "sqlite", "neo4j"},
           RowComes \/ RowsEnd
    PROVE  ReaderStep /\ Kept
<1>0. ByRow /\ SessionOK /\ pos \in Nat
    BY Alive DEF ByRow
<1>1. WantedRows(Reading) = Reading.rows
    BY <1>0 DEF WantedRows, SessionOK
<1>2. CASE Breaks
    BY <1>2, StoppedShort DEF Breaks
<1>3. Reading \in Versions[provider]
    BY <1>0, ByRowIs DEF Reading, SessionOK, Begun
<1>4. IsSeq(Reading.rows) /\ Len(Reading.rows) \in Nat
    BY <1>0, <1>3, WantedSeq, SeqLen
<1>5. CASE RowComes /\ ~ Breaks
    <2> DEFINE row == Reading.rows[pos + 1]
               new == <<row>>
    <2>1. pos < Len(Reading.rows) /\ pos' = pos + 1
        BY <1>5 DEF RowComes
    <2>2. IsSeq(new) /\ Len(new) = 1 /\ new[1] = row /\ new \in Seq({row})
        <3>1. new \in Seq({row}) /\ Len(new) = 1 /\ new[1] = row
            OBVIOUS
        <3> QED
            BY <3>1, SeqIn
    <2>3. chunk \o new = Append(chunk, row)
        <3>1. IsSeq(chunk)
            BY <1>0, ByRowIs
        <3>2. chunk \in Seq(Range(chunk) \cup {row})
            <4>1. chunk \in Seq(Range(chunk)) /\ Range(chunk) \subseteq Range(chunk) \cup {row}
                BY <3>1 DEF IsSeq
            <4> QED
                BY <4>1
        <3> HIDE DEF row
        <3> QED
            BY <3>2
    <2>4. Append(chunk, row) # <<>>
        BY <1>0, ByRowIs, AppendIs, EmptyIs, SeqLen
    <2> HIDE DEF new
    <2>5. Arrives(new)
        <3>1. pos + 1 <= Len(Reading.rows)
            BY <1>0, <1>4, <2>1
        <3>2. \A i \in 1 .. 1 : new[i] = Reading.rows[pos + i]
            BY <2>2
        <3> QED
            BY <1>1, <2>2, <3>1, <3>2 DEF Arrives
    <2>6. UNCHANGED <<pc, outcome>> /\ pos' = pos + Len(new)
        BY <1>5, <2>1, <2>2 DEF RowComes
    <2>7. ASSUME NEW b, chunk' = <<>>, sent' = Append(sent, b), b.rows = Append(chunk, row) PROVE ReaderStep /\ Kept
        BY <1>0, <2>3, <2>4, <2>5, <2>6, <2>7, RowsSent
    <2>8. CASE chunk' = Append(chunk, row) /\ sent' = sent
        BY <1>0, <2>3, <2>5, <2>6, <2>8, RowsJoin
    <2> QED
        BY <1>5, <2>7, <2>8 DEF RowComes
<1>6. CASE RowsEnd /\ ~ Breaks
    <2>1. pos >= Len(WantedRows(Reading)) /\ Finishes
        BY <1>0, <1>1, <1>4, <1>6 DEF RowsEnd
    <2>2. CASE chunk = <<>> /\ sent' = sent
        BY <1>0, <2>1, <2>2, NoneLeft
    <2>3. ASSUME NEW b, chunk # <<>>, sent' = Append(sent, b), b.rows = chunk PROVE ReaderStep /\ Kept
        BY <1>0, <2>1, <2>3, LastSent
    <2> QED
        BY <1>6, <2>2, <2>3 DEF RowsEnd
<1> QED
    BY <1>2, <1>5, <1>6

\* A statement that writes before the stream begins changes the source, as
\* anybody might; one that writes as it begins is followed by its moment.
LEMMA WriteStep ==
    ASSUME StreamInv, Writes, CellsInv' PROVE StreamInv' /\ [Stream!Next]_(Stream!streamVars)
<1>0. outcome = "none" /\ SessionOK /\ BatchesOK(sent)
    BY Alive DEF Writes
<1>1. /\ pos = 0 /\ ~ torn /\ sent = <<>> /\ chunk = <<>> /\ ~ Begun
      /\ ~ Keeps /\ ~ OfFile /\ provider # "elasticsearch"
    BY DEF StreamInv, BeginsRight, CellsInv, Fresh, Writes, Keeps, OfFile
<1>2. /\ UNCHANGED <<provider, request, torn, pos, chunk, sent, outcome>>
      /\ source' \in Versions[provider] /\ source' # NoTable
    BY <1>0, ReaderAssumption DEF Writes, SessionOK
<1>3. /\ Live' = Live /\ Isolation' = Isolation /\ Given' = Given
      /\ Keeps' = Keeps /\ OfFile' = OfFile /\ ByRow' = ByRow
    BY <1>2, SameFile DEF Live, Isolation, Given
<1>4. StreamStatus = "waiting" /\ Result = <<>>
    BY <1>0, <1>1 DEF StreamStatus, Result
<1>5. CASE pc = "schema"
    <2>1. pc' = "open" /\ view' = view /\ ~ Begun'
        BY <1>1, <1>5 DEF Writes, Begun
    <2>2. StreamInv'
        BY <1>0, <1>1, <1>2, <1>3, <2>1 DEF StreamInv, BeginsRight, SeqsRight, RowsRight
    <2>3. StreamStatus' = "waiting" /\ Result' = <<>>
        BY <1>0, <1>1, <1>2, <2>1 DEF StreamStatus, Result
    <2> QED
        BY <1>3, <1>4, <2>2, <2>3 DEF Stream!Next, Stream!Change
<1>6. CASE pc = "open"
    <2>1. pc' = "read" /\ view' = source' /\ Begun' /\ Reading' = source'
        BY <1>2, <1>6 DEF Writes, Begun, Reading
    <2>2. WantedRows(Reading)' = WantedRows(source') /\ WantedRows(source)' = WantedRows(source')
        BY <1>2, <2>1, SameWanted
    <2>3. IsSeq(WantedRows(source'))
        BY <1>0, <1>2, WantedSeq
    <2>4. ~ Decoding' /\ Flat(sent') = <<>> /\ Waiting' = <<>> /\ Len(<<>>) = 0
        BY <1>1, <1>2, <1>3, FlatNone, EmptyIs DEF Waiting, Decoding
    <2>5. Continues(<<>>, <<>>, WantedRows(source'))
        BY <2>3, ContinuesStart
    <2>6. ReadsOn'
        <3>1. 0 = 0 + 0
            OBVIOUS
        <3> QED
            BY <1>1, <1>2, <2>2, <2>4, <2>5, <3>1 DEF ReadsOn
    <2>7. BeginsRight' /\ SeqsRight' /\ RowsRight'
        BY <1>0, <1>1, <1>2, <1>3, <2>1, <2>6, EmptyIs DEF BeginsRight, SeqsRight, RowsRight
    <2>8. StreamStatus' = "streaming" /\ Result' = WantedRows(source')
        BY <1>0, <1>1, <1>2, <2>1, <2>2 DEF StreamStatus, Result
    <2> QED
        BY <1>3, <1>4, <2>2, <2>7, <2>8 DEF StreamInv, Stream!Next, Stream!Take
<1> QED
    BY <1>5, <1>6 DEF Writes

\* The statement runs, or is refused.
LEMMA Executed ==
    ASSUME StreamInv, Calm, pc = "open", NEW holding \in SUBSET {"connection", "transaction", "read_only"},
           Execute(holding), provider \in {"postgres", "sqlite", "neo4j"}
    PROVE  ReaderStep /\ Kept
<1>1. CASE Refuse
    BY <1>1, RefusalStops
<1>2. CASE Begin(holding)
    <2>1. ~ Begun /\ ~ OfFile
        BY DEF StreamInv, BeginsRight, Keeps, OfFile
    <2>2. ~ Decoding'
        BY <2>1, SameFile DEF Calm, Decoding
    <2>3. pc' = "read" /\ view' = source /\ UNCHANGED <<pos, chunk, decoder, sent, outcome>>
        BY <1>2 DEF Begin
    <2> QED
        BY <2>1, <2>2, <2>3, Started
<1>3. CASE request.statement # "read" /\ WriteThrough(holding)
    <2>1. Writes
        BY <1>3 DEF WriteThrough, Writes
    <2> QED
        BY <2>1 DEF Calm
<1> QED
    BY <1>1, <1>2, <1>3 DEF Execute

LEMMA TableAnnounced ==
    ASSUME StreamInv, Calm, pc = "schema", NEW columns, Announce(columns), provider \notin {"s3", "uri"}
    PROVE  ReaderStep /\ Kept
<1>1. pc' = "open" /\ UNCHANGED <<pos, sent, outcome, view>>
    BY DEF Announce
<1>2. ~ Keeps /\ ~ OfFile
    BY DEF Keeps, OfFile
<1> QED
    BY <1>1, <1>2, Announced

LEMMA PgStep == ASSUME StreamInv, Calm, PgReader, provider = "postgres" PROVE ReaderStep /\ Kept
<1> DEFINE holding == {"connection", "transaction", "read_only"}
           columns == [i \in DOMAIN source.cols |->
                               [name |-> source.cols[i].name,
                                type |-> pg_type_to_arrow(source.cols[i].type)]]
<1>1. CASE pc = "schema" /\ (Refuse \/ Announce(columns))
    <2> HIDE DEF columns
    <2> QED
        BY <1>1, TableAnnounced, RefusalStops
<1>2. CASE pc = "open" /\ Execute(holding)
    BY <1>2, Executed
<1>3. CASE pc = "commit" /\ Complete /\ UNCHANGED <<worldVars, progressVars>>
    <2>1. pc' = "done" /\ outcome' = "ok" /\ view' = view /\ sent' = sent
        BY <1>3 DEF Complete, Stop, progressVars
    <2>2. outcome = "none" /\ BatchesOK(sent)
        BY <1>3, Alive
    <2>3. Begun /\ (~ torn => Flat(sent) = WantedRows(Reading))
        BY <1>3 DEF StreamInv, BeginsRight, RowsRight
    <2>4. Ends
        BY <2>1, <2>2, <2>3 DEF Ends
    <2>5. Kept
        BY <2>1, <2>2, Stopped
    <2> QED
        BY <2>4, <2>5 DEF ReaderStep
<1>4. CASE pc = "read"
    <2>1. view' = view /\ (RowComes \/ RowsEnd)
        BY <1>4 DEF PgReader, NextRow, PushRow, Yield, Batch, GoOn, Stop, RowComes, RowsEnd,
           Breaks, Finishes
    <2> QED
        BY <1>4, <2>1, CursorStep
<1> QED
    BY <1>1, <1>2, <1>3, <1>4 DEF PgReader, NextRow

LEMMA SqliteStep == ASSUME StreamInv, Calm, SqliteReader, provider = "sqlite" PROVE ReaderStep /\ Kept
<1> DEFINE holding == {"connection", "read_only"}
           columns == [i \in DOMAIN source.cols |->
                               [name |-> source.cols[i].name,
                                type |-> sqlite_type_to_arrow(source.cols[i].type)]]
<1>1. CASE pc = "schema" /\ Announce(columns)
    <2> HIDE DEF columns
    <2> QED
        BY <1>1, TableAnnounced
<1>2. CASE pc = "open" /\ Execute(holding)
    BY <1>2, Executed
<1>3. CASE pc = "read"
    <2>1. view' = view /\ (RowComes \/ RowsEnd)
        BY <1>3 DEF SqliteReader, NextRow, PushRow, Yield, Batch, GoOn, Complete, Stop, RowComes, RowsEnd,
           Breaks, Finishes
    <2> QED
        BY <1>3, <2>1, CursorStep
<1> QED
    BY <1>1, <1>2, <1>3 DEF SqliteReader, NextRow

LEMMA Neo4jStep == ASSUME StreamInv, Calm, Neo4jReader, provider = "neo4j" PROVE ReaderStep /\ Kept
<1> DEFINE holding == {"connection"}
<1>1. CASE pc = "schema"
    <2>1. ASSUME NEW columns, Refuse \/ Announce(columns) PROVE ReaderStep /\ Kept
        BY <1>1, <2>1, TableAnnounced, RefusalStops
    <2> HIDE DEF holding
    <2> QED
        BY <1>1, <2>1 DEF Neo4jReader, NextRow, Writes, Calm
<1>2. CASE pc = "open" /\ Execute(holding)
    BY <1>2, Executed
<1>3. CASE pc = "read"
    <2>1. view' = view /\ (RowComes \/ RowsEnd)
        BY <1>3 DEF Neo4jReader, NextRow, PushRow, Yield, Batch, GoOn, Complete, Stop, RowComes, RowsEnd,
           Breaks, Finishes
    <2> QED
        BY <1>3, <2>1, CursorStep
<1> QED
    BY <1>1, <1>2, <1>3 DEF Neo4jReader, NextRow

(***************************************************************************)
(* The pieces of a file, as they come.                                     *)
(***************************************************************************)
\* The bytes that a read returns, or the reason why it fails.
LEMMA BytesCome ==
    ASSUME StreamInv, pc = "read", provider \in {"s3", "uri"}, NEW format, NextBytes(format)
    PROVE  \/ pc' = "done" /\ outcome' = "error"
           \/ /\ UNCHANGED <<pc, outcome>>
              /\ \E n \in Nat \ {0} :
                   /\ pos + n <= Len(Bytes(format, Reading))
                   /\ chunk' = SubSeq(Bytes(format, Reading), pos + 1, pos + n) /\ pos' = pos + n
<1> DEFINE bytes == Bytes(format, Reading)
           length == Len(Bytes(format, view))
<1>1. SessionOK /\ pos \in Nat /\ Begun
    BY Alive DEF StreamInv, BeginsRight
<1>2. Reading \in Versions[provider] /\ view \in Versions[provider]
    BY <1>1 DEF Reading, SessionOK, Begun
<1>3. Len(bytes) \in Nat /\ length \in Nat
    <2>1. IsSeq(Reading.rows) /\ IsSeq(view.rows)
        BY <1>1, <1>2, WantedSeq
    <2>2. IsSeq(bytes) /\ IsSeq(Bytes(format, view))
        BY <2>1, BytesSpell
    <2> QED
        BY <2>2, SeqLen
<1>4. PICK n \in 1 .. Min({MaxChunk, length - pos}) :
        IF pos + n > Len(bytes) THEN Stop("error") /\ UNCHANGED <<pos, chunk>>
        ELSE chunk' = SubSeq(bytes, pos + 1, pos + n) /\ pos' = pos + n /\ GoOn
    BY DEF NextBytes
<1>5. n \in Nat \ {0}
    <2>1. MaxChunk \in Int /\ length - pos \in Int
        BY <1>1, <1>3, FileAssumption
    <2>2. Min({MaxChunk, length - pos}) \in Int
        BY <2>1, MinOfTwo
    <2> QED
        BY <1>4, <2>2
<1>6. CASE pos + n > Len(bytes)
    BY <1>4, <1>6 DEF Stop
<1>7. CASE ~ (pos + n > Len(bytes))
    <2>1. pos + n <= Len(bytes)
        BY <1>1, <1>3, <1>5, <1>7
    <2> QED
        BY <1>4, <1>5, <1>7, <2>1 DEF GoOn
<1> QED
    BY <1>6, <1>7

LEMMA BinaryOpened ==
    ASSUME StreamInv, Calm, OpenBinary, request.binary PROVE ReaderStep /\ Kept
<1>1. pc = "schema" /\ pc' = "read" /\ view' = source /\ UNCHANGED <<pos, chunk, decoder, sent, outcome>>
    BY DEF OpenBinary
<1>2. ~ Begun /\ ~ OfFile
    BY <1>1 DEF StreamInv, BeginsRight, OfFile
<1>3. ~ Decoding'
    BY <1>2, SameFile DEF Calm, Decoding
<1> QED
    BY <1>1, <1>2, <1>3, Started

LEMMA BinaryRead ==
    ASSUME StreamInv, Calm, ReadBinary("csv"), provider \in {"s3", "uri"}, request.binary
    PROVE  ReaderStep /\ Kept
<1>0. pc = "read" /\ view' = view /\ ByRow
    BY DEF ReadBinary, ByRow
<1>1. SessionOK /\ pos \in Nat /\ Begun /\ IsSeq(chunk)
    BY <1>0, Alive, ByRowIs
<1>2. WantedRows(Reading) = Bytes("csv", Reading)
    BY DEF WantedRows
<1>3. CASE chunk = <<>> /\ NextBytes("csv") /\ UNCHANGED sent
    <2>1. CASE pc' = "done" /\ outcome' = "error"
        BY <1>0, <1>3, <2>1, StoppedShort
    <2>2. ASSUME UNCHANGED <<pc, outcome>>, NEW n \in Nat \ {0}, pos + n <= Len(Bytes("csv", Reading)),
                 chunk' = SubSeq(Bytes("csv", Reading), pos + 1, pos + n), pos' = pos + n
          PROVE  ReaderStep /\ Kept
        <3> DEFINE bytes == Bytes("csv", Reading)
                   new == SubSeq(bytes, pos + 1, pos + n)
        <3>1. IsSeq(bytes)
            <4>1. Reading \in Versions[provider]
                BY <1>1 DEF Reading, SessionOK, Begun
            <4> QED
                BY <1>1, <1>2, <4>1, WantedSeq
        <3> HIDE DEF bytes
        <3>2. pos + 1 \in Nat \ {0} /\ pos + n \in Int /\ pos + n <= Len(bytes) /\ pos + 1 <= pos + n
            BY <1>1, <2>2 DEF bytes
        <3>3. IsSeq(new) /\ Len(new) = (pos + n) - (pos + 1) + 1 /\ \A i \in 1 .. Len(new) : new[i] = bytes[pos + 1 + i - 1]
            BY <3>1, <3>2, SubSeqIs
        <3> HIDE DEF new
        <3>4. Len(new) = n
            BY <1>1, <2>2, <3>3
        <3>5. \A i \in 1 .. Len(new) : new[i] = bytes[pos + i]
            <4> TAKE i \in 1 .. Len(new)
            <4>1. pos + 1 + i - 1 = pos + i
                BY <1>1, <3>4
            <4> QED
                BY <3>3, <4>1
        <3>6. Arrives(new)
            BY <1>2, <3>2, <3>3, <3>4, <3>5 DEF Arrives, bytes
        <3>7. chunk' = chunk \o new
            <4>1. new \in Seq(Range(new))
                BY <3>3 DEF IsSeq
            <4>2. <<>> \o new = new
                BY <4>1
            <4> QED
                BY <1>3, <2>2, <4>2 DEF new, bytes
        <3>8. pos' = pos + Len(new)
            BY <2>2, <3>4
        <3> QED
            BY <1>0, <1>3, <2>2, <3>6, <3>7, <3>8, RowsJoin
    <2> QED
        BY <1>0, <1>3, <2>1, <2>2, BytesCome
<1>4. CASE /\ chunk # <<>> /\ sent' = Append(sent, [cells |-> <<chunk>>, rows |-> chunk])
           /\ chunk' = <<>> /\ GoOn /\ UNCHANGED pos
    <2> DEFINE b == [cells |-> <<chunk>>, rows |-> chunk]
    <2>1. Arrives(<<>>)
        <3>1. ASSUME ~ torn PROVE pos + 0 <= Len(WantedRows(Reading))
            <4> DEFINE all == WantedRows(Reading)
                       got == Flat(sent)
            <4>1. Continues(got, chunk, all) /\ pos = Len(got) + Len(chunk)
                BY <1>0, <3>1, ByRowIs
            <4> HIDE DEF all, got
            <4>2. Len(got) + Len(chunk) <= Len(all)
                BY <4>1 DEF Continues
            <4>3. pos <= Len(all)
                BY <4>1, <4>2
            <4> QED
                BY <1>1, <4>3 DEF all
        <3> QED
            BY <3>1, EmptyIs DEF Arrives
    <2>2. chunk \o <<>> = chunk /\ pos' = pos + Len(<<>>)
        <3>1. chunk \in Seq(Range(chunk))
            BY <1>1 DEF IsSeq
        <3> QED
            BY <1>1, <1>4, <3>1, EmptyIs
    <2>3. b.rows = chunk
        OBVIOUS
    <2> HIDE DEF b
    <2>4. sent' = Append(sent, b) /\ UNCHANGED <<pc, outcome>>
        BY <1>4 DEF b, GoOn
    <2> QED
        BY <1>0, <1>4, <2>1, <2>2, <2>3, <2>4, RowsSent
<1>5. CASE chunk = <<>> /\ pos = Len(Bytes("csv", view)) /\ Complete /\ UNCHANGED <<pos, chunk, sent>>
    <2>1. Finishes
        BY <1>5 DEF Complete, Stop, Finishes
    <2>2. ~ torn => Reading = view
        BY <1>0, FileBytes DEF StreamInv
    <2>3. ~ torn => pos >= Len(WantedRows(Reading))
        BY <1>1, <1>2, <1>5, <2>2
    <2> QED
        BY <1>0, <1>5, <2>1, <2>3, NoneLeft
<1> QED
    BY <1>3, <1>4, <1>5 DEF ReadBinary

LEMMA BinaryStep ==
    ASSUME StreamInv, Calm, S3Binary \/ UriBinary, provider \in {"s3", "uri"}, request.binary
    PROVE  ReaderStep /\ Kept
<1>1. OpenBinary \/ ReadBinary("csv") \/ (pc = "schema" /\ Refuse)
    BY DEF S3Binary, UriBinary
<1> QED
    BY <1>1, BinaryOpened, BinaryRead, RefusalStops

(***************************************************************************)
(* Readers that take a page of rows at a time.                             *)
(***************************************************************************)
LEMMA ByPageIs ==
    ASSUME StreamInv, pc = "read", ~ ByRow, ~ Decoding, ~ torn
    PROVE  /\ Continues(Flat(sent), <<>>, WantedRows(Reading)) /\ Len(Flat(sent)) = pos
           /\ provider = "elasticsearch" /\ sent # <<>> =>
                pos >= 1 /\ Last(Last(sent).rows) = EsSorted(view.rows)[pos]
<1>1. ReadsOn /\ Waiting = <<>>
    BY DEF StreamInv, RowsRight, Waiting
<1>2. Continues(Flat(sent), <<>>, WantedRows(Reading)) /\ pos = Len(Flat(sent)) + Len(<<>>)
    BY <1>1 DEF ReadsOn
<1>3. Len(Flat(sent)) \in Nat /\ Len(<<>>) = 0
    BY <1>2, SeqLen, EmptyIs DEF Continues
<1>4. Len(Flat(sent)) = pos
    BY <1>2, <1>3
<1> QED
    BY <1>1, <1>2, <1>4 DEF ReadsOn

LEMMA SameSorted ==
    ASSUME UNCHANGED <<request, view>> PROVE EsSorted(view.rows)' = EsSorted(view.rows)
<1> QED
    BY DEF EsSorted, SortedBefore, SortValues, EsQuery

\* All pages were read: the stream is complete, or a point in time to close.
Closes ==
    \/ pc' = "done" /\ outcome' = "ok"
    \/ pc' = "close" /\ outcome' = outcome /\ provider = "elasticsearch"

LEMMA CloseKept ==
    ASSUME StreamInv, Calm, view' = view, pc = "read", Closes, BatchesOK(sent'),
           ~ torn => Flat(sent') = WantedRows(Reading)
    PROVE  Kept
<1>1. CASE pc' = "done"
    BY <1>1, Stopped
<1>2. CASE pc' = "close" /\ provider = "elasticsearch"
    <2>1. WantedRows(Reading)' = WantedRows(Reading) /\ Begun' = Begun /\ Live' = Live
        BY SameReading DEF Calm
    <2>2. Begun /\ (torn => Live)
        BY DEF StreamInv, BeginsRight
    <2>3. BeginsRight'
        BY <1>2, <2>1, <2>2 DEF BeginsRight, Calm
    <2>4. SeqsRight' /\ RowsRight'
        BY <1>2, <2>1 DEF SeqsRight, RowsRight, Calm
    <2> QED
        BY <2>3, <2>4 DEF Kept
<1> QED
    BY <1>1, <1>2 DEF Closes

LEMMA PagesOver ==
    ASSUME StreamInv, Calm, UNCHANGED <<view, sent>>, pc = "read", Closes,
           ~ torn => Flat(sent) = WantedRows(Reading)
    PROVE  ReaderStep /\ Kept
<1>1. outcome = "none" /\ BatchesOK(sent) /\ Begun
    BY Alive DEF StreamInv, BeginsRight
<1>2. Kept
    BY <1>1, CloseKept
<1>3. Waits \/ Ends
    BY <1>1 DEF Waits, Ends, Closes
<1> QED
    BY <1>2, <1>3 DEF ReaderStep

LEMMA PageSent ==
    ASSUME StreamInv, Calm, UNCHANGED <<view, chunk, decoder>>, pc = "read", ~ ByRow, ~ Decoding,
           NEW page, IsSeq(page), page # <<>>, NEW b, b.rows = page, sent' = Append(sent, b),
           pos' = pos + Len(page), ~ torn => Continues(Flat(sent), page, WantedRows(Reading)),
           \/ /\ pc' = "read" /\ outcome' = outcome
              /\ provider = "elasticsearch" => Last(page) = EsSorted(view.rows)[pos']
           \/ Closes /\ (~ torn => pos' = Len(WantedRows(Reading)))
    PROVE  ReaderStep /\ Kept
<1> DEFINE all == WantedRows(Reading)
           got == Flat(sent)
<1>1. outcome = "none" /\ pos \in Nat /\ Len(page) \in Nat /\ Len(page) # 0 /\ SessionOK /\ BatchesOK(sent)
    BY Alive, SeqLen, EmptyWhenLen
<1>2. ASSUME ~ torn
      PROVE  /\ Continues(got \o page, <<>>, all) /\ Len(got \o page) = pos' /\ Len(got) = pos
    <2>1. Len(got) = pos /\ Continues(got, page, all)
        BY <1>2, ByPageIs
    <2> HIDE DEF all, got
    <2>2. Continues(got \o page, <<>>, all) /\ Len(got \o page) = Len(got) + Len(page)
        BY <2>1, ContinuesSend
    <2> QED
        BY <2>1, <2>2
<1>3. outcome' \in {"none", "ok"}
    BY <1>1 DEF Closes
<1>4. ~ torn /\ outcome' = "ok" => Len(got) + Len(page) = Len(all)
    BY <1>1, <1>2 DEF Closes
<1>5. ReaderStep /\ BatchesOK(sent') /\ Flat(sent') = got \o page
    BY <1>3, <1>4, BatchSent
<1>6. CASE Closes /\ (~ torn => pos' = Len(all))
    <2>1. ASSUME ~ torn PROVE Flat(sent') = all
        <3>1. Continues(Flat(sent'), <<>>, all) /\ Len(Flat(sent')) = Len(all)
            BY <1>2, <1>5, <1>6, <2>1
        <3> QED
            BY <3>1, ContinuesAll
    <2> QED
        BY <1>5, <1>6, <2>1, CloseKept
<1>7. CASE /\ pc' = "read" /\ provider = "elasticsearch" => Last(page) = EsSorted(view.rows)[pos']
           /\ pc' = "read"
    <2>1. BeginsRight'
        BY <1>7, StillReading
    <2>2. SeqsRight'
        BY <1>5, <1>7, SameFile DEF StreamInv, SeqsRight, Calm
    <2>3. WantedRows(Reading)' = all
        BY SameReading DEF Calm
    <2>4. ~ Decoding' /\ Waiting' = <<>>
        BY SameFile DEF Calm, Waiting
    <2>5. ASSUME ~ torn PROVE pos' = Len(Flat(sent')) + Len(<<>>) /\ Continues(Flat(sent'), <<>>, all)
        <3>1. Len(Flat(sent')) = pos' /\ pos' \in Nat
            BY <1>1, <1>2, <1>5, <2>5
        <3> QED
            BY <1>2, <1>5, <2>5, <3>1, EmptyIs
    <2>6. provider = "elasticsearch" => pos' >= 1 /\ Last(Last(sent').rows) = EsSorted(view.rows)[pos']
        <3>1. Last(sent') = b
            <4>1. IsSeq(sent)
                BY <1>1 DEF BatchesOK
            <4> QED
                BY <4>1, AppendIs DEF Last
        <3>2. pos' >= 1
            BY <1>1
        <3> QED
            BY <1>7, <3>1, <3>2
    <2>7. EsSorted(view.rows)' = EsSorted(view.rows)
        BY SameSorted DEF Calm
    <2>8. ~ torn => ReadsOn'
        BY <2>3, <2>4, <2>5, <2>6, <2>7 DEF ReadsOn, Calm
    <2>9. RowsRight'
        BY <1>7, <2>8 DEF RowsRight, Calm
    <2> QED
        BY <1>5, <2>1, <2>2, <2>9 DEF Kept
<1> QED
    BY <1>5, <1>6, <1>7

LEMMA LastPage ==
    ASSUME NEW rows, IsSeq(rows), NEW limit, limit \subseteq Int, IsOption(limit), pos \in Nat,
           NEW got, Continues(got, <<>>, Limited(rows, limit)), Len(got) = pos,
           IsPage(<<>>, rows, pos, PageSize(limit)), PageSize(limit) > 0
    PROVE  got = Limited(rows, limit)
<1>1. Len(<<>>) < PageSize(limit) => pos + Len(<<>>) = Len(Limited(rows, limit))
    BY PagesGoOn
<1>2. Len(got) = Len(Limited(rows, limit))
    BY <1>1, EmptyIs
<1> QED
    BY <1>2, ContinuesAll

LEMMA BeginsTable ==
    ASSUME StreamInv, Calm, pc = "open", NEW holding, Begin(holding), provider \notin {"s3", "uri"}
    PROVE  ReaderStep /\ Kept
<1>1. ~ Begun /\ ~ OfFile
    BY DEF StreamInv, BeginsRight, Keeps, OfFile
<1>2. ~ Decoding'
    BY <1>1, SameFile DEF Calm, Decoding
<1>3. pc' = "read" /\ view' = source /\ UNCHANGED <<pos, chunk, decoder, sent, outcome>>
    BY DEF Begin
<1> QED
    BY <1>1, <1>2, <1>3, Started

(***************************************************************************)
(* The pages of Elasticsearch.                                             *)
(***************************************************************************)
LimitHit == \E limit \in EsQuery.size : pos >= limit
EsHits == SearchAfter(PageSize(EsQuery.size))
EsReads ==
    /\ UNCHANGED <<view, chunk, decoder, outcome>>
    /\ \/ LimitHit /\ pc' = "close" /\ sent' = sent
       \/ pc' = "close_error" /\ sent' = sent
       \/ ~ LimitHit /\ EsHits = <<>> /\ pc' = "close" /\ sent' = sent
       \/ /\ ~ LimitHit /\ EsHits # <<>> /\ pos' = pos + Len(EsHits)
          /\ \E b : sent' = Append(sent, b) /\ b.rows = EsHits
          /\ pc' = IF Len(EsHits) < PageSize(EsQuery.size) THEN "close" ELSE pc

LEMMA EsPage ==
    ASSUME StreamInv, pc = "read", provider = "elasticsearch"
    PROVE  /\ ~ torn /\ ~ ByRow /\ ~ Decoding /\ Reading = view /\ pos \in Nat
           /\ EsQuery.size \subseteq Int /\ IsOption(EsQuery.size)
           /\ WantedRows(Reading) = Limited(EsSorted(view.rows), EsQuery.size)
           /\ IsSeq(EsSorted(view.rows))
           /\ Continues(Flat(sent), <<>>, WantedRows(Reading)) /\ Len(Flat(sent)) = pos
           /\ IsPage(EsHits, EsSorted(view.rows), pos, PageSize(EsQuery.size))
<1> DEFINE rows == EsSorted(view.rows)
           size == PageSize(EsQuery.size)
<1>1. ~ torn /\ ~ ByRow /\ ~ Decoding /\ Reading = view
    BY DEF StreamInv, BeginsRight, Live, ByRow, Decoding, OfFile, Reading
<1>2. SessionOK /\ pos \in Nat /\ EsRequestInput(request) # {}
    BY Alive DEF StreamInv, CellsInv, TypeInv, Parsed
<1>3. EsQuery.size \subseteq Int /\ IsOption(EsQuery.size)
    BY <1>2, EsQueryOf
<1>4. WantedRows(Reading) = Limited(rows, EsQuery.size)
    BY <1>1, <1>2 DEF WantedRows
<1>5. IsSeq(rows) /\ Len(rows) = Len(view.rows)
    BY <1>2, HitsOrdered, Sorted
<1>6. /\ Continues(Flat(sent), <<>>, WantedRows(Reading)) /\ Len(Flat(sent)) = pos
      /\ sent # <<>> => pos >= 1 /\ Last(Last(sent).rows) = rows[pos]
    BY <1>1, ByPageIs
<1>7. pos <= Len(view.rows) /\ Len(view.rows) \in Nat
    <2> DEFINE all == Limited(rows, EsQuery.size)
               got == Flat(sent)
    <2>1. Len(all) <= Len(rows)
        BY <1>3, <1>5, LimitedIs
    <2>2. Continues(got, <<>>, all) /\ Len(got) = pos
        BY <1>4, <1>6
    <2> HIDE DEF all, got
    <2>3. Len(got) + Len(<<>>) <= Len(all) /\ Len(<<>>) = 0 /\ Len(all) \in Nat
        BY <2>2, SeqLen, EmptyIs DEF Continues
    <2>4. Len(rows) \in Nat
        BY <1>5, SeqLen
    <2> HIDE DEF rows
    <2> QED
        BY <1>2, <1>5, <2>1, <2>2, <2>3, <2>4
<1>8. sent = <<>> => pos = 0
    BY <1>6, FlatNone, EmptyIs
<1>9. sent # <<>> => pos \in 1 .. Len(view.rows)
    BY <1>2, <1>6, <1>7
<1>10. size \in Int
    BY <1>2, <1>3, PageSizeIs
<1>11. IF sent = <<>> THEN pos = 0
       ELSE pos \in 1 .. Len(view.rows) /\ Last(Last(sent).rows) = EsSorted(view.rows)[pos]
    BY <1>6, <1>8, <1>9
<1> HIDE DEF rows, size
<1>12. IsPage(SearchAfter(size), EsSorted(view.rows), pos, size)
    BY <1>2, <1>10, <1>11, SearchedNext
<1> QED
    BY <1>1, <1>2, <1>3, <1>4, <1>5, <1>6, <1>12 DEF rows, size, EsHits

LEMMA EsReadStep ==
    ASSUME StreamInv, Calm, pc = "read", provider = "elasticsearch", EsReads PROVE ReaderStep /\ Kept
<1> DEFINE rows == EsSorted(view.rows)
           limit == EsQuery.size
           size == PageSize(limit)
           hits == EsHits
           got == Flat(sent)
           all == Limited(rows, limit)
<1>1. /\ ~ torn /\ ~ ByRow /\ ~ Decoding /\ WantedRows(Reading) = all /\ pos \in Nat
      /\ limit \subseteq Int /\ IsOption(limit) /\ IsSeq(rows)
      /\ Continues(got, <<>>, all) /\ Len(got) = pos
      /\ IsPage(hits, rows, pos, size)
    BY EsPage
<1>2. view' = view /\ chunk' = chunk /\ decoder' = decoder /\ outcome' = outcome
    BY DEF EsReads
<1>3. pc' = "close" => Closes
    BY <1>2 DEF Closes
<1>4. CASE LimitHit /\ pc' = "close" /\ sent' = sent
    <2>1. PICK n \in limit : pos >= n
        BY <1>4 DEF LimitHit
    <2>2. n <= pos
        BY <1>1, <2>1
    <2>3. got = all
        <3> HIDE DEF rows, limit, got
        <3>1. /\ IsSeq(rows) /\ limit \subseteq Int /\ IsOption(limit) /\ pos \in Nat
              /\ Continues(got, <<>>, Limited(rows, limit)) /\ Len(got) = pos
            BY <1>1
        <3>2. n \in limit /\ n <= pos
            BY <2>1, <2>2
        <3> QED
            BY <3>1, <3>2, LimitReached
    <2> QED
        BY <1>1, <1>2, <1>3, <1>4, <2>3, PagesOver
<1>5. CASE pc' = "close_error" /\ sent' = sent
    <2>1. Begun /\ BatchesOK(sent) /\ Begun' = Begun
        BY <1>2, Alive, SameReading DEF StreamInv, BeginsRight, Calm
    <2>2. BeginsRight'
        BY <1>1, <1>5, <2>1 DEF BeginsRight, Calm
    <2>3. SeqsRight' /\ RowsRight'
        BY <1>5, <2>1 DEF SeqsRight, RowsRight
    <2> QED
        BY <1>2, <1>5, <2>2, <2>3 DEF Kept, ReaderStep, Waits
<1>6. ~ LimitHit => size > 0
    <2> SUFFICES ASSUME ~ LimitHit PROVE size > 0
        OBVIOUS
    <2>1. BatchSize \in Nat \ {0}
        BY ReaderAssumption
    <2>2. \A n \in limit : n \in Int /\ ~ (pos >= n)
        BY <1>1 DEF LimitHit
    <2>3. /\ limit = {} => size = BatchSize
          /\ \A n \in limit : size = IF n - pos < BatchSize THEN n - pos ELSE BatchSize
        BY <1>1, PageSizeIs
    <2> HIDE DEF limit, size
    <2>4. CASE limit = {}
        BY <2>1, <2>3, <2>4
    <2>5. ASSUME NEW n \in limit PROVE size > 0
        <3>1. n \in Int /\ n - pos > 0
            BY <1>1, <2>2
        <3> QED
            BY <1>1, <2>1, <2>3, <3>1
    <2> QED
        BY <2>4, <2>5
<1>7. CASE ~ LimitHit /\ hits = <<>> /\ pc' = "close" /\ sent' = sent
    <2>1. size > 0 /\ IsPage(<<>>, rows, pos, size)
        BY <1>1, <1>6, <1>7
    <2>2. got = all
        <3> HIDE DEF rows, limit, hits, got
        <3> QED
            BY <1>1, <2>1, LastPage
    <2> QED
        BY <1>1, <1>2, <1>3, <1>7, <2>2, PagesOver
<1>8. ASSUME ~ LimitHit, hits # <<>>, pos' = pos + Len(hits), NEW b, sent' = Append(sent, b), b.rows = hits,
             pc' = IF Len(hits) < size THEN "close" ELSE pc
      PROVE  ReaderStep /\ Kept
    <2>1. size > 0
        BY <1>6, <1>8
    <2>2. Continues(got, hits, all) /\ (Len(hits) < size => pos + Len(hits) = Len(all))
        <3> HIDE DEF rows, limit, hits, got
        <3> QED
            BY <1>1, <2>1, PagesGoOn
    <2>3. IsSeq(hits) /\ Len(hits) \in Nat /\ Len(hits) # 0 /\ \A i \in 1 .. Len(hits) : hits[i] = rows[pos + i]
        <3>1. IsSeq(hits) /\ \A i \in 1 .. Len(hits) : hits[i] = rows[pos + i]
            BY <1>1 DEF IsPage
        <3> QED
            BY <1>8, <3>1, SeqLen, EmptyWhenLen
    <2>4. Last(hits) = rows[pos']
        <3> HIDE DEF rows, hits
        <3>1. Last(hits) = hits[Len(hits)] /\ Len(hits) \in 1 .. Len(hits)
            BY <2>3 DEF Last
        <3> QED
            BY <1>8, <2>3, <3>1
    <2>5. CASE Len(hits) < size
        <3>1. Closes /\ pos' = Len(WantedRows(Reading))
            BY <1>1, <1>3, <1>8, <2>2, <2>5
        <3> QED
            BY <1>1, <1>2, <1>8, <2>2, <2>3, <3>1, PageSent
    <2>6. CASE ~ (Len(hits) < size)
        <3>1. pc' = "read"
            BY <1>8, <2>6
        <3> QED
            BY <1>1, <1>2, <1>8, <2>2, <2>3, <2>4, <3>1, PageSent
    <2> QED
        BY <2>5, <2>6
<1> QED
    BY <1>4, <1>5, <1>7, <1>8 DEF EsReads

LEMMA EsStep == ASSUME StreamInv, Calm, EsReader, provider = "elasticsearch" PROVE ReaderStep /\ Kept
<1>1. CASE pc = "schema" /\ (Refuse \/ Announce(EsSchemaOf(source.cols)))
    BY <1>1, RefusalStops, TableAnnounced
<1>2. CASE pc = "open" /\ Begin({"pit"})
    BY <1>2, BeginsTable
<1>3. CASE pc = "read"
    <2>1. EsReads
        BY <1>3 DEF EsReader, EsReads, fetch_search_page, LimitHit, EsHits, Batch
    <2> QED
        BY <1>3, <2>1, EsReadStep
<1>4. CASE /\ pc \in {"close", "close_error"} /\ pc' = "done"
           /\ outcome' = (IF pc = "close" THEN "ok" ELSE "error") /\ UNCHANGED progressVars
    <2>1. view' = view /\ sent' = sent /\ pc # "done"
        BY <1>4 DEF progressVars
    <2>2. outcome = "none" /\ BatchesOK(sent)
        BY <2>1, Alive
    <2>3. Begun /\ (pc = "close" /\ ~ torn => Flat(sent) = WantedRows(Reading))
        BY <1>4 DEF StreamInv, BeginsRight, RowsRight
    <2>4. Kept
        BY <1>4, <2>1, <2>2, Stopped
    <2>5. Ends \/ Fails
        BY <1>4, <2>1, <2>2, <2>3 DEF Ends, Fails
    <2> QED
        BY <2>4, <2>5 DEF ReaderStep
<1> QED
    BY <1>1, <1>2, <1>3, <1>4 DEF EsReader

(***************************************************************************)
(* The pages of Milvus: by offset, or of an answer that came at once.      *)
(***************************************************************************)
LEMMA PageFrom ==
    ASSUME NEW rows, IsSeq(rows), NEW offset \in Nat, NEW from \in Nat, NEW size \in Int, NEW page,
           IsPage(page, rows, offset + from, size)
    PROVE  IsPage(page, SubSeq(rows, offset + 1, Len(rows)), from, size)
<1> DEFINE rest == SubSeq(rows, offset + 1, Len(rows))
<1>1. Len(rows) \in Nat /\ offset + 1 \in Nat \ {0} /\ Len(rows) <= Len(rows)
    BY SeqLen
<1>2. /\ IsSeq(rest) /\ Len(rest) = IF offset + 1 <= Len(rows) THEN Len(rows) - (offset + 1) + 1 ELSE 0
      /\ \A i \in 1 .. Len(rest) : rest[i] = rows[offset + 1 + i - 1]
    BY <1>1, SubSeqIs
<1> HIDE DEF rest
<1>3. /\ IsSeq(page) /\ Len(page) \in Nat /\ (page = <<>> <=> Len(page) = 0)
      /\ \A i \in 1 .. Len(page) : page[i] = rows[offset + from + i]
      /\ size >= 0 => Len(page) <= size
      /\ offset + from + Len(page) <= Len(rows) \/ page = <<>>
      /\ Len(page) < size => offset + from + Len(page) >= Len(rows)
    BY SeqLen, EmptyWhenLen DEF IsPage
<1>4. ASSUME NEW i \in 1 .. Len(page) PROVE page[i] = rest[from + i]
    <2>1. from + i \in 1 .. Len(rest) /\ offset + 1 + (from + i) - 1 = offset + from + i
        BY <1>1, <1>2, <1>3
    <2> QED
        BY <1>2, <1>3, <2>1
<1>5. from + Len(page) <= Len(rest) \/ page = <<>>
    BY <1>1, <1>2, <1>3
<1>6. Len(page) < size => from + Len(page) >= Len(rest)
    BY <1>1, <1>2, <1>3
<1> QED
    BY <1>3, <1>4, <1>5, <1>6 DEF IsPage, rest

Goes(rows, size) ==
    \/ pc' = "done" /\ outcome' = "error" /\ sent' = sent
    \/ /\ pos' = pos + Len(rows) /\ \E b : sent' = Append(sent, b) /\ b.rows = rows
       /\ IF Len(rows) < size THEN pc' = "done" /\ outcome' = "ok" ELSE UNCHANGED <<pc, outcome>>

LEMMA PageGoes == ASSUME NEW rows, NEW size, SendPage(rows, size) PROVE Goes(rows, size)
<1> QED
    BY DEF SendPage, Yield, Batch, Complete, GoOn, Stop, Goes

LEMMA MilvusPageStep ==
    ASSUME StreamInv, Calm, UNCHANGED <<view, chunk, decoder>>, pc = "read", provider = "milvus",
           NEW page, IsSeq(page), page # <<>>, NEW size, Goes(page, size),
           ~ torn => /\ Continues(Flat(sent), page, WantedRows(Reading))
                     /\ Len(page) < size => pos + Len(page) = Len(WantedRows(Reading))
    PROVE  ReaderStep /\ Kept
<1>1. ~ ByRow /\ ~ Decoding
    BY DEF ByRow, Decoding, OfFile
<1>2. CASE pc' = "done" /\ outcome' = "error" /\ sent' = sent
    BY <1>2, StoppedShort
<1>3. ASSUME pos' = pos + Len(page), NEW b, sent' = Append(sent, b), b.rows = page,
             IF Len(page) < size THEN pc' = "done" /\ outcome' = "ok" ELSE UNCHANGED <<pc, outcome>>
      PROVE  ReaderStep /\ Kept
    <2>1. CASE Len(page) < size
        <3>1. Closes /\ (~ torn => pos' = Len(WantedRows(Reading)))
            BY <1>3, <2>1 DEF Closes
        <3> QED
            BY <1>1, <1>3, <3>1, PageSent
    <2>2. CASE ~ (Len(page) < size)
        <3>1. pc' = "read" /\ outcome' = outcome
            BY <1>3, <2>2
        <3> QED
            BY <1>1, <1>3, <3>1, PageSent
    <2> QED
        BY <2>1, <2>2
<1> QED
    BY <1>2, <1>3 DEF Goes

\* A query is answered page by page.
LEMMA QueryStep ==
    ASSUME StreamInv, Calm, UNCHANGED <<view, chunk, decoder>>, pc = "read", provider = "milvus",
           MilvusQuery.operation = "query", read_query_paginated
    PROVE  ReaderStep /\ Kept
<1> DEFINE limit == MilvusQuery.limit
           offset == MilvusQuery.offset
           size == PageSize(limit)
           page == FromOffset(source.rows, offset + pos, size)
           rows == SubSeq(source.rows, offset + 1, Len(source.rows))
           got == Flat(sent)
           all == Limited(rows, limit)
<1>1. SessionOK /\ pos \in Nat /\ MilvusRequestInput(request) # {}
    BY Alive DEF StreamInv, CellsInv, TypeInv, Parsed
<1>2. limit \subseteq Int /\ IsOption(limit) /\ offset \in Nat
    BY <1>1, MilvusQueryOf
<1>3. Live /\ Reading = source
    <2>1. \A q \in MilvusRequestInput(request) : q = MilvusQuery
        BY <1>1 DEF MilvusQuery, MilvusRequestInput
    <2> QED
        BY <2>1 DEF Live, Reading
<1>4. WantedRows(Reading) = all
    BY <1>1, <1>3 DEF WantedRows
<1>5. IsSeq(source.rows) /\ IsSeq(rows)
    <2>1. IsSeq(source.rows)
        BY <1>1, WantedSeq DEF SessionOK
    <2>2. offset + 1 \in Nat \ {0} /\ Len(source.rows) \in Int /\ Len(source.rows) <= Len(source.rows)
        BY <1>2, <2>1, SeqLen
    <2> QED
        BY <2>1, <2>2, SubSeqIs
<1>6. size \in Int
    BY <1>1, <1>2, PageSizeIs
<1>7. IsPage(page, rows, pos, size)
    <2>1. offset + pos \in Nat
        BY <1>1, <1>2
    <2> HIDE DEF offset, size
    <2>2. IsPage(page, source.rows, offset + pos, size)
        BY <1>5, <1>6, <2>1, PageIs DEF FromOffset
    <2> HIDE DEF page
    <2> QED
        BY <1>1, <1>2, <1>5, <1>6, <2>2, PageFrom
<1>8. ~ torn => Continues(got, <<>>, all) /\ Len(got) = pos
    BY <1>4, ByPageIs DEF ByRow, Decoding, OfFile
<1>9. CASE (size <= 0 \/ page = <<>>) /\ Complete /\ UNCHANGED <<pos, sent>>
    <2>1. Closes
        BY <1>9 DEF Complete, Stop, Closes
    <2>2. ASSUME ~ torn PROVE got = all
        <3>1. CASE size <= 0
            <4>1. BatchSize \in Nat \ {0}
                BY ReaderAssumption
            <4>2. /\ limit = {} => size = BatchSize
                  /\ \A n \in limit : size = IF n - pos < BatchSize THEN n - pos ELSE BatchSize
                BY <1>1, <1>2, PageSizeIs
            <4> HIDE DEF limit, size, rows, got
            <4>3. PICK n \in limit : n - pos <= 0
                BY <3>1, <4>1, <4>2
            <4>4. n <= pos
                BY <1>1, <1>2, <4>3
            <4> QED
                BY <1>1, <1>2, <1>5, <1>8, <2>2, <4>3, <4>4, LimitReached
        <3>2. CASE ~ (size <= 0)
            <4>1. size > 0 /\ page = <<>>
                BY <1>6, <1>9, <3>2
            <4>2. IsPage(<<>>, rows, pos, size)
                BY <1>7, <4>1
            <4> HIDE DEF limit, rows, got, page
            <4> QED
                BY <1>1, <1>2, <1>5, <1>8, <2>2, <4>1, <4>2, LastPage
        <3> QED
            BY <3>1, <3>2
    <2> QED
        BY <1>4, <1>9, <2>1, <2>2, PagesOver
<1>10. CASE ~ (size <= 0) /\ page # <<>> /\ SendPage(page, size)
    <2>1. size > 0
        BY <1>6, <1>10
    <2>2. ASSUME ~ torn PROVE Continues(got, page, all) /\ (Len(page) < size => pos + Len(page) = Len(all))
        <3> HIDE DEF limit, rows, got, page
        <3> QED
            BY <1>1, <1>2, <1>5, <1>7, <1>8, <2>1, <2>2, PagesGoOn
    <2>3. IsSeq(page) /\ Goes(page, size)
        BY <1>7, <1>10, PageGoes DEF IsPage
    <2> HIDE DEF page, size, got, all
    <2> QED
        BY <1>4, <1>10, <2>2, <2>3, MilvusPageStep DEF got
<1> QED
    BY <1>9, <1>10 DEF read_query_paginated

\* The answer of a search or a get is cut into batches.
LEMMA AnswerStep ==
    ASSUME StreamInv, Calm, UNCHANGED <<view, chunk, decoder>>, pc = "read", provider = "milvus",
           MilvusQuery.operation # "query", NEW page, page = FromOffset(WantedRows(view), pos, BatchSize),
           IF page = <<>> THEN Complete /\ UNCHANGED <<pos, sent>> ELSE SendPage(page, 0)
    PROVE  ReaderStep /\ Kept
<1> DEFINE got == Flat(sent)
           all == WantedRows(view)
<1>1. SessionOK /\ pos \in Nat /\ MilvusRequestInput(request) # {} /\ BatchSize \in Nat \ {0} /\ Begun
    BY Alive, ReaderAssumption DEF StreamInv, CellsInv, TypeInv, Parsed, BeginsRight
<1>2. ~ Live /\ Reading = view
    <2>1. MilvusQuery \in MilvusRequestInput(request)
        BY <1>1 DEF MilvusQuery
    <2> QED
        BY <2>1 DEF Live, Reading
<1>3. ~ torn /\ ~ ByRow /\ ~ Decoding
    BY <1>2 DEF StreamInv, BeginsRight, ByRow, Decoding, OfFile
<1>4. Continues(got, <<>>, all) /\ Len(got) = pos
    BY <1>2, <1>3, ByPageIs
<1>5. IsSeq(all)
    <2>1. view \in Versions[provider]
        BY <1>1 DEF SessionOK, Begun
    <2> QED
        BY <1>1, <2>1, WantedSeq
<1>6. IsPage(page, all, pos, BatchSize)
    <2> HIDE DEF all
    <2>1. page = Limited(SubSeq(all, pos + 1, Len(all)), {BatchSize})
        BY DEF FromOffset, all
    <2> QED
        BY <1>1, <1>5, <2>1, PageIs
<1> HIDE DEF got, all
<1>7. Len(all) \in Nat /\ Len(<<>>) = 0 /\ IsSeq(page) /\ Len(page) \in Nat /\ (page = <<>> <=> Len(page) = 0)
    BY <1>5, <1>6, SeqLen, EmptyIs, EmptyWhenLen DEF IsPage
<1>8. CASE page = <<>>
    <2>1. pos >= Len(all)
        BY <1>1, <1>6, <1>7, <1>8 DEF IsPage
    <2>2. Len(got) + Len(<<>>) <= Len(all)
        BY <1>4 DEF Continues
    <2>3. Len(got) = Len(all)
        BY <1>1, <1>4, <1>7, <2>1, <2>2
    <2>4. got = all
        BY <1>4, <2>3, ContinuesAll
    <2>5. Closes /\ sent' = sent
        BY <1>8 DEF Complete, Stop, Closes
    <2> QED
        BY <1>2, <2>4, <2>5, PagesOver DEF got, all
<1>9. CASE page # <<>>
    <2>1. Continues(got, page, all)
        BY <1>1, <1>4, <1>6, <1>7, <1>9 DEF IsPage, Continues
    <2>2. Goes(page, 0) /\ ~ (Len(page) < 0)
        BY <1>7, <1>9, PageGoes
    <2> QED
        BY <1>2, <1>7, <1>9, <2>1, <2>2, MilvusPageStep DEF got, all
<1> QED
    BY <1>8, <1>9

LEMMA MilvusStep == ASSUME StreamInv, Calm, MilvusReader, provider = "milvus" PROVE ReaderStep /\ Kept
<1>1. ASSUME NEW columns, pc = "schema", Refuse \/ Announce(columns) PROVE ReaderStep /\ Kept
    BY <1>1, RefusalStops, TableAnnounced
<1>2. CASE pc = "open" /\ Begin({})
    BY <1>2, BeginsTable
<1>3. CASE pc = "read"
    <2> DEFINE page == FromOffset(WantedRows(view), pos, BatchSize)
    <2>1. /\ UNCHANGED <<view, chunk, decoder>>
          /\ IF MilvusQuery.operation = "query" THEN read_query_paginated
             ELSE IF page = <<>> THEN Complete /\ UNCHANGED <<pos, sent>> ELSE SendPage(page, 0)
        BY <1>3 DEF MilvusReader
    <2> HIDE DEF page
    <2>2. CASE MilvusQuery.operation = "query"
        BY <1>3, <2>1, <2>2, QueryStep
    <2>3. CASE MilvusQuery.operation # "query"
        BY <1>3, <2>1, <2>3, AnswerStep DEF page
    <2> QED
        BY <2>2, <2>3
<1> QED
    BY <1>1, <1>2, <1>3 DEF MilvusReader

(***************************************************************************)
(* The decoder of a file and its batches.                                  *)
(***************************************************************************)
LEMMA FileAnnounced ==
    ASSUME StreamInv, Calm, pc = "schema", OfFile, NEW format, NEW path, NEW keeps,
           AnnounceFile(format, path, keeps), keeps \in BOOLEAN, keeps <=> Keeps,
           view' = (IF Keeps THEN source ELSE view) => ReadFormat' = format
    PROVE  ReaderStep /\ Kept
<1>1. CASE Refuse
    BY <1>1, RefusalStops
<1>2. CASE ~ Refuse
    <2>1. /\ view' = IF keeps THEN source ELSE view
          /\ decoder' = [decoder EXCEPT !.skip = (format = "csv")]
          /\ pc' = "open" /\ UNCHANGED <<pos, sent, outcome>>
        BY <1>2 DEF AnnounceFile
    <2>2. decoder \in EmptyDecoders
        BY DEF StreamInv, CellsInv, Fresh
    <2>3. decoder'.skip <=> format = "csv"
        BY <2>1, <2>2 DEF EmptyDecoders
    <2>4. view' = IF Keeps THEN source ELSE view
        BY <2>1
    <2>5. decoder'.skip <=> ReadFormat' = "csv"
        BY <2>3, <2>4
    <2> QED
        BY <2>1, <2>4, <2>5, Announced
<1> QED
    BY <1>1, <1>2

LEMMA DecodeKept ==
    ASSUME StreamInv, Calm, view' = view, pc = "read", pc' = "read", Decoding, BatchesOK(sent'),
           chunk' \in Seq(Pieces(AnyLines)), DecoderOK(decoder', AnyLines),
           ~ torn => OnTrack(decoder', chunk', pos', ReadFormat, view, Flat(sent'))
    PROVE  Kept
<1>1. BeginsRight'
    BY StillReading
<1>2. OfFile' = OfFile /\ AnyLines' = AnyLines /\ ReadFormat' = ReadFormat /\ Decoding'
    BY SameFile DEF Calm
<1>3. IsSeq(chunk')
    BY SeqIn
<1>4. SeqsRight'
    BY <1>2, <1>3 DEF SeqsRight
<1>5. ~ torn => ReadsOn'
    BY <1>2 DEF ReadsOn
<1>6. RowsRight'
    BY <1>5 DEF RowsRight, Calm
<1> QED
    BY <1>1, <1>4, <1>6 DEF Kept

LEMMA DecodingIs ==
    ASSUME StreamInv, pc = "read", Decoding
    PROVE  /\ SessionOK /\ pos \in Nat /\ BatchesOK(sent) /\ Begun /\ view \in Versions[provider]
           /\ OfFile /\ Reading \in Versions[provider] /\ IsSeq(view.rows)
           /\ chunk \in Seq(Pieces(AnyLines)) /\ DecoderOK(decoder, AnyLines)
           /\ WantedRows(Reading) = Reading.rows
           /\ ~ torn => Reading = view /\ OnTrack(decoder, chunk, pos, ReadFormat, view, Flat(sent))
<1>1. SessionOK /\ pos \in Nat /\ BatchesOK(sent) /\ Begun /\ OfFile
    BY Alive DEF StreamInv, BeginsRight, Decoding
<1>2. view \in Versions[provider] /\ Reading \in Versions[provider]
    BY <1>1 DEF SessionOK, Begun, Reading
<1>3. IsSeq(view.rows)
    BY <1>1, <1>2, WantedSeq
<1>4. chunk \in Seq(Pieces(AnyLines)) /\ DecoderOK(decoder, AnyLines)
    BY <1>1 DEF StreamInv, SeqsRight
<1>5. WantedRows(Reading) = Reading.rows
    BY <1>1 DEF WantedRows, OfFile
<1>6. ~ torn => Reading = view
    BY <1>1, FileBytes DEF StreamInv, OfFile
<1>7. ~ torn => OnTrack(decoder, chunk, pos, ReadFormat, view, Flat(sent))
    BY DEF StreamInv, RowsRight, ReadsOn
<1> QED
    BY <1>1, <1>2, <1>3, <1>4, <1>5, <1>6, <1>7

LEMMA AnyBytes ==
    ASSUME SessionOK, NEW t \in Versions[provider], NEW format
    PROVE  Bytes(format, t) \in Seq(Pieces(AnyLines))
<1>1. t.rows \in Seq(Range(t.rows))
    BY ReaderAssumption DEF SessionOK
<1>2. Bytes(format, t) \in Seq(Pieces(LinesOf(t)))
    BY <1>1, BytesIn
<1>3. Pieces(LinesOf(t)) \subseteq Pieces(AnyLines)
    <2>1. LinesOf(t) \subseteq AnyLines
        BY DEF AnyLines
    <2> QED
        BY <2>1 DEF Pieces
<1> QED
    BY <1>2, <1>3

LEMMA DecodeReadStep ==
    ASSUME StreamInv, Calm, view' = view, pc = "read", Decoding, chunk = <<>>,
           NextBytes(ReadFormat), UNCHANGED <<decoder, sent>>
    PROVE  ReaderStep /\ Kept
<1>1. CASE pc' = "done" /\ outcome' = "error"
    BY <1>1, StoppedShort
<1>2. ASSUME UNCHANGED <<pc, outcome>>, NEW n \in Nat \ {0}, pos + n <= Len(Bytes(ReadFormat, Reading)),
             chunk' = SubSeq(Bytes(ReadFormat, Reading), pos + 1, pos + n), pos' = pos + n
      PROVE  ReaderStep /\ Kept
    <2> DEFINE P == Pieces(AnyLines)
               bytes == Bytes(ReadFormat, Reading)
    <2>1. pos \in Nat /\ DecoderOK(decoder, AnyLines) /\ BatchesOK(sent) /\ IsSeq(view.rows)
        BY DecodingIs
    <2>2. chunk' \in Seq(P)
        <3>1. bytes \in Seq(P)
            BY DecodingIs, AnyBytes
        <3> HIDE DEF P, bytes
        <3>2. pos + 1 \in Nat \ {0} /\ pos + n \in Int /\ pos + n <= Len(bytes)
            BY <1>2, <2>1 DEF bytes
        <3> QED
            BY <1>2, <3>1, <3>2, SubSeqIn DEF bytes
    <2>3. ASSUME ~ torn PROVE OnTrack(decoder, chunk', pos', ReadFormat, view, Flat(sent))
        <3>1. Reading = view /\ OnTrack(decoder, <<>>, pos, ReadFormat, view, Flat(sent))
            BY <2>3, DecodingIs
        <3>2. IsSeq(decoder.partial)
            BY <2>1, SeqIn DEF DecoderOK
        <3> QED
            BY <1>2, <2>1, <3>1, <3>2, ReadTrack
    <2>4. Kept
        BY <1>2, <2>1, <2>2, <2>3, DecodeKept
    <2> QED
        BY <1>2, <2>4 DEF ReaderStep, Waits
<1>3. provider \in {"s3", "uri"}
    BY DEF Decoding, OfFile
<1> QED
    BY <1>1, <1>2, <1>3, BytesCome

\* The decoder takes some of the pieces.
LEMMA DecodeTakesStep ==
    ASSUME StreamInv, Calm, view' = view, pc = "read", Decoding, UNCHANGED <<sent, pos, pc, outcome>>,
           decoder' = Decode(decoder, chunk).decoder,
           chunk' = SubSeq(chunk, Decode(decoder, chunk).consumed + 1, Len(chunk))
    PROVE  ReaderStep /\ Kept
<1> DEFINE P == Pieces(AnyLines)
           d == Decode(decoder, chunk)
<1>1. /\ pos \in Nat /\ DecoderOK(decoder, AnyLines) /\ BatchesOK(sent) /\ IsSeq(view.rows)
      /\ chunk \in Seq(P)
    BY DecodingIs
<1>2. DecoderOK(d.decoder, AnyLines) /\ d.consumed \in 0 .. Len(chunk)
    BY <1>1, DecodeOK
<1>3. chunk' \in Seq(P)
    <2> HIDE DEF d, P
    <2>1. Len(chunk) \in Nat
        BY <1>1, LenProperties
    <2>2. d.consumed + 1 \in Nat \ {0} /\ Len(chunk) \in Int /\ Len(chunk) <= Len(chunk)
        BY <1>2, <2>1
    <2> QED
        BY <1>1, <2>2, SubSeqIn DEF d
<1>4. ASSUME ~ torn PROVE OnTrack(decoder', chunk', pos', ReadFormat, view, Flat(sent'))
    <2>1. OnTrack(decoder, chunk, pos, ReadFormat, view, Flat(sent))
        BY <1>4, DecodingIs
    <2>2. OnTrack(d.decoder, SubSeq(chunk, d.consumed + 1, Len(chunk)), pos, ReadFormat, view, Flat(sent))
        <3> HIDE DEF P
        <3> QED
            BY <1>1, <2>1, DecodeTrack DEF P
    <2> QED
        BY <2>2
<1>5. Kept
    BY <1>1, <1>2, <1>3, <1>4, DecodeKept
<1> QED
    BY <1>5 DEF ReaderStep, Waits

\* The decoder has a batch of rows.
LEMMA DecodeFlushStep ==
    ASSUME StreamInv, Calm, view' = view, pc = "read", Decoding, UNCHANGED <<pos, chunk>>,
           decoder.rows # <<>>, Flush(ReadFormat, decoder, GoOn)
    PROVE  ReaderStep /\ Kept
<1> DEFINE arrays == FileArrays(ReadFormat, decoder.rows)
           b == Batch(arrays, decoder.rows)
<1>1. /\ DecoderOK(decoder, AnyLines) /\ BatchesOK(sent) /\ IsSeq(decoder.rows)
      /\ chunk \in Seq(Pieces(AnyLines)) /\ WantedRows(Reading) = Reading.rows
      /\ ~ torn => Reading = view /\ OnTrack(decoder, chunk, pos, ReadFormat, view, Flat(sent))
    BY DecodingIs, SeqIn DEF DecoderOK
<1>2. b.rows = decoder.rows
    BY DEF Batch
<1>3. decoder' = [decoder EXCEPT !.rows = <<>>]
    BY DEF Flush
<1>4. (pc' = "done" /\ outcome' = "error" /\ sent' = sent) \/ (sent' = Append(sent, b) /\ UNCHANGED <<pc, outcome>>)
    BY DEF Flush, Yield, Stop, GoOn
<1> HIDE DEF b
<1>5. CASE sent' = Append(sent, b) /\ UNCHANGED <<pc, outcome>>
    <2>1. outcome' = "none"
        BY <1>5, Alive
    <2>2. ~ torn => Continues(Flat(sent), b.rows, WantedRows(Reading))
        BY <1>1, <1>2 DEF OnTrack
    <2>3. ReaderStep /\ BatchesOK(sent') /\ Flat(sent') = Flat(sent) \o b.rows
        BY <1>1, <1>2, <1>5, <2>1, <2>2, BatchSent
    <2>4. DecoderOK(decoder', AnyLines)
        BY <1>1, <1>3, FlushFits
    <2>5. ~ torn => OnTrack(decoder', chunk', pos', ReadFormat, view, Flat(sent'))
        BY <1>1, <1>2, <1>3, <2>3, FlushTrack
    <2>6. Kept
        BY <1>1, <1>5, <2>3, <2>4, <2>5, DecodeKept
    <2> QED
        BY <2>3, <2>6
<1> QED
    BY <1>4, <1>5, StoppedShort

\* The file is at its end.
LEMMA DecodeEndStep ==
    ASSUME StreamInv, Calm, view' = view, pc = "read", Decoding, chunk = <<>>,
           pos = Len(Bytes(ReadFormat, view)), DecodeEnd(decoder, ReadFormat).sound,
           NEW rows, rows = DecodeEnd(decoder, ReadFormat).decoder.rows,
           IF rows = <<>> THEN Complete /\ UNCHANGED sent
           ELSE Yield(FileArrays(ReadFormat, rows), rows, Complete)
    PROVE  ReaderStep /\ Kept
<1> DEFINE b == Batch(FileArrays(ReadFormat, rows), rows)
           got == Flat(sent)
<1>1. /\ DecoderOK(decoder, AnyLines) /\ BatchesOK(sent) /\ IsSeq(view.rows)
      /\ WantedRows(Reading) = Reading.rows
      /\ ~ torn => Reading = view /\ OnTrack(decoder, <<>>, pos, ReadFormat, view, Flat(sent))
    BY DecodingIs
<1>2. ASSUME ~ torn
      PROVE  /\ Continues(got, rows, view.rows) /\ Len(got) + Len(rows) = Len(view.rows)
             /\ WantedRows(Reading) = view.rows
    <2>1. OnTrack(decoder, <<>>, pos, ReadFormat, view, got) /\ WantedRows(Reading) = view.rows
        BY <1>1, <1>2
    <2> HIDE DEF got
    <2> QED
        BY <1>1, <2>1, EndTrack
<1>3. IsSeq(rows)
    <2> DEFINE L == AnyLines
    <2>1. decoder \in [skip : BOOLEAN, rows : Seq(L), partial : Seq(Pieces(L))]
        BY <1>1 DEF DecoderOK
    <2> HIDE DEF L
    <2>2. rows = IF decoder.skip THEN decoder.rows ELSE decoder.rows \o RowsIn(decoder.partial)
        BY <2>1 DEF DecodeEnd
    <2>3. RowsIn(decoder.partial) \in Seq(L)
        BY <2>1, RowsInType
    <2>4. rows \in Seq(L)
        BY <2>1, <2>2, <2>3
    <2> QED
        BY <2>4, SeqIn
<1>4. CASE rows = <<>>
    <2>1. Closes /\ sent' = sent
        BY <1>4 DEF Complete, Stop, Closes
    <2>2. ASSUME ~ torn PROVE Flat(sent) = WantedRows(Reading)
        <3>1. Continues(got, <<>>, view.rows) /\ Len(got) + Len(<<>>) = Len(view.rows)
            BY <1>2, <1>4, <2>2
        <3> HIDE DEF got
        <3>2. Len(got) \in Nat /\ Len(<<>>) = 0
            BY <3>1, SeqLen, EmptyIs DEF Continues
        <3>3. got = view.rows
            BY <3>1, <3>2, ContinuesAll
        <3> QED
            BY <1>2, <2>2, <3>3 DEF got
    <2> QED
        BY <2>1, <2>2, PagesOver
<1>5. CASE rows # <<>>
    <2>1. b.rows = rows
        BY DEF Batch
    <2>2. (pc' = "done" /\ outcome' = "error" /\ sent' = sent) \/ (sent' = Append(sent, b) /\ pc' = "done" /\ outcome' = "ok")
        BY <1>5 DEF Yield, Complete, Stop
    <2> HIDE DEF b, got
    <2>3. CASE sent' = Append(sent, b) /\ pc' = "done" /\ outcome' = "ok"
        <3>1. ~ torn => /\ Continues(Flat(sent), b.rows, WantedRows(Reading))
                        /\ Len(Flat(sent)) + Len(b.rows) = Len(WantedRows(Reading))
            BY <1>2, <2>1 DEF got
        <3>2. ReaderStep /\ BatchesOK(sent')
            BY <1>3, <1>5, <2>1, <2>3, <3>1, BatchSent
        <3> QED
            BY <2>3, <3>2, Stopped
    <2> QED
        BY <2>2, <2>3, StoppedShort
<1> QED
    BY <1>4, <1>5

LEMMA DecodeStep ==
    ASSUME StreamInv, Calm, view' = view, pc = "read", Decoding, decode_stream(ReadFormat)
    PROVE  ReaderStep /\ Kept
<1>1. CASE chunk = <<>> /\ NextBytes(ReadFormat) /\ UNCHANGED <<decoder, sent>>
    BY <1>1, DecodeReadStep
<1>2. CASE chunk # <<>>
    <2> DEFINE d == Decode(decoder, chunk)
    <2>1. CASE ~ d.sound
        <3>1. pc' = "done" /\ outcome' = "error" /\ sent' = sent
            BY <1>2, <2>1 DEF decode_stream, DecodeChunk, Stop
        <3> QED
            BY <3>1, StoppedShort
    <2>2. CASE d.sound /\ d.consumed # 0
        <3>1. decoder' = d.decoder /\ chunk' = SubSeq(chunk, d.consumed + 1, Len(chunk))
              /\ UNCHANGED <<sent, pos, pc, outcome>>
            BY <1>2, <2>2 DEF decode_stream, DecodeChunk, GoOn
        <3> HIDE DEF d
        <3> QED
            BY <3>1, DecodeTakesStep DEF d
    <2>3. CASE d.sound /\ d.consumed = 0 /\ decoder.rows # <<>>
        <3>1. Flush(ReadFormat, decoder, GoOn) /\ UNCHANGED <<pos, chunk>>
            BY <1>2, <2>3 DEF decode_stream, DecodeChunk
        <3> QED
            BY <2>3, <3>1, DecodeFlushStep
    <2>4. CASE d.sound /\ d.consumed = 0 /\ decoder.rows = <<>>
        <3>1. DecoderOK(decoder, AnyLines) /\ chunk \in Seq(Pieces(AnyLines))
            BY DecodingIs
        <3>2. PICK half : Decodes(decoder, chunk, half)
            BY <3>1, DecodeOK
        <3>3. Len(decoder.rows) = BatchSize
            BY <1>2, <2>4, <3>2 DEF Decodes
        <3>4. BatchSize # 0 /\ Len(decoder.rows) = 0
            BY <2>4, ReaderAssumption, EmptyIs
        <3> QED
            BY <3>3, <3>4
    <2> QED
        BY <2>1, <2>2, <2>3, <2>4
<1>3. CASE chunk = <<>> /\ pos = Len(Bytes(ReadFormat, view)) /\ ~ (NextBytes(ReadFormat) /\ UNCHANGED <<decoder, sent>>)
    <2> DEFINE e == DecodeEnd(decoder, ReadFormat)
    <2>1. CASE ~ e.sound
        <3>1. pc' = "done" /\ outcome' = "error" /\ sent' = sent
            BY <1>3, <2>1 DEF decode_stream, Stop
        <3> QED
            BY <3>1, StoppedShort
    <2>2. CASE e.sound
        <3> DEFINE rows == e.decoder.rows
        <3>1. IF rows = <<>> THEN Complete /\ UNCHANGED sent
              ELSE Yield(FileArrays(ReadFormat, rows), rows, Complete)
            BY <1>3, <2>2 DEF decode_stream, Flush
        <3> HIDE DEF rows
        <3> QED
            BY <1>3, <2>2, <3>1, DecodeEndStep DEF rows
    <2> QED
        BY <2>1, <2>2
<1> QED
    BY <1>1, <1>2, <1>3 DEF decode_stream

\* Slices of the rows of a file.
LEMMA SliceIs ==
    ASSUME NEW rows, IsSeq(rows), pos \in Nat
    PROVE  IsPage(NextSlice(rows), rows, pos, BatchSize)
<1> DEFINE n == Len(rows)
           to == Min({pos + BatchSize, n})
           page == SubSeq(rows, pos + 1, to)
<1>1. n \in Nat /\ BatchSize \in Nat \ {0}
    BY SeqLen, ReaderAssumption
<1>2. to \in Int /\ to <= pos + BatchSize /\ to <= n /\ to \in {pos + BatchSize, n}
    <2>1. pos + BatchSize \in Int /\ n \in Int
        BY <1>1
    <2> QED
        BY <2>1, MinOfTwo
<1> HIDE DEF to
<1>3. pos + 1 \in Nat \ {0} /\ to <= Len(rows)
    BY <1>2
<1>4. /\ IsSeq(page) /\ Len(page) = IF pos + 1 <= to THEN to - (pos + 1) + 1 ELSE 0
      /\ \A i \in 1 .. Len(page) : page[i] = rows[pos + 1 + i - 1]
    BY <1>2, <1>3, SubSeqIs
<1>5. Len(page) \in Nat /\ (page = <<>> <=> Len(page) = 0)
    BY <1>4, SeqLen, EmptyWhenLen
<1> HIDE DEF page, n
<1>6. \A i \in 1 .. Len(page) : page[i] = rows[pos + i]
    <2> TAKE i \in 1 .. Len(page)
    <2>1. pos + 1 + i - 1 = pos + i
        BY <1>5
    <2> QED
        BY <1>4, <2>1
<1>7. /\ BatchSize >= 0 => Len(page) <= BatchSize
      /\ pos + Len(page) <= n \/ page = <<>>
      /\ Len(page) < BatchSize => pos + Len(page) >= n
    BY <1>1, <1>2, <1>4, <1>5
<1>8. NextSlice(rows) = page
    BY DEF NextSlice, page, to, n
<1> QED
    BY <1>4, <1>6, <1>7, <1>8 DEF IsPage, n

LEMMA SliceStep ==
    ASSUME StreamInv, Calm, UNCHANGED <<view, chunk, decoder>>, pc = "read", OfFile, ~ Decoding,
           NEW page, page = NextSlice(view.rows), pos' = pos + Len(page),
           \/ pc' = "done" /\ outcome' = "error" /\ sent' = sent
           \/ page = <<>> /\ Complete /\ sent' = sent
           \/ page # <<>> /\ UNCHANGED <<pc, outcome>> /\ \E b : sent' = Append(sent, b) /\ b.rows = page
    PROVE  ReaderStep /\ Kept
<1> DEFINE got == Flat(sent)
           all == view.rows
<1>1. /\ SessionOK /\ pos \in Nat /\ Begun /\ ~ ByRow /\ provider \in {"s3", "uri"} /\ ~ request.binary
      /\ BatchSize \in Nat \ {0}
    BY Alive, ReaderAssumption DEF StreamInv, BeginsRight, OfFile, ByRow
<1>2. view \in Versions[provider] /\ IsSeq(all)
    BY <1>1, WantedSeq DEF SessionOK, Begun
<1>3. IsPage(page, all, pos, BatchSize)
    BY <1>1, <1>2, SliceIs
<1>4. Len(all) \in Nat /\ Len(<<>>) = 0 /\ IsSeq(page) /\ Len(page) \in Nat /\ (page = <<>> <=> Len(page) = 0)
    BY <1>2, <1>3, SeqLen, EmptyIs, EmptyWhenLen DEF IsPage
<1>5. ASSUME ~ torn PROVE Continues(got, <<>>, all) /\ Len(got) = pos /\ WantedRows(Reading) = all
    <2>1. Reading = view
        BY <1>1, <1>5, FileBytes DEF StreamInv
    <2>2. WantedRows(Reading) = all
        BY <1>1, <2>1 DEF WantedRows
    <2> QED
        BY <1>1, <1>5, <2>2, ByPageIs
<1> HIDE DEF got, all
<1>6. CASE pc' = "done" /\ outcome' = "error" /\ sent' = sent
    BY <1>6, StoppedShort
<1>7. CASE page = <<>> /\ Complete /\ sent' = sent
    <2>1. ASSUME ~ torn PROVE got = all
        <3>1. pos >= Len(all)
            BY <1>1, <1>3, <1>4, <1>7 DEF IsPage
        <3>2. Len(got) + Len(<<>>) <= Len(all)
            BY <1>5, <2>1 DEF Continues
        <3>3. Len(got) = Len(all)
            BY <1>1, <1>4, <1>5, <2>1, <3>1, <3>2
        <3> QED
            BY <1>5, <2>1, <3>3, ContinuesAll
    <2>2. Closes
        BY <1>7 DEF Complete, Stop, Closes
    <2> QED
        BY <1>5, <1>7, <2>1, <2>2, PagesOver DEF got
<1>8. ASSUME page # <<>>, UNCHANGED <<pc, outcome>>, NEW b, sent' = Append(sent, b), b.rows = page
      PROVE  ReaderStep /\ Kept
    <2>1. ASSUME ~ torn PROVE Continues(got, page, WantedRows(Reading))
        <3>1. Continues(got, page, all)
            BY <1>1, <1>3, <1>4, <1>5, <1>8, <2>1 DEF IsPage, Continues
        <3> QED
            BY <1>5, <2>1, <3>1
    <2>2. pc' = "read" /\ outcome' = outcome /\ provider # "elasticsearch"
        BY <1>1, <1>8
    <2> QED
        BY <1>1, <1>4, <1>8, <2>1, <2>2, PageSent DEF got
<1> QED
    BY <1>6, <1>7, <1>8

LEMMA FileStep ==
    ASSUME StreamInv, Calm, OfFile, ReadFormat \in Formats, NEW path, ReadFile(ReadFormat, path)
    PROVE  ReaderStep /\ Kept
<1>1. pc = "read" /\ view' = view
    BY DEF ReadFile
<1>2. CASE ReadFormat \in {"csv", "jsonl"}
    <2>1. Decoding /\ decode_stream(ReadFormat)
        BY <1>2 DEF Decoding, ReadFile
    <2> QED
        BY <1>1, <2>1, DecodeStep
<1>3. CASE ReadFormat = "json"
    <2> DEFINE page == NextSlice(view.rows)
    <2>1. ~ Decoding /\ read_json_batches(path)
        BY <1>3 DEF Decoding, ReadFile
    <2>2. /\ UNCHANGED <<chunk, decoder>> /\ pos' = pos + Len(page)
          /\ \/ pc' = "done" /\ outcome' = "error" /\ sent' = sent
             \/ page = <<>> /\ Complete /\ sent' = sent
             \/ page # <<>> /\ UNCHANGED <<pc, outcome>> /\ \E b : sent' = Append(sent, b) /\ b.rows = page
        BY <2>1 DEF read_json_batches, Yield, Batch, GoOn, Stop
    <2> HIDE DEF page
    <2> QED
        BY <1>1, <2>1, <2>2, SliceStep DEF page
<1>4. CASE ReadFormat = "parquet"
    <2> DEFINE page == NextSlice(view.rows)
    <2>1. ~ Decoding /\ read_parquet_batches
        BY <1>4 DEF Decoding, ReadFile
    <2>2. /\ UNCHANGED <<chunk, decoder>> /\ pos' = pos + Len(page)
          /\ \/ pc' = "done" /\ outcome' = "error" /\ sent' = sent
             \/ page = <<>> /\ Complete /\ sent' = sent
             \/ page # <<>> /\ UNCHANGED <<pc, outcome>> /\ \E b : sent' = Append(sent, b) /\ b.rows = page
        BY <2>1 DEF read_parquet_batches, Yield, Batch, GoOn, Stop
    <2> HIDE DEF page
    <2> QED
        BY <1>1, <2>1, <2>2, SliceStep DEF page
<1> QED
    BY <1>2, <1>3, <1>4 DEF Formats

\* A file is read again for the stream, or what was kept of it is used.
LEMMA FileOpened ==
    ASSUME StreamInv, Calm, pc = "open", OfFile, pc' = "read", UNCHANGED <<pos, chunk, decoder, sent, outcome>>,
           view' = IF Keeps THEN view ELSE source, Keeps => ~ Live, provider = "uri" => Keeps
    PROVE  ReaderStep /\ Kept
<1>1. (Begun <=> Keeps) /\ (decoder.skip <=> ReadFormat = "csv")
    BY DEF StreamInv, BeginsRight
<1>2. provider \in {"s3", "uri"}
    BY DEF OfFile
<1>3. ReadFormat' = ReadFormat
    <2>1. view' = view \/ provider = "s3"
        BY <1>2
    <2> QED
        BY <2>1, SameFile DEF Calm
<1> QED
    BY <1>1, <1>3, Started

LEMMA S3Step == ASSUME StreamInv, Calm, S3Reader, provider = "s3", ~ request.binary PROVE ReaderStep /\ Kept
<1> DEFINE formats == FormatOf(request.extension, request.hint)
           format == CHOOSE f \in formats : TRUE
<1>0. OfFile /\ ReadFormat = format /\ ReadFormat' = format
    <2>1. OfFile /\ ReadFormat = format
        BY DEF OfFile, ReadFormat
    <2> QED
        BY <2>1, SameFile DEF Calm
<1>1. formats # {} => (format = "json" <=> formats = {"json"})
    BY DEF FormatOf, from_format_str
<1>2. formats # {} => (Keeps <=> format = "json")
    BY <1>1 DEF Keeps, Live
<1>3. CASE pc = "schema"
    <2>1. CASE Refuse
        BY <1>3, <2>1, RefusalStops
    <2>2. CASE ~ Refuse
        <3>1. formats # {} /\ AnnounceFile(format, {}, format = "json")
            BY <1>3, <2>2 DEF S3Reader, ReadFile
        <3> HIDE DEF formats, format
        <3> QED
            BY <1>0, <1>2, <1>3, <3>1, FileAnnounced
    <2> QED
        BY <2>1, <2>2
<1>4. CASE pc \in {"open", "read"}
    <2>0. formats # {} /\ format \in Formats
        <3>1. formats # {}
            BY <1>4 DEF StreamInv, CellsInv, TypeInv, ControlInv, FormatKnown
        <3> QED
            BY <3>1, FormatsKnown
    <2>1. CASE pc = "open"
        <3>1. pc' = "read" /\ UNCHANGED <<pos, chunk, decoder, sent, outcome>>
              /\ view' = IF format = "json" THEN view ELSE source
            BY <2>1 DEF S3Reader, Begin, ReadFile, progressVars
        <3>2. view' = IF Keeps THEN view ELSE source
            BY <1>2, <2>0, <3>1
        <3>3. Keeps => ~ Live
            BY DEF Keeps
        <3> QED
            BY <1>0, <2>1, <3>1, <3>2, <3>3, FileOpened
    <2>2. CASE pc = "read"
        <3>1. ReadFile(format, {})
            BY <2>2 DEF S3Reader
        <3> HIDE DEF format
        <3> QED
            BY <1>0, <2>0, <3>1, FileStep
    <2> QED
        BY <1>4, <2>1, <2>2
<1> QED
    BY <1>3, <1>4 DEF S3Reader, ReadFile

LEMMA UriStep == ASSUME StreamInv, Calm, UriReader, provider = "uri", ~ request.binary PROVE ReaderStep /\ Kept
<1>0. OfFile /\ Keeps /\ ~ Live
    BY DEF OfFile, Keeps, Live
<1>1. CASE pc = "schema"
    <2> DEFINE format == CHOOSE f \in UriFormat(source) : TRUE
    <2>1. CASE Refuse
        BY <1>1, <2>1, RefusalStops
    <2>2. CASE ~ Refuse
        <3>1. AnnounceFile(format, UriQuery.data_path, TRUE)
            BY <1>1, <2>2 DEF UriReader, fetch_response
        <3>2. view' = source => ReadFormat' = format
            <4>1. view' = source => UriFormat(view)' = UriFormat(source)
                BY DEF UriFormat, UriQuery, Calm
            <4> QED
                BY <4>1 DEF ReadFormat, Calm
        <3> HIDE DEF format
        <3> QED
            BY <1>0, <1>1, <3>1, <3>2, FileAnnounced
    <2> QED
        BY <2>1, <2>2
<1>2. CASE pc = "open"
    <2>1. pc' = "read" /\ UNCHANGED <<pos, chunk, decoder, sent, outcome, view>>
        BY <1>2 DEF UriReader, progressVars
    <2> QED
        BY <1>0, <1>2, <2>1, FileOpened
<1>3. CASE pc = "read"
    <2>1. ReadFile(ReadFormat, UriQuery.data_path)
        BY <1>3 DEF UriReader, ReadFormat
    <2>2. UriFormat(view) # {}
        BY <1>3 DEF StreamInv, CellsInv, TypeInv, ControlInv, FormatKnown
    <2>3. ReadFormat \in Formats
        BY <2>2, UriFormats DEF ReadFormat
    <2> QED
        BY <1>0, <2>1, <2>3, FileStep
<1> QED
    BY <1>1, <1>2, <1>3 DEF UriReader

LEMMA ReaderSteps == ASSUME StreamInv, Calm, Reader PROVE ReaderStep /\ Kept
<1> QED
    BY PgStep, SqliteStep, Neo4jStep, EsStep, MilvusStep, S3Step, UriStep, BinaryStep DEF Reader

LEMMA StreamSteps ==
    ASSUME StreamInv, [ReadersNext]_readerVars PROVE StreamInv' /\ [Stream!Next]_(Stream!streamVars)
<1>1. CellsInv /\ CellsInv'
    BY CellsSteps DEF StreamInv
<1>2. CASE Reader /\ ~ Writes
    <2>1. Calm
        BY <1>1, <1>2, Unchanging DEF Calm
    <2>2. ReaderStep /\ Kept
        BY <1>2, <2>1, ReaderSteps
    <2>3. StreamInv'
        BY <1>1, <2>2 DEF StreamInv, Kept
    <2>4. SessionOK /\ BatchesOK(sent)
        BY DEF StreamInv, CellsInv, TypeInv, ControlInv, SeqsRight
    <2>5. UNCHANGED <<provider, request, source, torn>>
        BY <2>1 DEF Calm
    <2> QED
        BY <2>2, <2>3, <2>4, <2>5, StepMaps
<1>3. CASE Change
    BY <1>1, <1>3, ChangeKeeps
<1>4. CASE SourceFails \/ ClientDrops \/ PitExpires
    BY <1>1, <1>4, FailureKeeps
<1>6. CASE Writes
    BY <1>1, <1>6, WriteStep
<1>7. CASE Stalls
    BY <1>1, <1>7, StallKeeps
<1>5. CASE UNCHANGED readerVars
    <2>1. UNCHANGED <<provider, request, source, view, pos, chunk, decoder, sent, torn, pc, outcome>>
        BY <1>5 DEF readerVars
    <2> QED
        BY <1>1, <2>1, StutterKeeps
<1> QED
    BY <1>2, <1>3, <1>4, <1>5, <1>6, <1>7 DEF ReadersNext, World

\* Every connector's stream, whatever the tables, the requests, the size of a
\* batch and the changes and failures of the source, gives the rows that were
\* asked for, as of one moment, in order, none missing and none twice, as far
\* as the source can do that: the readers implement TabularStream.
THEOREM StreamsRefine == ReadersSpec => StreamsAreTabular
<1>1. ReadersInit => StreamInv /\ Stream!Init
    BY StreamStarts
<1>2. StreamInv /\ [ReadersNext]_readerVars => StreamInv' /\ [Stream!Next]_(Stream!streamVars)
    BY StreamSteps
<1> QED
    BY <1>1, <1>2, PTL DEF ReadersSpec, StreamsAreTabular, Stream!Spec

=============================================================================
