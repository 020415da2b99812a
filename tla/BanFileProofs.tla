--------------------------- MODULE BanFileProofs ---------------------------
(***************************************************************************)
(* The ban file: what a restart reads is what is enforced, compaction       *)
(* changes none of it, and every append that is cut short costs at most one *)
(* ban, for any number of coins, of appends and of failures of the host.    *)
(***************************************************************************)
EXTENDS BanFile, FiniteSetTheorems, WellFoundedInduction, TLAPS

-----------------------------------------------------------------------------
(* Induction over the natural numbers, as the least of a set of them.       *)

LEMMA NatMin ==
    ASSUME NEW T \in SUBSET Nat, T # {}
    PROVE  \E x \in T : \A y \in T : x <= y
<1> DEFINE R == {ss \in Nat \X Nat : ss[1] < ss[2]}
<1>1. IsWellFoundedOn(R, Nat)
  <2>1. OpToRel(<, Nat) = R
    BY Zenon DEF OpToRel
  <2> QED
    BY <2>1, NatLessThanWellFounded, Zenon
<1>2. T \subseteq Nat
  OBVIOUS
<1>3. ASSUME NEW a \in Nat, NEW b \in Nat, a < b
      PROVE  <<a, b>> \in R
  <2>1. <<a, b>> \in Nat \X Nat
    OBVIOUS
  <2>2. <<a, b>>[1] < <<a, b>>[2]
    BY <1>3
  <2> QED
    BY <2>1, <2>2
<1> HIDE DEF R
<1>4. PICK x \in T : \A y \in T : <<y, x>> \notin R
  BY <1>1, <1>2, WFMin, Zenon
<1>5. \A y \in T : ~ (y < x)
  BY <1>3, <1>4
<1> QED
  BY <1>5

LEMMA GreatestPlace ==
    ASSUME NEW n \in Nat, NEW T \in SUBSET (1..n), T # {}
    PROVE  \E x \in T : \A y \in T : y <= x
<1> DEFINE U == {n - x : x \in T}
<1>1. U \in SUBSET Nat /\ U # {}
  <2>1. \A x \in T : n - x \in Nat
    OBVIOUS
  <2> QED
    BY <2>1
<1>2. PICK u \in U : \A v \in U : u <= v
  <2> HIDE DEF U
  <2> QED BY <1>1, NatMin
<1>3. PICK x \in T : u = n - x
  OBVIOUS
<1>4. ASSUME NEW y \in T
      PROVE  y <= x
  <2>1. n - y \in U
    OBVIOUS
  <2>2. n - x <= n - y
    <3> HIDE DEF U
    <3> QED BY <1>2, <1>3, <2>1
  <2> QED
    BY <2>2
<1> QED
  BY <1>4

-----------------------------------------------------------------------------
(* The inductive invariant.                                                *)

Pieces == Records \cup {Torn, Newline}

\* The expiries of the records grow with their place in the file, and none is
\* further off than a ban that starts now.
InOrder(f) ==
    /\ \A i, j \in DOMAIN f : i < j /\ f[i] \in Records /\ f[j] \in Records
          => f[i][3] <= f[j][3]
    /\ \A i \in DOMAIN f : f[i] \in Records => f[i][3] <= now + BanDuration

\* The records that a load reads and does not find expired.
Fresh(f) == {f[i] : i \in Unexpired(f)}

\* What compaction writes: every record is on a line of its own.
IsLines(f) ==
    /\ Len(f) # 0 => f[Len(f)] = Newline
    /\ \A i \in DOMAIN f : f[i] \in Records => Parses(f, i)

FileInv ==
    /\ file \in Seq(Pieces)
    /\ InOrder(file)
    /\ synced \in 0..Len(file)

TmpInv ==
    pc = "rename" =>
        /\ tmp \in Seq(Pieces)
        /\ InOrder(tmp)
        /\ IsLines(tmp)
        /\ Fresh(tmp) = Fresh(file)

\* The append in progress writes a ban that is in memory, later than any in the
\* file; what it wrote so far is the end of the file.
AppendInv ==
    /\ append \in [next : {"none", "record", "newline", "sync", "failed"},
                   record : Records \cup {Torn}]
    /\ append.next # "none" => pc = "up"
    /\ append.next \in {"record", "newline", "sync"} =>
          /\ append.record \in Records
          /\ append.record[3] <= now + BanDuration
          /\ append.record[3] <= memory[append.record[2]]
    /\ append.next = "record" =>
          \A i \in DOMAIN file : file[i] \in Records => file[i][3] <= append.record[3]
    /\ append.next = "newline" =>
          Len(file) >= 1 /\ file[Len(file)] = append.record
    /\ append.next = "sync" =>
          /\ Len(file) >= 2
          /\ file[Len(file) - 1] = append.record
          /\ file[Len(file)] = Newline

\* The last append of c that returned Ok is a line of its own, and on disk.
IsSafe(c) ==
    \E i \in 1..(synced - 1) :
        /\ file[i] = Record(c, acked[c])
        /\ i = 1 \/ file[i - 1] = Newline
        /\ file[i + 1] = Newline

Unsafe == {c \in Coins : now < acked[c] /\ ~ IsSafe(c)}

\* Where the record of the append in progress is, once it is written.
RecordPlace == IF append.next = "newline" THEN Len(file) ELSE Len(file) - 1

\* The next record is to join a partial line, or the one in progress has.
Exposed ==
    IF append.next \in {"newline", "sync"}
    THEN RecordPlace # 1 /\ file[RecordPlace - 1] # Newline
    ELSE Len(file) # 0 /\ file[Len(file)] # Newline

\* An interrupt leaves a partial line, which one ban joins: every interrupt has
\* cost one ban, or is about to.
LossInv == Cardinality(Unsafe) + (IF Exposed THEN 1 ELSE 0) <= interrupts

-----------------------------------------------------------------------------
(* Pieces.                                                                 *)

LEMMA RecordParts ==
    ASSUME NEW r \in Records
    PROVE  /\ r[2] \in Coins
           /\ r[3] \in Nat /\ 1 <= r[3] /\ r[3] <= MaxClock + BanDuration
           /\ r = Record(r[2], r[3])
  BY BanFileAssumption DEF Records, Record

LEMMA PiecesDiffer ==
    Newline \notin Records /\ Torn \notin Records /\ Newline # Torn
  BY DEF Newline, Torn, Records, Record

LEMMA RecordsAreTheirParts ==
    /\ \A c, e : Record(c, e)[2] = c /\ Record(c, e)[3] = e
    /\ \A c \in Coins, e \in Nat :
          1 <= e /\ e <= MaxClock + BanDuration => Record(c, e) \in Records
  BY BanFileAssumption DEF Records, Record

-----------------------------------------------------------------------------
(* What a load reads.                                                      *)

\* A coin's entry is the latest of its records that are read, and not expired.
LEMMA LoadedIsLatest ==
    ASSUME NEW f \in Seq(Pieces), InOrder(f), NEW c \in Coins
    PROVE  /\ \A r \in Fresh(f) : r[2] = c => r[3] <= Loaded(f)[c]
           /\ \/ Loaded(f)[c] = 0 /\ \A r \in Fresh(f) : r[2] # c
              \/ \E r \in Fresh(f) : r[2] = c /\ r[3] = Loaded(f)[c]
<1> DEFINE of == {i \in Unexpired(f) : f[i][2] = c}
           last == CHOOSE i \in of : \A j \in of : j <= i
<1>1. CASE of = {}
  <2>1. Loaded(f)[c] = 0
    BY <1>1 DEF Loaded
  <2>2. \A r \in Fresh(f) : r[2] # c
    BY <1>1 DEF Fresh
  <2> QED
    BY <2>1, <2>2
<1>2. CASE of # {}
  <2>1. of \in SUBSET (1..Len(f)) /\ Len(f) \in Nat
    BY DEF Unexpired
  <2>2. \E i \in of : \A j \in of : j <= i
    <3> HIDE DEF of
    <3> QED BY <2>1, <1>2, GreatestPlace
  <2>3. last \in of /\ \A j \in of : j <= last
    <3> HIDE DEF of
    <3> QED BY <2>2
  <2>4. Loaded(f)[c] = f[last][3]
    BY <1>2 DEF Loaded
  <2>5. \A i \in of : i \in DOMAIN f /\ i \in 1..Len(f) /\ f[i] \in Records
    BY DEF Unexpired, Parses
  <2> HIDE DEF last
  <2>6. ASSUME NEW r \in Fresh(f), r[2] = c
        PROVE  r[3] <= f[last][3]
    <3>1. PICK i \in of : r = f[i]
      BY <2>6 DEF Fresh
    <3>2. i <= last /\ i \in Nat /\ last \in Nat
      BY <2>1, <2>3
    <3>3. CASE i = last
      BY <3>1, <3>3, <2>5, RecordParts
    <3>4. CASE i < last
      <4> HIDE DEF of
      <4> QED BY <3>1, <3>4, <2>3, <2>5 DEF InOrder
    <3> QED
      BY <3>2, <3>3, <3>4
  <2>7. f[last] \in Fresh(f) /\ f[last][2] = c
    BY <2>3 DEF Fresh
  <2> QED
    BY <2>4, <2>6, <2>7
<1> QED
  BY <1>1, <1>2

\* Two files with the same unexpired records are loaded alike.
LEMMA LoadedDependsOnFresh ==
    ASSUME NEW f \in Seq(Pieces), InOrder(f), NEW g \in Seq(Pieces), InOrder(g),
           Fresh(f) = Fresh(g)
    PROVE  Loaded(f) = Loaded(g)
<1>1. \A r \in Fresh(f) : r[3] \in Nat /\ 1 <= r[3]
  BY RecordParts DEF Fresh, Unexpired, Parses
<1>2. ASSUME NEW c \in Coins
      PROVE  Loaded(f)[c] = Loaded(g)[c]
  <2>1. CASE \A r \in Fresh(f) : r[2] # c
    BY <2>1, LoadedIsLatest
  <2>2. CASE \E r \in Fresh(f) : r[2] = c
    <3>1. PICK r \in Fresh(f) : r[2] = c /\ r[3] = Loaded(f)[c]
      BY <2>2, LoadedIsLatest
    <3>2. PICK s \in Fresh(g) : s[2] = c /\ s[3] = Loaded(g)[c]
      BY <2>2, LoadedIsLatest
    <3>3. r[3] <= Loaded(g)[c] /\ s[3] <= Loaded(f)[c]
      BY <3>1, <3>2, LoadedIsLatest
    <3> QED
      BY <3>1, <3>2, <3>3, <1>1
  <2> QED
    BY <2>1, <2>2
<1>3. Loaded(f) = [c \in Coins |-> Loaded(f)[c]]
  BY DEF Loaded
<1>4. Loaded(g) = [c \in Coins |-> Loaded(g)[c]]
  BY DEF Loaded
<1> HIDE DEF Loaded
<1> QED
  BY <1>2, <1>3, <1>4

LEMMA LoadedTyped ==
    ASSUME NEW f \in Seq(Pieces), InOrder(f)
    PROVE  Loaded(f) \in [Coins -> Nat]
<1>1. \A r \in Fresh(f) : r[3] \in Nat
  BY RecordParts DEF Fresh, Unexpired, Parses
<1>2. \A c \in Coins : Loaded(f)[c] \in Nat
  BY <1>1, LoadedIsLatest
<1>3. Loaded(f) = [c \in Coins |-> Loaded(f)[c]]
  BY DEF Loaded
<1> QED
  BY <1>2, <1>3

-----------------------------------------------------------------------------
(* Compaction.  Kept recurses over the places of the file; its equation has *)
(* a solution, and every value is a sequence of lines.                      *)

KeptStep(f, g, n) ==
    IF n = 0 THEN <<>>
    ELSE IF n \in Unexpired(f)
         THEN g[n - 1] \o <<f[n], Newline>>
         ELSE g[n - 1]

LEMMA KeptExists ==
    ASSUME NEW f, NEW len \in Nat
    PROVE  \E g : g = [n \in 0..len |-> KeptStep(f, g, n)]
<1> DEFINE Solved(m) == \E g : g = [n \in 0..m |-> KeptStep(f, g, n)]
           Bad == {m \in Nat : ~ Solved(m)}
<1>1. Solved(0)
  <2> DEFINE g == [n \in 0..0 |-> <<>>]
  <2>1. g = [n \in 0..0 |-> KeptStep(f, g, n)]
    BY DEF KeptStep
  <2> QED
    BY <2>1
<1>2. ASSUME NEW m \in Nat, Solved(m)
      PROVE  Solved(m + 1)
  <2>1. PICK g : g = [n \in 0..m |-> KeptStep(f, g, n)]
    BY <1>2
  <2> DEFINE h == [n \in 0..(m + 1) |-> IF n = m + 1 THEN KeptStep(f, g, n) ELSE g[n]]
  <2>2. \A n \in 0..m : h[n] = g[n]
    OBVIOUS
  <2>3. ASSUME NEW n \in 0..(m + 1)
        PROVE  KeptStep(h, h, n) = KeptStep(h, g, n) /\ KeptStep(f, h, n) = KeptStep(f, g, n)
    <3>1. CASE n = 0
      BY <3>1 DEF KeptStep
    <3>2. CASE n # 0
      <4>1. n - 1 \in 0..m
        BY <3>2
      <4>2. h[n - 1] = g[n - 1]
        <5> HIDE DEF h
        <5> QED BY <4>1, <2>2
      <4> QED
        BY <4>2 DEF KeptStep
    <3> QED
      BY <3>1, <3>2
  <2>4. \A n \in 0..m : g[n] = KeptStep(f, g, n)
    BY <2>1
  <2>5. h = [n \in 0..(m + 1) |-> KeptStep(f, g, n)]
    BY <2>4
  <2>6. h = [n \in 0..(m + 1) |-> KeptStep(f, h, n)]
    <3> HIDE DEF h
    <3> QED BY <2>3, <2>5
  <2> QED
    <3> HIDE DEF h
    <3> QED BY <2>6
<1>3. Solved(len)
  <2> SUFFICES ASSUME ~ Solved(len)
               PROVE  FALSE
    OBVIOUS
  <2>1. Bad # {} /\ Bad \in SUBSET Nat
    OBVIOUS
  <2>2. PICK m \in Bad : \A k \in Bad : m <= k
    <3> HIDE DEF Bad
    <3> QED BY <2>1, NatMin
  <2> HIDE DEF Solved
  <2>3. m \in Nat /\ m # 0
    BY <1>1, <2>2
  <2>4. m - 1 \in Nat /\ ~ (m <= m - 1) /\ (m - 1) + 1 = m
    BY <2>3
  <2>5. Solved(m - 1)
    BY <2>2, <2>4
  <2> QED
    BY <1>2, <2>2, <2>4, <2>5
<1> QED
  BY <1>3

\* A record on a line of its own leaves the others as they were.
LEMMA LineAdded ==
    ASSUME NEW s \in Seq(Pieces), IsLines(s), InOrder(s), NEW r \in Records,
           r[3] <= now + BanDuration,
           \A i \in DOMAIN s : s[i] \in Records => s[i][3] <= r[3]
    PROVE  LET t == s \o <<r, Newline>>
           IN  /\ t \in Seq(Pieces) /\ IsLines(t) /\ InOrder(t)
               /\ Len(t) = Len(s) + 2
               /\ t[Len(s) + 1] = r /\ t[Len(s) + 2] = Newline
               /\ \A i \in DOMAIN s : i \in DOMAIN t /\ t[i] = s[i]
<1> DEFINE t == s \o <<r, Newline>>
           n == Len(s)
<1>1. /\ t \in Seq(Pieces) /\ Len(t) = n + 2 /\ n \in Nat
      /\ t[n + 1] = r /\ t[n + 2] = Newline
      /\ \A i \in 1..n : t[i] = s[i]
      /\ DOMAIN t = 1..(n + 2) /\ DOMAIN s = 1..n
  <2>1. <<r, Newline>> \in Seq(Pieces) /\ Len(<<r, Newline>>) = 2
    BY DEF Pieces
  <2> QED
    BY <2>1
<1> HIDE DEF t
<1>2. IsLines(t)
  <2>1. ASSUME NEW i \in DOMAIN t, t[i] \in Records
        PROVE  Parses(t, i)
    <3>1. CASE i \in 1..n
      <4>1. Parses(s, i) /\ i # n
        BY <3>1, <1>1, <2>1, PiecesDiffer DEF IsLines
      <4> QED
        BY <3>1, <4>1, <1>1 DEF Parses
    <3>2. CASE i = n + 1
      <4>1. i = 1 \/ t[i - 1] = Newline
        BY <3>2, <1>1 DEF IsLines
      <4> QED
        BY <3>2, <4>1, <1>1, <2>1 DEF Parses
    <3>3. CASE i = n + 2
      BY <3>3, <1>1, <2>1, PiecesDiffer
    <3> QED
      BY <3>1, <3>2, <3>3, <1>1
  <2> QED
    BY <2>1, <1>1 DEF IsLines
<1>3. InOrder(t)
  <2>1. ASSUME NEW i \in DOMAIN t, t[i] \in Records
        PROVE  i = n + 1 \/ i \in 1..n
    BY <2>1, <1>1, PiecesDiffer
  <2>2. ASSUME NEW i \in DOMAIN t, NEW j \in DOMAIN t, i < j,
               t[i] \in Records, t[j] \in Records
        PROVE  t[i][3] <= t[j][3]
    <3>1. i \in 1..n
      BY <2>1, <2>2, <1>1
    <3>2. CASE j \in 1..n
      BY <2>2, <3>1, <3>2, <1>1 DEF InOrder
    <3>3. CASE j = n + 1
      BY <2>2, <3>1, <3>3, <1>1
    <3> QED
      BY <2>1, <2>2, <3>2, <3>3
  <2>3. ASSUME NEW i \in DOMAIN t, t[i] \in Records
        PROVE  t[i][3] <= now + BanDuration
    <3>1. CASE i = n + 1
      BY <3>1, <1>1
    <3>2. CASE i \in 1..n
      BY <3>2, <2>3, <1>1 DEF InOrder
    <3> QED
      BY <2>1, <2>3, <3>1, <3>2
  <2> QED
    BY <2>2, <2>3 DEF InOrder
<1>4. \A i \in DOMAIN s : i \in DOMAIN t /\ t[i] = s[i]
  BY <1>1
<1> QED
  BY <1>1, <1>2, <1>3, <1>4 DEF t

\* Kept(f) is a file of lines, with the records of f that are read and unexpired.
LEMMA KeptKeeps ==
    ASSUME NEW f \in Seq(Pieces), InOrder(f)
    PROVE  /\ Kept(f) \in Seq(Pieces)
           /\ InOrder(Kept(f))
           /\ IsLines(Kept(f))
           /\ Fresh(Kept(f)) = Fresh(f)
<1> DEFINE len == Len(f)
           kept == CHOOSE kept : kept = [n \in 0..len |-> KeptStep(f, kept, n)]
           From(n) == {f[j] : j \in {k \in Unexpired(f) : k <= n}}
           Recs(s) == {s[i] : i \in {k \in DOMAIN s : s[k] \in Records}}
           Holds(n) == /\ kept[n] \in Seq(Pieces)
                       /\ InOrder(kept[n])
                       /\ IsLines(kept[n])
                       /\ Recs(kept[n]) = From(n)
           Bad == {n \in 0..len : ~ Holds(n)}
<1>1. len \in Nat /\ DOMAIN f = 1..len
  OBVIOUS
<1>2. Kept(f) = kept[len]
  BY Zenon DEF Kept, KeptStep
<1>3. kept = [n \in 0..len |-> KeptStep(f, kept, n)]
  <2>1. \E g : g = [n \in 0..len |-> KeptStep(f, g, n)]
    BY <1>1, KeptExists
  <2> QED
    BY <2>1, Zenon
<1> HIDE DEF kept
<1>4. \A j \in Unexpired(f) : j \in 1..len /\ f[j] \in Records
  BY DEF Unexpired, Parses
<1>5. Holds(0)
  <2>1. kept[0] = <<>>
    BY <1>1, <1>3 DEF KeptStep
  <2>2. From(0) = {}
    BY <1>1, <1>4
  <2>3. <<>> \in Seq(Pieces) /\ InOrder(<<>>) /\ IsLines(<<>>) /\ Recs(<<>>) = {}
    BY DEF InOrder, IsLines
  <2> QED
    BY <2>1, <2>2, <2>3
<1>6. ASSUME NEW n \in 1..len, Holds(n - 1)
      PROVE  Holds(n)
  <2> DEFINE s == kept[n - 1]
  <2>1. kept[n] = KeptStep(f, kept, n) /\ n # 0 /\ n \in Nat
    BY <1>1, <1>3
  <2>2. CASE n \notin Unexpired(f)
    <3>1. kept[n] = kept[n - 1]
      BY <2>1, <2>2 DEF KeptStep
    <3>2. From(n) = From(n - 1)
      BY <2>1, <2>2, <1>4
    <3> QED
      BY <3>1, <3>2, <1>6
  <2>3. CASE n \in Unexpired(f)
    <3> DEFINE t == s \o <<f[n], Newline>>
    <3>1. kept[n] = t
      BY <2>1, <2>3 DEF KeptStep
    <3>2. f[n] \in Records /\ f[n][3] <= now + BanDuration
      BY <2>3, <1>1, <1>4 DEF InOrder
    <3>3. s \in Seq(Pieces) /\ InOrder(s) /\ IsLines(s) /\ Recs(s) = From(n - 1)
      BY <1>6
    <3>4. ASSUME NEW i \in DOMAIN s, s[i] \in Records
          PROVE  s[i][3] <= f[n][3]
      <4>1. s[i] \in From(n - 1)
        BY <3>3, <3>4
      <4>2. PICK j \in Unexpired(f) : j <= n - 1 /\ s[i] = f[j]
        BY <4>1
      <4>3. j \in DOMAIN f /\ n \in DOMAIN f /\ j < n
        BY <4>2, <2>1, <1>1, <1>4
      <4> QED
        BY <4>2, <4>3, <3>2, <3>4 DEF InOrder
    <3> HIDE DEF s
    <3>5. /\ t \in Seq(Pieces) /\ IsLines(t) /\ InOrder(t)
          /\ Len(t) = Len(s) + 2
          /\ t[Len(s) + 1] = f[n] /\ t[Len(s) + 2] = Newline
          /\ \A i \in DOMAIN s : i \in DOMAIN t /\ t[i] = s[i]
      BY <3>2, <3>3, <3>4, LineAdded
    <3> HIDE DEF t
    <3>6. DOMAIN t = 1..(Len(s) + 2) /\ DOMAIN s = 1..Len(s) /\ Len(s) \in Nat
      BY <3>3, <3>5
    <3>7. Recs(t) = Recs(s) \cup {f[n]}
      <4>1. ASSUME NEW r \in Recs(t)
            PROVE  r \in Recs(s) \cup {f[n]}
        <5>1. PICK i \in DOMAIN t : r = t[i] /\ t[i] \in Records
          OBVIOUS
        <5>2. i \in DOMAIN s \/ i = Len(s) + 1
          BY <5>1, <3>5, <3>6, PiecesDiffer
        <5> QED
          BY <5>1, <5>2, <3>5
      <4>2. f[n] \in Recs(t)
        <5>1. Len(s) + 1 \in DOMAIN t
          BY <3>6
        <5> QED
          BY <5>1, <3>2, <3>5
      <4>3. ASSUME NEW r \in Recs(s)
            PROVE  r \in Recs(t)
        BY <3>5
      <4> QED
        BY <4>1, <4>2, <4>3
    <3>8. From(n) = From(n - 1) \cup {f[n]}
      <4>1. \A k \in Unexpired(f) : k <= n <=> k <= n - 1 \/ k = n
        BY <1>4, <2>1
      <4> QED
        BY <4>1, <2>3
    <3> HIDE DEF Recs, From
    <3> QED
      BY <3>1, <3>3, <3>5, <3>7, <3>8
  <2> QED
    BY <2>2, <2>3
<1>7. Holds(len)
  <2> SUFFICES ASSUME ~ Holds(len)
               PROVE  FALSE
    OBVIOUS
  <2> HIDE DEF Holds
  <2>1. Bad # {} /\ Bad \in SUBSET Nat
    BY <1>1
  <2>2. PICK m \in Bad : \A k \in Bad : m <= k
    <3> HIDE DEF Bad
    <3> QED BY <2>1, NatMin
  <2>3. m \in 1..len /\ m - 1 \in 0..len /\ ~ (m <= m - 1)
    BY <1>1, <1>5, <2>2
  <2>4. Holds(m - 1)
    BY <2>2, <2>3
  <2> QED
    BY <1>6, <2>2, <2>3, <2>4
<1>8. Fresh(kept[len]) = From(len)
  <2> DEFINE s == kept[len]
  <2>1. Recs(s) = From(len) /\ IsLines(s)
    BY <1>7
  <2>2. \A i \in DOMAIN s : i \in Unexpired(s) <=> s[i] \in Records /\ now < s[i][3]
    BY <2>1 DEF IsLines, Unexpired, Parses
  <2>3. \A r \in From(len) : now < r[3] /\ r \in Records
    BY <1>4 DEF Unexpired
  <2>4. \A i \in Unexpired(s) : i \in DOMAIN s
    BY DEF Unexpired
  <2> HIDE DEF s
  <2>5. Fresh(s) = {s[i] : i \in Unexpired(s)}
    BY DEF Fresh
  <2>6. ASSUME NEW r \in Fresh(s)
        PROVE  r \in From(len)
    BY <2>1, <2>2, <2>4, <2>5
  <2>7. ASSUME NEW r \in From(len)
        PROVE  r \in Fresh(s)
    <3>1. PICK i \in DOMAIN s : r = s[i] /\ s[i] \in Records
      BY <2>1
    <3> QED
      BY <3>1, <2>2, <2>3, <2>5
  <2> QED
    BY <2>6, <2>7 DEF s
<1>9. From(len) = Fresh(f)
  BY <1>1, <1>4 DEF Fresh
<1> QED
  BY <1>2, <1>7, <1>8, <1>9

-----------------------------------------------------------------------------
(* Appends, and what survives of them.                                     *)

\* A piece at the end adds no record to what is read but itself.
LEMMA PieceAppended ==
    ASSUME NEW f \in Seq(Pieces), InOrder(f), NEW p \in Pieces,
           p \in Records => /\ p[3] <= now + BanDuration
                            /\ \A i \in DOMAIN f : f[i] \in Records => f[i][3] <= p[3]
    PROVE  /\ Append(f, p) \in Seq(Pieces)
           /\ Len(Append(f, p)) = Len(f) + 1
           /\ Append(f, p)[Len(f) + 1] = p
           /\ \A i \in 1..Len(f) : Append(f, p)[i] = f[i]
           /\ InOrder(Append(f, p))
           /\ \A r \in Fresh(Append(f, p)) : r \in Fresh(f) \/ (r = p /\ p \in Records)
<1> DEFINE t == Append(f, p)
           n == Len(f)
<1>1. /\ t \in Seq(Pieces) /\ Len(t) = n + 1 /\ n \in Nat /\ t[n + 1] = p
      /\ \A i \in 1..n : t[i] = f[i]
      /\ DOMAIN t = 1..(n + 1) /\ DOMAIN f = 1..n
  OBVIOUS
<1> HIDE DEF t
<1>2. InOrder(t)
  <2>1. ASSUME NEW i \in DOMAIN t, NEW j \in DOMAIN t, i < j,
               t[i] \in Records, t[j] \in Records
        PROVE  t[i][3] <= t[j][3]
    <3>1. i \in 1..n
      BY <2>1, <1>1
    <3>2. CASE j \in 1..n
      BY <2>1, <3>1, <3>2, <1>1 DEF InOrder
    <3>3. CASE j = n + 1
      BY <2>1, <3>1, <3>3, <1>1
    <3> QED
      BY <3>2, <3>3, <1>1
  <2>2. ASSUME NEW i \in DOMAIN t, t[i] \in Records
        PROVE  t[i][3] <= now + BanDuration
    <3>1. CASE i = n + 1
      BY <2>2, <3>1, <1>1
    <3>2. CASE i \in 1..n
      BY <3>2, <2>2, <1>1 DEF InOrder
    <3> QED
      BY <3>1, <3>2, <1>1
  <2> QED
    BY <2>1, <2>2 DEF InOrder
<1>3. ASSUME NEW r \in Fresh(t)
      PROVE  r \in Fresh(f) \/ (r = p /\ p \in Records)
  <2>1. PICK i \in Unexpired(t) : r = t[i]
    BY DEF Fresh
  <2>2. i \in 1..(n + 1) /\ Parses(t, i) /\ now < t[i][3]
    BY <2>1, <1>1 DEF Unexpired
  <2>3. CASE i = n + 1
    BY <2>1, <2>2, <2>3, <1>1 DEF Parses
  <2>4. CASE i \in 1..n
    <3>1. Parses(f, i)
      <4>1. f[i] \in Records /\ (i = 1 \/ t[i - 1] = Newline)
        BY <2>2, <2>4, <1>1 DEF Parses
      <4>2. i = 1 \/ f[i - 1] = Newline
        BY <4>1, <2>4, <1>1
      <4>3. i = n \/ (i + 1 \in 1..n /\ t[i + 1] = Newline)
        <5>1. i # Len(t) /\ i \in Nat
          BY <2>4, <1>1
        <5>2. t[i + 1] = Newline
          BY <2>2, <5>1 DEF Parses
        <5>3. i = n \/ i + 1 \in 1..n
          <6> HIDE DEF n
          <6> QED BY <2>4, <1>1
        <5> QED
          BY <5>2, <5>3
      <4> QED
        BY <4>1, <4>2, <4>3, <1>1 DEF Parses
    <3>2. i \in Unexpired(f) /\ r = f[i]
      BY <2>1, <2>2, <2>4, <3>1, <1>1 DEF Unexpired
    <3> QED
      BY <3>2 DEF Fresh
  <2> QED
    BY <2>2, <2>3, <2>4
<1> QED
  BY <1>1, <1>2, <1>3 DEF t

LEMMA PrefixInOrder ==
    ASSUME NEW f \in Seq(Pieces), InOrder(f), NEW n \in 0..Len(f)
    PROVE  /\ SubSeq(f, 1, n) \in Seq(Pieces)
           /\ Len(SubSeq(f, 1, n)) = n
           /\ \A i \in 1..n : SubSeq(f, 1, n)[i] = f[i]
           /\ InOrder(SubSeq(f, 1, n))
<1> DEFINE t == SubSeq(f, 1, n)
<1>1. /\ t \in Seq(Pieces) /\ Len(t) = n /\ DOMAIN t = 1..n
      /\ \A i \in 1..n : t[i] = f[i] /\ i \in DOMAIN f
  OBVIOUS
<1> HIDE DEF t
<1>2. InOrder(t)
  BY <1>1 DEF InOrder
<1> QED
  BY <1>1, <1>2 DEF t

\* A step that takes no time reads the same of the same file.
LEMMA OnlyNowMatters ==
    ASSUME now' = now, NEW f
    PROVE  /\ InOrder(f) => InOrder(f)'
           /\ Fresh(f) = Fresh(f)'
           /\ Loaded(f) = Loaded(f)'
  BY DEF InOrder, Fresh, Unexpired, Loaded

-----------------------------------------------------------------------------
(* The file.                                                               *)

LEMMA FileNext ==
    ASSUME BanTypeOK, FileInv, TmpInv, AppendInv, [BanNext]_banVars
    PROVE  FileInv'
<1>1. ASSUME UNCHANGED <<now, file>>, synced' \in {synced, Len(file)}
      PROVE  FileInv'
  BY <1>1 DEF FileInv, InOrder
<1>2. CASE Tick
  <2>1. now' = now + 1 /\ now \in Nat /\ UNCHANGED <<file, synced>>
    BY <1>2 DEF Tick, BanTypeOK
  <2>2. InOrder(file)'
    <3>1. \A i \in DOMAIN file : file[i] \in Records =>
             file[i][3] \in Nat /\ file[i][3] <= now + BanDuration
      BY RecordParts DEF FileInv, InOrder
    <3> QED
      BY <2>1, <3>1, BanFileAssumption DEF FileInv, InOrder
  <2> QED
    BY <2>1, <2>2 DEF FileInv
<1>3. CASE CompactRename
  <2>1. pc = "rename" /\ file' = tmp /\ synced' = Len(tmp) /\ now' = now
    BY <1>3 DEF CompactRename
  <2>2. tmp \in Seq(Pieces) /\ InOrder(tmp)
    BY <2>1 DEF TmpInv
  <2> QED
    BY <2>1, <2>2 DEF FileInv, InOrder
<1>4. ASSUME NEW p \in Pieces, NEW next, Writes(p, next),
             p \in Records => p = append.record /\ append.next = "record"
      PROVE  FileInv'
  <2>1. file' = Append(file, p) /\ now' = now /\ synced' = synced
    BY <1>4 DEF Writes
  <2>2. InOrder(Append(file, p)) /\ Append(file, p) \in Seq(Pieces)
        /\ Len(Append(file, p)) = Len(file) + 1
    BY <1>4, PieceAppended DEF FileInv, AppendInv
  <2> QED
    BY <2>1, <2>2 DEF FileInv, InOrder
<1>5. CASE PowerLoss
  <2>1. PICK n \in synced..Len(file) :
           \/ file' = SubSeq(file, 1, n)
           \/ file' = Append(SubSeq(file, 1, n), Torn)
    BY <1>5 DEF PowerLoss
  <2>2. n \in 0..Len(file) /\ now' = now /\ synced' = Len(file')
    BY <1>5 DEF FileInv, PowerLoss, Restarted
  <2>3. SubSeq(file, 1, n) \in Seq(Pieces) /\ InOrder(SubSeq(file, 1, n))
    BY <2>2, PrefixInOrder DEF FileInv
  <2>4. Torn \in Pieces /\ Torn \notin Records
    BY PiecesDiffer DEF Pieces
  <2>5. /\ Append(SubSeq(file, 1, n), Torn) \in Seq(Pieces)
        /\ InOrder(Append(SubSeq(file, 1, n), Torn))
    BY <2>3, <2>4, PieceAppended
  <2>6. file' \in Seq(Pieces) /\ InOrder(file')
    BY <2>1, <2>3, <2>5
  <2> QED
    BY <2>2, <2>6 DEF FileInv, InOrder
<1>6. CASE WriteRecord
  <2>1. append.record \in Pieces /\ append.next = "record"
    BY <1>6 DEF WriteRecord, AppendInv, Pieces
  <2> QED
    BY <1>6, <2>1, <1>4 DEF WriteRecord
<1>7. CASE WriteNewline
  BY <1>7, <1>4, PiecesDiffer DEF WriteNewline, Pieces
<1>8. CASE AppendIsShort
  BY <1>8, <1>4, PiecesDiffer DEF AppendIsShort, Pieces
<1>9. CASE Load \/ CompactToTmp \/ CompactFails \/ (\E c \in Coins : Ban(c))
           \/ AppendFails \/ AppendGivesUp \/ Crash \/ Sync \/ UNCHANGED banVars
  BY <1>1, <1>9 DEF Load, CompactToTmp, CompactFails, Ban, AppendFails,
     AppendGivesUp, Crash, Restarted, Sync, banVars
<1> QED
  BY <1>2, <1>3, <1>5, <1>6, <1>7, <1>8, <1>9 DEF BanNext

-----------------------------------------------------------------------------
(* Compaction's file, the append in progress, and the list in memory.      *)

LEMMA TmpNext ==
    ASSUME BanTypeOK, FileInv, TmpInv, AppendInv, [BanNext]_banVars
    PROVE  TmpInv'
<1>1. ASSUME UNCHANGED <<now, file, tmp>>, pc' = "rename" => pc = "rename"
      PROVE  TmpInv'
  BY <1>1, OnlyNowMatters DEF TmpInv, IsLines
<1>2. CASE Tick
  <2>1. now' = now + 1 /\ now \in Nat /\ UNCHANGED <<file, pc, tmp>>
    BY <1>2 DEF Tick, BanTypeOK
  <2> SUFFICES ASSUME pc = "rename"
               PROVE  /\ tmp \in Seq(Pieces) /\ InOrder(tmp)' /\ IsLines(tmp)
                      /\ Fresh(tmp)' = Fresh(file)'
    BY <2>1 DEF TmpInv, IsLines
  <2>2. tmp \in Seq(Pieces) /\ InOrder(tmp) /\ IsLines(tmp) /\ Fresh(tmp) = Fresh(file)
    BY DEF TmpInv
  <2>3. ASSUME NEW f \in Seq(Pieces)
        PROVE  Fresh(f)' = {r \in Fresh(f) : now + 1 < r[3]}
    <3>1. \A i \in DOMAIN f : Parses(f, i) => f[i][3] \in Nat
      BY RecordParts DEF Parses
    <3>2. {i \in DOMAIN f : Parses(f, i) /\ now' < f[i][3]}
            = {i \in Unexpired(f) : now + 1 < f[i][3]}
      BY <2>1, <3>1 DEF Unexpired
    <3> QED
      BY <3>2 DEF Fresh, Unexpired
  <2>4. Fresh(tmp)' = Fresh(file)'
    BY <2>1, <2>2, <2>3 DEF FileInv
  <2>5. InOrder(tmp)'
    <3>1. \A i \in DOMAIN tmp : tmp[i] \in Records =>
             tmp[i][3] \in Nat /\ tmp[i][3] <= now + BanDuration
      BY <2>2, RecordParts DEF InOrder
    <3> QED
      BY <2>1, <2>2, <3>1, BanFileAssumption DEF InOrder
  <2> QED
    BY <2>2, <2>4, <2>5
<1>3. CASE CompactToTmp
  <2>1. tmp' = Kept(file) /\ UNCHANGED <<now, file>>
    BY <1>3 DEF CompactToTmp
  <2>2. /\ Kept(file) \in Seq(Pieces) /\ InOrder(Kept(file)) /\ IsLines(Kept(file))
        /\ Fresh(Kept(file)) = Fresh(file)
    BY KeptKeeps DEF FileInv
  <2>3. tmp' \in Seq(Pieces) /\ InOrder(tmp') /\ IsLines(tmp')
        /\ Fresh(tmp') = Fresh(file)
    BY <2>1, <2>2
  <2>4. InOrder(tmp)' /\ IsLines(tmp)' /\ Fresh(tmp)' = Fresh(file)'
    BY <2>1, <2>3 DEF InOrder, IsLines, Fresh, Unexpired
  <2> QED
    BY <2>3, <2>4 DEF TmpInv
<1>4. CASE Load \/ CompactFails \/ CompactRename \/ Crash \/ PowerLoss
  BY <1>4 DEF Load, CompactFails, CompactRename, Crash, PowerLoss, Restarted, TmpInv
<1>5. CASE WriteRecord \/ WriteNewline \/ AppendIsShort
  <2>1. pc = "up" /\ pc' = pc
    BY <1>5 DEF WriteRecord, WriteNewline, AppendIsShort, Writes, AppendInv
  <2> QED
    BY <2>1 DEF TmpInv
<1>6. CASE (\E c \in Coins : Ban(c)) \/ Sync \/ AppendFails \/ AppendGivesUp
           \/ UNCHANGED banVars
  BY <1>1, <1>6 DEF Ban, Sync, AppendFails, AppendGivesUp, banVars
<1> QED
  BY <1>2, <1>3, <1>4, <1>5, <1>6 DEF BanNext

LEMMA AppendNext ==
    ASSUME BanTypeOK, FileInv, AppendInv, [BanNext]_banVars
    PROVE  AppendInv'
<1>1. ASSUME UNCHANGED <<now, memory, file, append>>,
             append.next # "none" => pc' = "up"
      PROVE  AppendInv'
  BY <1>1 DEF AppendInv
<1>2. ASSUME append' = NoAppend
      PROVE  AppendInv'
  BY <1>2 DEF AppendInv, NoAppend
<1>3. CASE Tick
  <2>1. now' = now + 1 /\ now \in Nat /\ UNCHANGED <<pc, memory, file, append>>
    BY <1>3 DEF Tick, BanTypeOK
  <2>2. append.next \in {"record", "newline", "sync"}
          => append.record[3] <= now' + BanDuration
    BY <2>1, RecordParts, BanFileAssumption DEF AppendInv
  <2> QED
    BY <2>1, <2>2 DEF AppendInv
<1>4. ASSUME NEW c \in Coins, Ban(c)
      PROVE  AppendInv'
  <2> DEFINE r == Record(c, now + BanDuration)
  <2>1. /\ pc = "up" /\ pc' = pc /\ UNCHANGED <<now, file>>
        /\ memory' = [memory EXCEPT ![c] = now + BanDuration]
        /\ append' = [next |-> "record", record |-> r]
    BY <1>4 DEF Ban
  <2>2. now \in Nat /\ now <= MaxClock /\ memory \in [Coins -> Nat]
    BY BanFileAssumption DEF BanTypeOK
  <2>3. r \in Records /\ r[2] = c /\ r[3] = now + BanDuration
    BY <2>2, RecordsAreTheirParts, BanFileAssumption
  <2> HIDE DEF r
  <2>4. append'.next = "record" /\ append'.record = r
    BY <2>1
  <2>5. r[3] <= memory'[r[2]] /\ r[3] <= now' + BanDuration
    BY <2>1, <2>2, <2>3, BanFileAssumption
  <2>6. \A i \in DOMAIN file : file[i] \in Records => file[i][3] <= r[3]
    BY <2>3 DEF FileInv, InOrder
  <2> QED
    BY <2>1, <2>3, <2>4, <2>5, <2>6 DEF AppendInv
<1>5. ASSUME NEW p, NEW next \in {"newline", "sync", "failed"}, Writes(p, next),
             append.next # "none"
      PROVE  /\ UNCHANGED <<now, pc, memory>> /\ pc = "up"
             /\ append' = [next |-> next, record |-> append.record]
             /\ file' = Append(file, p)
  BY <1>5 DEF Writes, AppendInv
<1>6. CASE WriteRecord
  <2>1. append.next = "record" /\ Writes(append.record, "newline")
    BY <1>6 DEF WriteRecord
  <2>2. /\ UNCHANGED <<now, pc, memory>> /\ pc = "up"
        /\ append' = [next |-> "newline", record |-> append.record]
        /\ file' = Append(file, append.record)
    BY <2>1, <1>5
  <2>3. Len(file') >= 1 /\ file'[Len(file')] = append.record
    <3>1. append.record \in Pieces /\ file \in Seq(Pieces)
      BY <2>1 DEF AppendInv, FileInv, Pieces
    <3> QED
      BY <2>2, <3>1
  <2>4. append'.next = "newline" /\ append'.record = append.record
    BY <2>2
  <2> QED
    BY <2>1, <2>2, <2>3, <2>4 DEF AppendInv
<1>7. CASE WriteNewline
  <2>1. append.next = "newline" /\ Writes(Newline, "sync")
    BY <1>7 DEF WriteNewline
  <2>2. /\ UNCHANGED <<now, pc, memory>> /\ pc = "up"
        /\ append' = [next |-> "sync", record |-> append.record]
        /\ file' = Append(file, Newline)
    BY <2>1, <1>5
  <2>3. /\ Len(file') >= 2
        /\ file'[Len(file') - 1] = append.record
        /\ file'[Len(file')] = Newline
    <3>1. Newline \in Pieces /\ file \in Seq(Pieces) /\ Len(file) >= 1
          /\ file[Len(file)] = append.record
      BY <2>1 DEF AppendInv, FileInv, Pieces
    <3> QED
      BY <2>2, <3>1
  <2>4. append'.next = "sync" /\ append'.record = append.record
    BY <2>2
  <2> QED
    BY <2>1, <2>2, <2>3, <2>4 DEF AppendInv
<1>8. CASE AppendIsShort
  <2>1. append.next = "record" /\ Writes(Torn, "failed")
    BY <1>8 DEF AppendIsShort
  <2>2. /\ UNCHANGED <<now, pc, memory>> /\ pc = "up"
        /\ append' = [next |-> "failed", record |-> append.record]
    BY <2>1, <1>5
  <2> QED
    BY <2>1, <2>2 DEF AppendInv
<1>9. CASE Load \/ CompactToTmp \/ CompactFails \/ CompactRename
  <2>1. append.next = "none" /\ append' = append
    BY <1>9 DEF Load, CompactToTmp, CompactFails, CompactRename, AppendInv
  <2> QED
    BY <2>1 DEF AppendInv
<1>10. CASE Sync \/ AppendFails \/ AppendGivesUp \/ Crash \/ PowerLoss
  BY <1>2, <1>10 DEF Sync, AppendFails, AppendGivesUp, Crash, PowerLoss, Restarted
<1>11. CASE UNCHANGED banVars
  BY <1>1, <1>11 DEF banVars, AppendInv
<1> QED
  BY <1>3, <1>4, <1>6, <1>7, <1>8, <1>9, <1>10, <1>11 DEF BanNext

\* What is loaded from the file now, and from the file after a step.
LoadsLatest ==
    \A c \in Coins :
        /\ Loaded(file)[c] \in Nat
        /\ \A r \in Fresh(file) : r[2] = c => r[3] <= Loaded(file)[c]
        /\ \/ Loaded(file)[c] = 0 /\ \A r \in Fresh(file) : r[2] # c
           \/ \E r \in Fresh(file) : r[2] = c /\ r[3] = Loaded(file)[c]

LEMMA FileLoadsLatest == FileInv => LoadsLatest
  BY LoadedIsLatest, LoadedTyped DEF FileInv, LoadsLatest

LEMMA FileLoadsLatestNext == FileInv' => LoadsLatest'
  BY FileLoadsLatest, PTL

LEMMA FreshAreRecords ==
    ASSUME FileInv
    PROVE  \A r \in Fresh(file) : /\ r \in Records /\ r[2] \in Coins /\ r[3] \in Nat
                                  /\ now < r[3] /\ r[3] <= now + BanDuration
  BY RecordParts DEF FileInv, InOrder, Fresh, Unexpired, Parses

LEMMA TypeNext ==
    ASSUME BanTypeOK, FileInv, AppendInv, FileInv', AppendInv', [BanNext]_banVars
    PROVE  BanTypeOK'
<1>1. \A i \in DOMAIN file' : file'[i] \in Records \cup {Torn, Newline}
  BY DEF FileInv, Pieces
<1>2. synced' \in 0..Len(file')
  BY DEF FileInv
<1>3. append'.next \in {"none", "record", "newline", "sync", "failed"}
  BY DEF AppendInv
<1>4. now' \in 0..MaxClock
  BY BanFileAssumption DEF BanTypeOK, BanNext, banVars, Load, CompactToTmp,
     CompactFails, CompactRename, Ban, WriteRecord, WriteNewline, Writes, Sync,
     AppendFails, AppendIsShort, AppendGivesUp, Tick, Crash, PowerLoss, Restarted
<1>5. pc' \in {"load", "compact", "rename", "up"}
  BY DEF BanTypeOK, BanNext, banVars, Load, CompactToTmp,
     CompactFails, CompactRename, Ban, WriteRecord, WriteNewline, Writes, Sync,
     AppendFails, AppendIsShort, AppendGivesUp, Tick, Crash, PowerLoss, Restarted
<1>6. memory' \in [Coins -> Nat]
  <2>1. CASE Load
    BY <2>1, LoadedTyped DEF Load, FileInv
  <2>2. CASE \E c \in Coins : Ban(c)
    BY <2>2, BanFileAssumption DEF Ban, BanTypeOK
  <2>3. CASE Crash \/ PowerLoss
    BY <2>3 DEF Crash, PowerLoss, Restarted
  <2>4. CASE ~ (Load \/ (\E c \in Coins : Ban(c)) \/ Crash \/ PowerLoss)
    BY <2>4 DEF BanTypeOK, BanNext, banVars, CompactToTmp, CompactFails,
       CompactRename, WriteRecord, WriteNewline, Writes, Sync, AppendFails,
       AppendIsShort, AppendGivesUp, Tick
  <2> QED
    BY <2>1, <2>2, <2>3, <2>4
<1>7. acked' \in [Coins -> Nat]
  <2>1. CASE Sync
    <3>1. append.record[2] \in Coins /\ append.record[3] \in Nat
      BY <2>1, RecordParts DEF Sync, AppendInv
    <3> QED
      BY <2>1, <3>1 DEF Sync, BanTypeOK
  <2>2. CASE ~ Sync
    BY <2>2 DEF BanTypeOK, BanNext, banVars, Load, CompactToTmp,
       CompactFails, CompactRename, Ban, WriteRecord, WriteNewline, Writes,
       AppendFails, AppendIsShort, AppendGivesUp, Tick, Crash, PowerLoss, Restarted
  <2> QED
    BY <2>1, <2>2
<1>8. appends' \in 0..MaxAppends
  BY BanFileAssumption DEF BanTypeOK, BanNext, banVars, Load, CompactToTmp,
     CompactFails, CompactRename, Ban, WriteRecord, WriteNewline, Writes, Sync,
     AppendFails, AppendIsShort, AppendGivesUp, Tick, Crash, PowerLoss, Restarted
<1>9. interrupts' \in 0..MaxInterrupts
  BY BanFileAssumption DEF BanTypeOK, BanNext, banVars, Load, CompactToTmp,
     CompactFails, CompactRename, Ban, WriteRecord, WriteNewline, Writes, Sync,
     AppendFails, AppendIsShort, AppendGivesUp, Tick, Crash, PowerLoss, Restarted
<1> QED
  BY <1>1, <1>2, <1>3, <1>4, <1>5, <1>6, <1>7, <1>8, <1>9 DEF BanTypeOK

\* A piece that is written adds nothing to what is read but a ban in memory.
LEMMA MemoryNext ==
    ASSUME BanTypeOK, FileInv, TmpInv, AppendInv, FileBansAreInMemory,
           BanTypeOK', FileInv', [BanNext]_banVars
    PROVE  FileBansAreInMemory'
<1>1. ASSUME \A r \in Fresh(file)' : r[3] <= memory'[r[2]]
      PROVE  FileBansAreInMemory'
  <2>1. LoadsLatest' /\ memory' \in [Coins -> Nat]
    BY FileLoadsLatestNext DEF BanTypeOK
  <2>2. \A c \in Coins : Loaded(file)'[c] <= memory'[c]
    BY <1>1, <2>1 DEF LoadsLatest
  <2> QED
    BY <2>2 DEF FileBansAreInMemory
<1>2. pc # "load" => \A r \in Fresh(file) : r[3] <= memory[r[2]]
  <2>1. \A c \in Coins : Loaded(file)[c] \in Nat /\ memory[c] \in Nat
    BY FileLoadsLatest DEF LoadsLatest, BanTypeOK
  <2> QED
    BY <2>1, FileLoadsLatest, FreshAreRecords DEF LoadsLatest, FileBansAreInMemory
<1>3. ASSUME UNCHANGED <<now, file, memory>>, pc # "load"
      PROVE  FileBansAreInMemory'
  BY <1>1, <1>2, <1>3, OnlyNowMatters
<1>4. CASE Load
  <2>1. memory' = Loaded(file) /\ UNCHANGED <<now, file>>
    BY <1>4 DEF Load
  <2>2. \A r \in Fresh(file) : r[3] <= Loaded(file)[r[2]]
    BY FileLoadsLatest, FreshAreRecords DEF LoadsLatest
  <2> QED
    BY <1>1, <2>1, <2>2, OnlyNowMatters
<1>5. CASE CompactRename
  <2>1. pc = "rename" /\ file' = tmp /\ UNCHANGED <<now, memory>>
    BY <1>5 DEF CompactRename
  <2>2. Fresh(file)' = Fresh(file)
    <3>1. Fresh(tmp) = Fresh(file)
      BY <2>1 DEF TmpInv
    <3> QED
      BY <2>1, <3>1 DEF Fresh, Unexpired
  <2> QED
    BY <1>1, <1>2, <2>1, <2>2
<1>6. ASSUME NEW c \in Coins, Ban(c)
      PROVE  FileBansAreInMemory'
  <2>1. /\ pc = "up" /\ UNCHANGED <<now, file>>
        /\ memory' = [memory EXCEPT ![c] = now + BanDuration]
    BY <1>6 DEF Ban
  <2>2. \A r \in Fresh(file) : /\ r[2] \in Coins /\ r[3] <= memory[r[2]]
                               /\ r[3] <= now + BanDuration
    BY <1>2, <2>1, FreshAreRecords
  <2>3. \A d \in Coins : memory'[d] = IF d = c THEN now + BanDuration ELSE memory[d]
    BY <2>1 DEF BanTypeOK
  <2>4. \A r \in Fresh(file) : r[3] <= memory'[r[2]]
    BY <2>2, <2>3
  <2> QED
    BY <1>1, <2>1, <2>4, OnlyNowMatters
<1>7. ASSUME NEW p \in Pieces, NEW next, Writes(p, next), append.next # "none",
             p \in Records => p = append.record /\ append.next = "record"
      PROVE  FileBansAreInMemory'
  <2>1. file' = Append(file, p) /\ UNCHANGED <<now, memory, pc>> /\ pc = "up"
    BY <1>7 DEF Writes, AppendInv
  <2>2. \A r \in Fresh(Append(file, p)) : r \in Fresh(file) \/ (r = p /\ p \in Records)
    BY <1>7, PieceAppended DEF FileInv, AppendInv
  <2>3. \A r \in Fresh(Append(file, p)) : r[3] <= memory[r[2]]
    BY <1>2, <1>7, <2>1, <2>2 DEF AppendInv
  <2>4. Fresh(file)' = Fresh(Append(file, p))
    BY <2>1 DEF Fresh, Unexpired
  <2> QED
    BY <1>1, <2>1, <2>3, <2>4
<1>8. CASE WriteRecord
  BY <1>7, <1>8 DEF WriteRecord, AppendInv, Pieces
<1>9. CASE WriteNewline
  BY <1>7, <1>9, PiecesDiffer DEF WriteNewline, Pieces
<1>10. CASE AppendIsShort
  BY <1>7, <1>10, PiecesDiffer DEF AppendIsShort, Pieces
<1>11. CASE Tick
  <2>1. now' = now + 1 /\ now \in Nat /\ UNCHANGED <<pc, memory, file>>
    BY <1>11 DEF Tick, BanTypeOK
  <2>2. \A r \in Fresh(file)' : r \in Fresh(file)
    <3>1. \A i \in DOMAIN file : Parses(file, i) => file[i][3] \in Nat
      BY RecordParts DEF Parses
    <3>2. \A i \in DOMAIN file : Parses(file, i) /\ now' < file[i][3]
                                   => i \in Unexpired(file)
      BY <2>1, <3>1 DEF Unexpired
    <3> QED
      BY <2>1, <3>2 DEF Fresh, Unexpired
  <2>3. CASE pc = "load"
    BY <2>1, <2>3 DEF FileBansAreInMemory
  <2>4. CASE pc # "load"
    BY <1>1, <1>2, <2>1, <2>2, <2>4
  <2> QED
    BY <2>3, <2>4
<1>12. CASE Crash \/ PowerLoss
  BY <1>12 DEF Crash, PowerLoss, Restarted, FileBansAreInMemory
<1>13. CASE CompactToTmp \/ CompactFails
  BY <1>3, <1>13 DEF CompactToTmp, CompactFails
<1>14. CASE Sync \/ AppendFails \/ AppendGivesUp
  BY <1>3, <1>14 DEF Sync, AppendFails, AppendGivesUp, AppendInv
<1>15. CASE UNCHANGED banVars
  <2>1. UNCHANGED <<now, file, memory, pc>>
    BY <1>15 DEF banVars
  <2>2. CASE pc = "load"
    BY <2>1, <2>2 DEF FileBansAreInMemory
  <2> QED
    BY <1>3, <2>1, <2>2
<1> QED
  BY <1>4, <1>5, <1>6, <1>8, <1>9, <1>10, <1>11, <1>12, <1>13, <1>14, <1>15
  DEF BanNext

-----------------------------------------------------------------------------
(* What interrupted appends cost.                                          *)

\* Only a cut-short append exposes a record, and only an exposed one is lost.
LEMMA LossNext ==
    ASSUME BanTypeOK, FileInv, TmpInv, AppendInv, LossInv, FileInv', BanTypeOK',
           [BanNext]_banVars
    PROVE  LossInv'
<1>1. /\ Cardinality(Unsafe) \in Nat /\ Cardinality(Unsafe') \in Nat
      /\ Unsafe' \subseteq Unsafe => Cardinality(Unsafe') <= Cardinality(Unsafe)
      /\ \A c : Unsafe' \subseteq Unsafe \cup {c}
                  => Cardinality(Unsafe') <= Cardinality(Unsafe) + 1
  <2>1. IsFiniteSet(Unsafe) /\ IsFiniteSet(Unsafe')
    <3>1. Unsafe \in SUBSET Coins /\ Unsafe' \in SUBSET Coins
      BY DEF Unsafe
    <3> QED
      BY <3>1, FS_Subset, BanFileAssumption
  <2>2. Cardinality(Unsafe) \in Nat /\ Cardinality(Unsafe') \in Nat
    BY <2>1, FS_CardinalityType
  <2>3. ASSUME NEW c
        PROVE  /\ IsFiniteSet(Unsafe \cup {c})
               /\ Cardinality(Unsafe \cup {c}) \in Nat
               /\ Cardinality(Unsafe \cup {c}) <= Cardinality(Unsafe) + 1
    <3>1. /\ IsFiniteSet(Unsafe \cup {c})
          /\ Cardinality(Unsafe \cup {c})
               = IF c \in Unsafe THEN Cardinality(Unsafe) ELSE Cardinality(Unsafe) + 1
      BY <2>1, FS_AddElement
    <3> QED
      BY <3>1, <2>2
  <2>4. Unsafe' \subseteq Unsafe => Cardinality(Unsafe') <= Cardinality(Unsafe)
    BY <2>1, FS_Subset
  <2>5. ASSUME NEW c, Unsafe' \subseteq Unsafe \cup {c}
        PROVE  Cardinality(Unsafe') <= Cardinality(Unsafe) + 1
    <3>1. Cardinality(Unsafe') <= Cardinality(Unsafe \cup {c})
      BY <2>3, <2>5, FS_Subset
    <3>2. Cardinality(Unsafe \cup {c}) <= Cardinality(Unsafe) + 1
          /\ Cardinality(Unsafe \cup {c}) \in Nat
      BY <2>3
    <3> QED
      BY <3>1, <3>2, <2>2
  <2> QED
    BY <2>2, <2>4, <2>5
<1>2. interrupts \in Nat /\ interrupts' \in Nat /\ now \in Nat
  BY BanFileAssumption DEF BanTypeOK
<1>3. ASSUME Unsafe' \subseteq Unsafe, interrupts' = interrupts, Exposed' => Exposed
      PROVE  LossInv'
  BY <1>1, <1>2, <1>3 DEF LossInv
<1>4. ASSUME Unsafe' \subseteq Unsafe, interrupts' = interrupts + 1
      PROVE  LossInv'
  BY <1>1, <1>2, <1>4 DEF LossInv
<1>5. ASSUME NEW c, Unsafe' \subseteq Unsafe \cup {c}, interrupts' = interrupts,
             Exposed, ~ Exposed'
      PROVE  LossInv'
  BY <1>1, <1>2, <1>5 DEF LossInv
\* Nothing that is on disk is lost.
<1>6. ASSUME synced <= synced', \A i \in 1..synced : file'[i] = file[i],
             acked' = acked, now' \in {now, now + 1}
      PROVE  Unsafe' \subseteq Unsafe
  <2>1. synced \in Nat /\ synced' \in Nat
    BY DEF FileInv
  <2>2. ASSUME NEW c \in Coins, IsSafe(c)
        PROVE  IsSafe(c)'
    <3>1. PICK i \in 1..(synced - 1) :
             /\ file[i] = Record(c, acked[c])
             /\ i = 1 \/ file[i - 1] = Newline
             /\ file[i + 1] = Newline
      BY <2>2 DEF IsSafe
    <3>2. i \in 1..synced /\ i + 1 \in 1..synced /\ i \in 1..(synced' - 1)
          /\ (i = 1 \/ i - 1 \in 1..synced)
      <4>1. i \in Int /\ 1 <= i /\ i <= synced - 1 /\ i <= synced' - 1
        BY <1>6, <2>1
      <4>2. i \in 1..synced /\ i + 1 \in 1..synced
        BY <4>1, <2>1
      <4>3. i \in 1..(synced' - 1)
        <5>1. \A m \in Nat : i <= m - 1 => i \in 1..(m - 1)
          BY <4>1
        <5> QED
          BY <5>1, <4>1, <2>1
      <4>4. i = 1 \/ i - 1 \in 1..synced
        BY <4>1, <2>1
      <4> QED
        BY <4>2, <4>3, <4>4
    <3>3. file'[i] = file[i] /\ file'[i + 1] = file[i + 1]
          /\ (i = 1 \/ file'[i - 1] = file[i - 1])
      BY <3>2, <1>6
    <3> QED
      BY <1>6, <3>1, <3>2, <3>3 DEF IsSafe
  <2>3. \A c \in Coins : acked[c] \in Nat
    BY DEF BanTypeOK
  <2> QED
    BY <1>2, <1>6, <2>2, <2>3 DEF Unsafe
<1>7. ASSUME UNCHANGED <<file, synced, acked>>, now' \in {now, now + 1}
      PROVE  Unsafe' \subseteq Unsafe
  BY <1>6, <1>7 DEF FileInv
\* Between appends nothing is exposed but what ends the file.
<1>8. ASSUME UNCHANGED <<file, synced, acked, now>>,
             append'.next \notin {"newline", "sync"},
             \/ append.next # "newline" /\ interrupts' = interrupts
             \/ interrupts' = interrupts + 1
      PROVE  LossInv'
  <2>1. Unsafe' \subseteq Unsafe
    BY <1>7, <1>8
  <2>2. CASE interrupts' = interrupts + 1
    BY <1>4, <2>1, <2>2
  <2>3. CASE append.next # "newline" /\ interrupts' = interrupts
    <3>1. Exposed' => Exposed
      BY <1>8, <2>3 DEF Exposed, AppendInv
    <3> QED
      BY <1>3, <2>1, <2>3, <3>1
  <2> QED
    BY <1>8, <2>2, <2>3
\* A piece at the end of the file changes nothing that is on disk.
<1>9. ASSUME NEW p \in Pieces, NEW next \in {"newline", "sync", "failed"},
             Writes(p, next)
      PROVE  /\ Unsafe' \subseteq Unsafe
             /\ Len(file') = Len(file) + 1 /\ Len(file) \in Nat
             /\ file'[Len(file) + 1] = p
             /\ \A i \in 1..Len(file) : file'[i] = file[i]
             /\ append'.next = next
  <2>1. file' = Append(file, p) /\ UNCHANGED <<now, synced, acked>>
        /\ append'.next = next
    BY <1>9 DEF Writes, AppendInv
  <2>2. /\ Len(file') = Len(file) + 1 /\ Len(file) \in Nat
        /\ file'[Len(file) + 1] = p
        /\ \A i \in 1..Len(file) : file'[i] = file[i]
    BY <2>1 DEF FileInv
  <2>3. \A i \in 1..synced : file'[i] = file[i]
    BY <2>2 DEF FileInv
  <2> QED
    BY <1>6, <2>1, <2>2, <2>3 DEF FileInv
<1>10. CASE WriteRecord
  <2>1. append.next = "record" /\ Writes(append.record, "newline")
        /\ append.record \in Pieces /\ interrupts' = interrupts
    BY <1>10 DEF WriteRecord, AppendInv, Pieces
  <2>2. /\ Unsafe' \subseteq Unsafe
        /\ Len(file') = Len(file) + 1 /\ Len(file) \in Nat
        /\ \A i \in 1..Len(file) : file'[i] = file[i]
        /\ append'.next = "newline"
    BY <2>1, <1>9
  <2>3. RecordPlace' = Len(file) + 1
    BY <2>2 DEF RecordPlace
  <2>4. ASSUME Exposed'
        PROVE  Exposed
    <3>1. Len(file) + 1 # 1 /\ file'[(Len(file) + 1) - 1] # Newline
      BY <2>2, <2>3, <2>4 DEF Exposed
    <3>2. Len(file) \in 1..Len(file) /\ (Len(file) + 1) - 1 = Len(file)
      BY <3>1, <2>2
    <3>3. file[Len(file)] # Newline
      BY <3>1, <3>2, <2>2
    <3> QED
      BY <2>1, <3>2, <3>3 DEF Exposed
  <2> QED
    BY <1>3, <2>1, <2>2, <2>4
<1>11. CASE WriteNewline
  <2>1. append.next = "newline" /\ Writes(Newline, "sync")
        /\ Newline \in Pieces /\ interrupts' = interrupts
    BY <1>11 DEF WriteNewline, Pieces
  <2>2. /\ Unsafe' \subseteq Unsafe
        /\ Len(file') = Len(file) + 1 /\ Len(file) \in Nat /\ Len(file) >= 1
        /\ \A i \in 1..Len(file) : file'[i] = file[i]
        /\ append'.next = "sync"
    BY <2>1, <1>9 DEF AppendInv
  <2>3. RecordPlace' = Len(file) /\ RecordPlace = Len(file)
    BY <2>1, <2>2 DEF RecordPlace
  <2>4. ASSUME Exposed'
        PROVE  Exposed
    <3>1. Len(file) # 1 /\ file'[Len(file) - 1] # Newline
      BY <2>2, <2>3, <2>4 DEF Exposed
    <3>2. Len(file) - 1 \in 1..Len(file)
      BY <3>1, <2>2
    <3> QED
      BY <2>1, <2>2, <2>3, <3>1, <3>2 DEF Exposed
  <2> QED
    BY <1>3, <2>1, <2>2, <2>4
<1>12. CASE AppendIsShort
  <2>1. Writes(Torn, "failed") /\ Torn \in Pieces /\ interrupts' = interrupts + 1
    BY <1>12 DEF AppendIsShort, Pieces
  <2> QED
    BY <1>4, <1>9, <2>1
<1>13. CASE Sync
  <2>0. append.next = "sync" /\ append.record \in Records
    BY <1>13 DEF Sync, AppendInv
  <2>3. PICK c \in Coins, n \in Nat :
           n = Len(file) /\ append.record = Record(c, append.record[3])
             /\ c = append.record[2]
    BY <2>0, RecordParts DEF FileInv
  <2>1. /\ append.next = "sync" /\ synced' = n /\ append' = NoAppend
        /\ acked' = [acked EXCEPT ![c] = append.record[3]]
        /\ UNCHANGED <<now, file, interrupts>>
    BY <1>13, <2>3 DEF Sync
  <2>2. /\ append.record \in Records /\ n >= 2 /\ n \in Nat
        /\ file[n - 1] = append.record /\ file[n] = Newline
    BY <2>0, <2>3 DEF AppendInv
  <2>4. ~ Exposed'
    BY <2>1, <2>2, <2>3 DEF Exposed, NoAppend
  <2>5. acked'[c] = append.record[3] /\ \A d \in Coins : d # c => acked'[d] = acked[d]
    BY <2>1, <2>3 DEF BanTypeOK
  <2>6. synced <= n /\ synced \in Nat
    BY <2>3 DEF FileInv
  <2>7. ASSUME NEW d \in Coins, d # c, IsSafe(d)
        PROVE  IsSafe(d)'
    <3>1. PICK i \in 1..(synced - 1) :
             /\ file[i] = Record(d, acked[d])
             /\ i = 1 \/ file[i - 1] = Newline
             /\ file[i + 1] = Newline
      BY <2>7 DEF IsSafe
    <3>2. i \in 1..(synced' - 1)
      BY <2>1, <2>2, <2>6
    <3> QED
      BY <2>1, <2>5, <2>7, <3>1, <3>2 DEF IsSafe
  <2>8. Unsafe' \subseteq Unsafe \cup {c}
    BY <2>1, <2>5, <2>7 DEF Unsafe
  <2>9. CASE Exposed
    BY <1>5, <2>1, <2>4, <2>8, <2>9
  <2>10. CASE ~ Exposed
    <3>1. n - 1 = 1 \/ file[(n - 1) - 1] = Newline
      BY <2>1, <2>3, <2>10 DEF Exposed, RecordPlace
    <3>2. n - 1 \in 1..(synced' - 1) /\ (n - 1) + 1 = n
      BY <2>1, <2>2
    <3>3. IsSafe(c)'
      BY <2>1, <2>2, <2>3, <2>5, <3>1, <3>2 DEF IsSafe
    <3>4. Unsafe' \subseteq Unsafe
      BY <2>8, <3>3 DEF Unsafe
    <3> QED
      BY <1>3, <2>1, <2>4, <3>4
  <2> QED
    BY <2>9, <2>10
<1>14. CASE CompactRename
  <2> DEFINE n == Len(tmp)
  <2>1. /\ pc = "rename" /\ file' = tmp /\ synced' = n
        /\ UNCHANGED <<now, append, acked, interrupts>>
    BY <1>14 DEF CompactRename
  <2>2. /\ tmp \in Seq(Pieces) /\ IsLines(tmp) /\ Fresh(tmp) = Fresh(file)
        /\ append.next = "none" /\ n \in Nat
    BY <2>1 DEF TmpInv, AppendInv
  <2>3. ~ Exposed'
    BY <2>1, <2>2 DEF Exposed, IsLines
  <2>4. ASSUME NEW c \in Coins, now < acked[c], IsSafe(c)
        PROVE  IsSafe(c)'
    <3> DEFINE r == Record(c, acked[c])
    <3>1. PICK i \in 1..(synced - 1) :
             /\ file[i] = r
             /\ i = 1 \/ file[i - 1] = Newline
             /\ file[i + 1] = Newline
      BY <2>4 DEF IsSafe
    <3>2. i \in DOMAIN file
      BY DEF FileInv
    <3>3. r # Newline /\ r # Torn
      BY DEF Record, Newline, Torn
    <3>4. r \in Records
      BY <3>1, <3>2, <3>3 DEF FileInv, Pieces
    <3>5. r[3] = acked[c]
      BY RecordsAreTheirParts
    <3> HIDE DEF r
    <3>6. i \in Unexpired(file)
      BY <2>4, <3>1, <3>2, <3>4, <3>5 DEF Unexpired, Parses
    <3>7. r \in Fresh(tmp)
      BY <2>2, <3>1, <3>6 DEF Fresh
    <3>8. PICK j \in Unexpired(tmp) : tmp[j] = r
      BY <3>7 DEF Fresh
    <3>9. j \in 1..n /\ Parses(tmp, j)
      BY <2>2, <3>8 DEF Unexpired
    <3>10. j # n
      BY <2>2, <3>3, <3>8, <3>9 DEF IsLines, r
    <3>11. j \in 1..(n - 1)
      <4> HIDE DEF n
      <4> QED BY <2>2, <3>9, <3>10
    <3>12. (j = 1 \/ tmp[j - 1] = Newline) /\ tmp[j + 1] = Newline
      BY <3>9, <3>10 DEF Parses
    <3> QED
      BY <2>1, <3>8, <3>11, <3>12 DEF IsSafe, r
  <2>5. Unsafe' \subseteq Unsafe
    BY <2>1, <2>4 DEF Unsafe
  <2> QED
    BY <1>3, <2>1, <2>3, <2>5
<1>15. CASE PowerLoss
  <2>1. PICK n \in synced..Len(file) :
           \/ file' = SubSeq(file, 1, n)
           \/ file' = Append(SubSeq(file, 1, n), Torn)
    BY <1>15 DEF PowerLoss
  <2>2. /\ n \in 0..Len(file) /\ synced <= n /\ synced \in Nat
        /\ UNCHANGED <<now, acked>>
        /\ synced' = Len(file') /\ interrupts' = interrupts + 1
    BY <1>15 DEF FileInv, PowerLoss, Restarted
  <2> DEFINE g == SubSeq(file, 1, n)
  <2>3. g \in Seq(Pieces) /\ Len(g) = n /\ \A i \in 1..n : g[i] = file[i]
    BY <2>2, PrefixInOrder DEF FileInv
  <2> HIDE DEF g
  <2>4. /\ n <= Len(file') /\ \A i \in 1..n : file'[i] = g[i]
    <3>1. CASE file' = g
      BY <3>1, <2>2, <2>3
    <3>2. CASE file' = Append(g, Torn)
      BY <3>2, <2>2, <2>3
    <3> QED
      BY <2>1, <3>1, <3>2 DEF g
  <2>5. synced <= synced' /\ \A i \in 1..synced : file'[i] = file[i]
    <3>1. Len(file') \in Nat
      BY DEF FileInv
    <3> QED
      BY <3>1, <2>2, <2>3, <2>4
  <2>6. Unsafe' \subseteq Unsafe
    BY <1>6, <2>2, <2>5
  <2> QED
    BY <1>4, <2>2, <2>6
<1>16. CASE \E c \in Coins : Ban(c)
  BY <1>8, <1>16 DEF Ban
<1>17. CASE AppendFails
  BY <1>8, <1>17 DEF AppendFails, NoAppend
<1>18. CASE AppendGivesUp
  BY <1>8, <1>18 DEF AppendGivesUp, NoAppend
<1>19. CASE Crash
  BY <1>8, <1>19 DEF Crash, Restarted, NoAppend
<1>20. CASE Load \/ CompactToTmp \/ CompactFails \/ Tick \/ UNCHANGED banVars
  <2>1. /\ UNCHANGED <<file, synced, append, acked, interrupts>>
        /\ now' \in {now, now + 1}
    BY <1>20 DEF Load, CompactToTmp, CompactFails, Tick, banVars
  <2>2. Exposed' = Exposed
    BY <2>1 DEF Exposed, RecordPlace
  <2> QED
    BY <1>3, <1>7, <2>1, <2>2
<1> QED
  BY <1>10, <1>11, <1>12, <1>13, <1>14, <1>15, <1>16, <1>17, <1>18, <1>19, <1>20
  DEF BanNext

-----------------------------------------------------------------------------
(* What a reader should know of the ban file.                              *)

BanInv ==
    /\ BanTypeOK
    /\ FileInv
    /\ TmpInv
    /\ AppendInv
    /\ FileBansAreInMemory
    /\ LossInv

LEMMA BanInvInit == BanInit => BanInv
<1> SUFFICES ASSUME BanInit
             PROVE  BanInv
  OBVIOUS
<1>1. /\ now = 0 /\ pc = "load" /\ memory = [c \in Coins |-> 0] /\ file = <<>>
      /\ synced = 0 /\ append = NoAppend /\ acked = [c \in Coins |-> 0]
      /\ appends = 0 /\ interrupts = 0
  BY DEF BanInit
<1>2. BanTypeOK
  BY <1>1, BanFileAssumption DEF BanTypeOK, NoAppend
<1>3. FileInv
  BY <1>1 DEF FileInv, InOrder
<1>4. TmpInv /\ AppendInv /\ FileBansAreInMemory
  BY <1>1 DEF TmpInv, AppendInv, NoAppend, FileBansAreInMemory
<1>5. LossInv
  <2>1. Unsafe = {}
    BY <1>1 DEF Unsafe
  <2>2. ~ Exposed
    BY <1>1 DEF Exposed, NoAppend
  <2> QED
    BY <1>1, <2>1, <2>2, FS_EmptySet DEF LossInv
<1> QED
  BY <1>2, <1>3, <1>4, <1>5 DEF BanInv

LEMMA BanInvNext == BanInv /\ [BanNext]_banVars => BanInv'
  BY FileNext, TmpNext, AppendNext, TypeNext, MemoryNext, LossNext DEF BanInv

LEMMA BanInvariant == BanSpec => []BanInv
  BY BanInvInit, BanInvNext, PTL DEF BanSpec

\* The pieces of the file stay records, newlines and torn records, and what is
\* synced is a part of it.
THEOREM BanTypeCorrect == BanSpec => []BanTypeOK
<1>1. BanInv => BanTypeOK
  BY DEF BanInv
<1> QED
  BY <1>1, BanInvariant, PTL

\* For any number of appends, failures and restarts, what the file would ban at a
\* restart is banned now (BanList::load, ban, append_ban_entry, compact_ban_file).
THEOREM FileBansAlwaysInMemory == BanSpec => []FileBansAreInMemory
<1>1. BanInv => FileBansAreInMemory
  BY DEF BanInv
<1> QED
  BY <1>1, BanInvariant, PTL

\* A ban that is on a line of its own and on disk is loaded until it expires.
LEMMA SafeIsLoaded ==
    ASSUME FileInv, NEW c \in Coins, now < acked[c], IsSafe(c)
    PROVE  acked[c] <= Loaded(file)[c]
<1> DEFINE r == Record(c, acked[c])
<1>1. PICK i \in 1..(synced - 1) :
         /\ file[i] = r
         /\ i = 1 \/ file[i - 1] = Newline
         /\ file[i + 1] = Newline
  BY DEF IsSafe
<1>2. i \in DOMAIN file
  BY DEF FileInv
<1>3. r # Newline /\ r # Torn /\ r[2] = c /\ r[3] = acked[c]
  BY RecordsAreTheirParts DEF Record, Newline, Torn
<1> HIDE DEF r
<1>4. r \in Records
  BY <1>1, <1>2, <1>3 DEF FileInv, Pieces
<1>5. i \in Unexpired(file)
  BY <1>1, <1>2, <1>3, <1>4 DEF Unexpired, Parses
<1>6. r \in Fresh(file)
  BY <1>1, <1>5 DEF Fresh
<1> QED
  BY <1>3, <1>6, FileLoadsLatest DEF LoadsLatest

\* Of the bans whose append returned Ok, a restart misses no more than there were
\* appends cut short, for any number of them (append_ban_entry).
THEOREM LossIsBounded == BanSpec => []EachInterruptCostsOneBan
<1>1. BanInv => EachInterruptCostsOneBan
  <2> SUFFICES ASSUME BanInv
               PROVE  EachInterruptCostsOneBan
    OBVIOUS
  <2> DEFINE lost == {c \in Coins : now < acked[c] /\ Loaded(file)[c] < acked[c]}
  <2>1. ASSUME NEW c \in lost
        PROVE  c \in Unsafe
    <3>1. acked[c] \in Nat /\ Loaded(file)[c] \in Nat
      BY FileLoadsLatest DEF BanInv, BanTypeOK, LoadsLatest
    <3> QED
      BY <3>1, SafeIsLoaded DEF BanInv, Unsafe
  <2>2. IsFiniteSet(Unsafe)
    <3>1. Unsafe \in SUBSET Coins
      BY DEF Unsafe
    <3> QED
      BY <3>1, FS_Subset, BanFileAssumption
  <2> HIDE DEF lost
  <2>3. /\ Cardinality(lost) <= Cardinality(Unsafe)
        /\ Cardinality(lost) \in Nat /\ Cardinality(Unsafe) \in Nat
    BY <2>1, <2>2, FS_Subset, FS_CardinalityType
  <2>4. interrupts \in Nat
    BY BanFileAssumption DEF BanInv, BanTypeOK
  <2>5. Cardinality(lost) <= interrupts
    BY <2>3, <2>4 DEF BanInv, LossInv
  <2> QED
    BY <2>5 DEF EachInterruptCostsOneBan, lost
<1> QED
  BY <1>1, BanInvariant, PTL

\* No step of a compaction, and no end of the process in the middle of it, changes
\* what a restart reads (compact_ban_file), whatever the file holds.
THEOREM CompactionLosesNothing == BanSpec => CompactionKeepsBans
<1>1. ASSUME BanInv, BanInv', BanNext, pc \in {"compact", "rename"},
             UNCHANGED <<now, interrupts>>
      PROVE  Loaded(file)' = Loaded(file)
  <2>1. CASE CompactRename
    <3>1. file' = tmp /\ pc = "rename"
      BY <2>1 DEF CompactRename
    <3>2. /\ tmp \in Seq(Pieces) /\ InOrder(tmp) /\ Fresh(tmp) = Fresh(file)
      BY <1>1, <3>1 DEF BanInv, TmpInv
    <3>3. Loaded(tmp) = Loaded(file)
      BY <1>1, <3>2, LoadedDependsOnFresh DEF BanInv, FileInv
    <3>4. Loaded(file)' = Loaded(tmp)
      BY <1>1, <3>1 DEF Loaded, Unexpired
    <3> QED
      BY <3>3, <3>4
  <2>2. CASE file' = file
    BY <1>1, <2>2 DEF Loaded, Unexpired
  <2>3. append.next = "none"
    BY <1>1 DEF BanInv, AppendInv
  <2>4. CASE PowerLoss
    BY <1>1, <2>4, BanFileAssumption DEF PowerLoss, BanInv, BanTypeOK
  <2>5. CASE ~ CompactRename /\ ~ PowerLoss
    <3>1. file' = file
      BY <1>1, <2>3, <2>5 DEF BanNext, Load, CompactToTmp, CompactFails, Ban,
         WriteRecord, WriteNewline, Sync, AppendFails, AppendIsShort,
         AppendGivesUp, Tick, Crash
    <3> QED
      BY <2>2, <3>1
  <2> QED
    BY <2>1, <2>4, <2>5
<1>2. ASSUME BanInv, BanInv', [BanNext]_banVars
      PROVE  [(pc \in {"compact", "rename"} /\ UNCHANGED <<now, interrupts>>)
                 => (Loaded(file)' = Loaded(file))]_banVars
  BY <1>1, <1>2
<1> QED
  BY <1>2, BanInvariant, PTL DEF BanSpec, CompactionKeepsBans

=============================================================================
