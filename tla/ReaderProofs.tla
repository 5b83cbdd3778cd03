---------------------------- MODULE ReaderProofs ----------------------------
(***************************************************************************)
(* The log reader, for any file the recorder may leave and any length of   *)
(* an hour, of a block and of a year: which blocks it holds back and for    *)
(* how long, the times it hands blocks on with, and that it refuses no      *)
(* recording.  Then the strings of the host's libraries, which its tools   *)
(* are written with, for any number of them and any texts.  The last       *)
(* section is about the behaviours of MCLog.                               *)
(***************************************************************************)
EXTENDS MCLog, SequenceTheorems, FiniteSetTheorems, WellFoundedInduction, TLAPS

LEMMA OfItsLength ==
  ASSUME NEW S, NEW k \in Nat, NEW s \in [1 .. k -> S]
  PROVE  s \in Seq(S) /\ Len(s) = k
<1>1. s \in Seq(S)
  OBVIOUS
<1> QED
  BY <1>1, LenProperties

LEMMA ElementsOf ==
  ASSUME NEW S, NEW s \in Seq(S)
  PROVE  /\ Len(s) \in Nat /\ DOMAIN s = 1 .. Len(s)
         /\ \A k \in DOMAIN s : s[k] \in S
BY LenProperties

----------------------------------------------------------------------------
(* The log reader *)

\* A sequence, whatever is in it.
IsSequence(s) == s \in Seq({s[k] : k \in DOMAIN s})

\* A block as the reader keeps it.
IsEntry(e) == e = [type |-> e.type, references |-> e.references, ticks |-> e.ticks] /\ e.references \in Int
IsFile(s) == IsSequence(s) /\ Len(s) > 0 /\ \A b \in 1 .. Len(s) : IsEntry(s[b])

\* The data blocks before the last, those of them in its sequence, whether two blocks are in one sequence, and the
\* blocks of the calls d.
DataOf(s) == {b \in 1 .. Len(s) - 1 : Reader!IsData(s[b].type)}
AtHand(s) == {b \in DataOf(s) : \A k \in b .. Len(s) - 1 : s[k].type \notin {"header", "empty"}}
Together(s, b, c) == \A k \in (b .. c) \union (c .. b) : s[k].type \notin {"header", "empty"}
HandedIn(d) == {d[i].block : i \in DOMAIN d}

\* HeldUntilTold of the blocks s, of which those in h have been handed on.
HeldIn(s, h) ==
  \A b \in 1 .. Len(s) - 1 :
    /\ s[b].references = (IF b \in DataOf(s) \ h THEN 1 ELSE 0)
    /\ b \in DataOf(s) \ h =>
         \A c \in DataOf(s) : Together(s, b, c) => Reader!Hour(s[c].ticks) \notin Reader!hour_invertable

\* The sequence at hand is of one kind, and holds its blocks back until an hour of it is known.
Scanned(s, h, q) ==
  /\ \A b \in AtHand(s) : Reader!IsData(s[Len(s)].type) => s[b].type = s[Len(s)].type
  /\ q.scanning = TRUE =>
       /\ {q.blocks[i] : i \in DOMAIN q.blocks} \subseteq AtHand(s) \ h
       /\ \A b \in AtHand(s) : IF s[b].type = "broken" THEN b \in {q.blocks[i] : i \in DOMAIN q.blocks} ELSE b \in h
  /\ q.scanning # TRUE => AtHand(s) \subseteq h

IsLog(l) == "last" \in DOMAIN l
IsReading(q) == {"scanning", "blocks"} \subseteq DOMAIN q /\ IsSequence(q.blocks)

ReaderInv ==
  /\ IsFile(block) /\ block[Len(block)].references = 1
  /\ IsSequence(delivered) /\ HandedIn(delivered) \subseteq 1 .. Len(block) - 1
  /\ IsLog(log) /\ IsReading(seq)
  /\ step \in {"main", "open"} => ~ Reader!IsData(block[Len(block)].type)
  /\ HeldIn(block, HandedIn(delivered))
  /\ step = "sequence" =>
       log.last = block[Len(block)].type /\ Scanned(block, HandedIn(delivered), seq)

----------------------------------------------------------------------------
(* Sequences of anything *)

LEMMA SequenceIs ==
  ASSUME NEW s, IsSequence(s)
  PROVE  /\ Len(s) \in Nat /\ DOMAIN s = 1 .. Len(s) /\ s = [k \in 1 .. Len(s) |-> s[k]]
         /\ \A S : (\A k \in 1 .. Len(s) : s[k] \in S) => s \in Seq(S)
<1> DEFINE R == {s[k] : k \in DOMAIN s}
<1>1. s \in Seq(R)
  BY DEF IsSequence
<1> HIDE DEF R
<1>2. Len(s) \in Nat /\ DOMAIN s = 1 .. Len(s)
  BY <1>1, ElementsOf
<1>3. s = [k \in 1 .. Len(s) |-> s[k]]
  BY <1>1, <1>2
<1>4. ASSUME NEW S, \A k \in 1 .. Len(s) : s[k] \in S PROVE s \in Seq(S)
  <2>1. s \in [1 .. Len(s) -> S]
    BY <1>3, <1>4
  <2> QED
    BY <1>2, <2>1, OfItsLength
<1> QED
  BY <1>2, <1>3, <1>4

LEMMA SequenceOf ==
  ASSUME NEW n \in Nat, NEW s, s = [k \in 1 .. n |-> s[k]]
  PROVE  IsSequence(s) /\ Len(s) = n
<1> DEFINE R == {s[k] : k \in DOMAIN s}
<1>1. s \in [1 .. n -> R]
  OBVIOUS
<1> HIDE DEF R
<1>2. s \in Seq(R) /\ Len(s) = n
  BY <1>1, OfItsLength
<1> QED
  BY <1>2 DEF IsSequence, R

LEMMA Appended ==
  ASSUME NEW s, IsSequence(s), NEW e
  PROVE  /\ IsSequence(Append(s, e)) /\ Len(Append(s, e)) = Len(s) + 1
         /\ \A k \in 1 .. Len(s) : Append(s, e)[k] = s[k]
         /\ Append(s, e)[Len(s) + 1] = e
<1> DEFINE S == {s[k] : k \in DOMAIN s} \cup {e}
           a == Append(s, e)
<1>1. Len(s) \in Nat /\ DOMAIN s = 1 .. Len(s)
  BY SequenceIs
<1>2. s \in Seq(S) /\ e \in S
  BY <1>1, SequenceIs
<1> HIDE DEF S
<1>3. /\ a \in Seq(S) /\ Len(a) = Len(s) + 1
      /\ \A k \in 1 .. Len(s) : a[k] = s[k]
      /\ a[Len(s) + 1] = e
  BY <1>2, AppendProperties
<1> HIDE DEF a
<1>4. IsSequence(a)
  <2>1. DOMAIN a = 1 .. Len(a) /\ Len(a) \in Nat
    BY <1>3, ElementsOf
  <2>2. a = [k \in 1 .. Len(a) |-> a[k]]
    BY <1>3, <2>1
  <2> QED
    BY <2>1, <2>2, SequenceOf
<1> QED
  BY <1>3, <1>4 DEF a

LEMMA Joined ==
  ASSUME NEW s, IsSequence(s), NEW u, IsSequence(u)
  PROVE  /\ IsSequence(s \o u) /\ Len(s \o u) = Len(s) + Len(u)
         /\ \A k \in 1 .. Len(s) + Len(u) : (s \o u)[k] = IF k <= Len(s) THEN s[k] ELSE u[k - Len(s)]
<1> DEFINE S == {s[k] : k \in DOMAIN s} \cup {u[k] : k \in DOMAIN u}
           j == s \o u
<1>1. Len(s) \in Nat /\ DOMAIN s = 1 .. Len(s) /\ Len(u) \in Nat /\ DOMAIN u = 1 .. Len(u)
  BY SequenceIs
<1>2. s \in Seq(S) /\ u \in Seq(S)
  BY <1>1, SequenceIs
<1> HIDE DEF S
<1>3. /\ j \in Seq(S) /\ Len(j) = Len(s) + Len(u)
      /\ \A k \in 1 .. Len(s) + Len(u) : j[k] = IF k <= Len(s) THEN s[k] ELSE u[k - Len(s)]
  BY <1>2, ConcatProperties
<1> HIDE DEF j
<1>4. IsSequence(j)
  <2>1. DOMAIN j = 1 .. Len(j) /\ Len(j) \in Nat
    BY <1>3, ElementsOf
  <2>2. j = [k \in 1 .. Len(j) |-> j[k]]
    BY <1>3, <2>1
  <2> QED
    BY <2>1, <2>2, SequenceOf
<1> QED
  BY <1>3, <1>4 DEF j

\* What is handed on then is what was and what comes with the new calls.
LEMMA HandedAlso ==
  ASSUME NEW d, IsSequence(d), NEW e, IsSequence(e)
  PROVE  HandedIn(d \o e) = HandedIn(d) \cup HandedIn(e)
<1> DEFINE j == d \o e
<1>1. /\ Len(d) \in Nat /\ DOMAIN d = 1 .. Len(d) /\ Len(e) \in Nat /\ DOMAIN e = 1 .. Len(e)
      /\ IsSequence(j) /\ Len(j) = Len(d) + Len(e)
      /\ \A k \in 1 .. Len(d) + Len(e) : j[k] = IF k <= Len(d) THEN d[k] ELSE e[k - Len(d)]
  BY SequenceIs, Joined
<1> HIDE DEF j
<1>2. DOMAIN j = 1 .. Len(d) + Len(e)
  BY <1>1, SequenceIs
<1>3. ASSUME NEW k \in DOMAIN j PROVE j[k].block \in HandedIn(d) \cup HandedIn(e)
  <2>1. CASE k <= Len(d)
    <3>1. j[k] = d[k] /\ k \in DOMAIN d
      BY <1>1, <1>2, <2>1
    <3> QED
      BY <3>1 DEF HandedIn
  <2>2. CASE k > Len(d)
    <3>1. j[k] = e[k - Len(d)] /\ k - Len(d) \in DOMAIN e
      BY <1>1, <1>2, <2>2
    <3> QED
      BY <3>1 DEF HandedIn
  <2> QED
    BY <1>1, <1>2, <2>1, <2>2
<1>4. ASSUME NEW k \in DOMAIN d PROVE d[k].block \in HandedIn(j)
  <2>1. k \in DOMAIN j /\ j[k] = d[k]
    BY <1>1, <1>2
  <2> QED
    BY <2>1 DEF HandedIn
<1>5. ASSUME NEW k \in DOMAIN e PROVE e[k].block \in HandedIn(j)
  <2>1. k + Len(d) \in DOMAIN j /\ (k + Len(d)) - Len(d) = k /\ ~ (k + Len(d) <= Len(d))
    BY <1>1, <1>2
  <2>2. j[k + Len(d)] = e[k]
    BY <1>1, <1>2, <2>1
  <2> QED
    BY <2>1, <2>2 DEF HandedIn
<1>6. HandedIn(j) \subseteq HandedIn(d) \cup HandedIn(e)
  BY <1>3 DEF HandedIn
<1>7. HandedIn(d) \subseteq HandedIn(j) /\ HandedIn(e) \subseteq HandedIn(j)
  BY <1>4, <1>5 DEF HandedIn
<1> QED
  BY <1>6, <1>7 DEF j

LEMMA HandedOneMore ==
  ASSUME NEW d, IsSequence(d), NEW e
  PROVE  HandedIn(Append(d, e)) = HandedIn(d) \cup {e.block}
<1> DEFINE a == Append(d, e)
<1>1. /\ Len(d) \in Nat /\ DOMAIN d = 1 .. Len(d) /\ IsSequence(a) /\ Len(a) = Len(d) + 1
      /\ \A k \in 1 .. Len(d) : a[k] = d[k]
      /\ a[Len(d) + 1] = e
  BY SequenceIs, Appended
<1> HIDE DEF a
<1>2. DOMAIN a = 1 .. Len(d) + 1
  BY <1>1, SequenceIs
<1>3. ASSUME NEW k \in DOMAIN a PROVE a[k].block \in HandedIn(d) \cup {e.block}
  <2>1. CASE k \in 1 .. Len(d)
    BY <1>1, <2>1 DEF HandedIn
  <2>2. CASE k = Len(d) + 1
    BY <1>1, <2>2
  <2> QED
    BY <1>1, <1>2, <2>1, <2>2
<1>4. ASSUME NEW k \in DOMAIN d PROVE d[k].block \in HandedIn(a)
  <2>1. k \in DOMAIN a /\ a[k] = d[k]
    BY <1>1, <1>2
  <2> QED
    BY <2>1 DEF HandedIn
<1>5. e.block \in HandedIn(a)
  <2>1. Len(d) + 1 \in DOMAIN a
    BY <1>1, <1>2
  <2> QED
    BY <1>1, <2>1 DEF HandedIn
<1> QED
  BY <1>3, <1>4, <1>5 DEF HandedIn, a

----------------------------------------------------------------------------
(* A block more *)

LEMMA FileIs ==
  ASSUME NEW s, IsFile(s)
  PROVE  Len(s) \in Nat \ {0} /\ DOMAIN s = 1 .. Len(s)
BY SequenceIs DEF IsFile

\* t is the file s with a block more, the rest of the same types.
Grows(s, t) ==
  IsFile(s) /\ IsFile(t) /\ Len(t) = Len(s) + 1 /\ \A b \in 1 .. Len(s) : t[b].type = s[b].type

LEMMA DataGrows ==
  ASSUME NEW s, NEW t, Grows(s, t)
  PROVE  DataOf(t) = DataOf(s) \cup {b \in {Len(s)} : Reader!IsData(s[b].type)}
<1>1. Len(s) \in Nat \ {0} /\ Len(t) = Len(s) + 1 /\ \A b \in 1 .. Len(s) : t[b].type = s[b].type
  BY FileIs DEF Grows
<1>2. 1 .. Len(t) - 1 = (1 .. Len(s) - 1) \cup {Len(s)}
  BY <1>1
<1>3. ASSUME NEW b \in 1 .. Len(s) PROVE Reader!IsData(t[b].type) <=> Reader!IsData(s[b].type)
  BY <1>1
<1>4. \A b \in 1 .. Len(s) - 1 : b \in 1 .. Len(s)
  BY <1>1
<1> QED
  BY <1>1, <1>2, <1>3, <1>4 DEF DataOf

LEMMA AtHandGrows ==
  ASSUME NEW s, NEW t, Grows(s, t)
  PROVE  AtHand(t) = IF s[Len(s)].type \in {"header", "empty"} THEN {}
                     ELSE AtHand(s) \cup {b \in {Len(s)} : Reader!IsData(s[b].type)}
<1>1. Len(s) \in Nat \ {0} /\ Len(t) = Len(s) + 1 /\ \A b \in 1 .. Len(s) : t[b].type = s[b].type
  BY FileIs DEF Grows
<1>2. DataOf(t) = DataOf(s) \cup {b \in {Len(s)} : Reader!IsData(s[b].type)}
  BY DataGrows
<1>3. DataOf(s) \subseteq 1 .. Len(s) - 1
  BY DEF DataOf
<1>4. ASSUME NEW b \in 1 .. Len(s)
      PROVE  (\A k \in b .. Len(t) - 1 : t[k].type \notin {"header", "empty"})
               <=> /\ s[Len(s)].type \notin {"header", "empty"}
                   /\ \A k \in b .. Len(s) - 1 : s[k].type \notin {"header", "empty"}
  <2>1. b .. Len(t) - 1 = (b .. Len(s) - 1) \cup {Len(s)}
    BY <1>1
  <2>2. \A k \in b .. Len(t) - 1 : k \in 1 .. Len(s) /\ t[k].type = s[k].type
    BY <1>1
  <2> QED
    BY <2>1, <2>2
<1>5. Len(s) \in 1 .. Len(s) /\ \A k \in Len(s) .. Len(s) - 1 : FALSE
  BY <1>1
<1>6. ASSUME NEW b \in DataOf(t)
      PROVE  b \in AtHand(t) <=> /\ s[Len(s)].type \notin {"header", "empty"}
                                 /\ b \in AtHand(s) \/ b = Len(s)
  <2>1. b \in 1 .. Len(s)
    BY <1>1, <1>2, <1>3
  <2>2. b \in AtHand(t) <=> (\A k \in b .. Len(t) - 1 : t[k].type \notin {"header", "empty"})
    BY DEF AtHand
  <2>3. CASE b = Len(s)
    BY <1>4, <1>5, <2>1, <2>2, <2>3
  <2>4. CASE b # Len(s)
    <3>1. b \in DataOf(s)
      BY <1>2, <2>4
    <3>2. b \in AtHand(s) <=> (\A k \in b .. Len(s) - 1 : s[k].type \notin {"header", "empty"})
      BY <3>1 DEF AtHand
    <3> QED
      BY <1>4, <2>1, <2>2, <2>4, <3>2
  <2> QED
    BY <2>3, <2>4
<1>7. AtHand(t) \subseteq DataOf(t) /\ AtHand(s) \subseteq DataOf(s)
  BY DEF AtHand
<1>8. CASE s[Len(s)].type \in {"header", "empty"}
  BY <1>6, <1>7, <1>8
<1>9. CASE s[Len(s)].type \notin {"header", "empty"}
  <2>1. ASSUME NEW b \in AtHand(t) PROVE b \in AtHand(s) \cup {c \in {Len(s)} : Reader!IsData(s[c].type)}
    <3>1. b \in DataOf(t) /\ (b \in AtHand(s) \/ b = Len(s))
      BY <1>6, <1>7, <1>9
    <3>2. b = Len(s) => b \notin DataOf(s)
      BY <1>1, <1>3
    <3> QED
      BY <1>2, <3>1, <3>2
  <2>2. ASSUME NEW b \in AtHand(s) \cup {c \in {Len(s)} : Reader!IsData(s[c].type)} PROVE b \in AtHand(t)
    <3>1. b \in DataOf(t) /\ (b \in AtHand(s) \/ b = Len(s))
      BY <1>2, <1>7
    <3> QED
      BY <1>6, <1>9, <3>1
  <2> QED
    BY <1>9, <2>1, <2>2
<1> QED
  BY <1>8, <1>9

\* g are the blocks handed on in the step: either none is held back any more in the sequence at hand, or none
\* of its hours is known.
LEMMA HeldGrows ==
  ASSUME NEW s, NEW t, Grows(s, t), NEW h, NEW g, HeldIn(s, h),
         g \subseteq AtHand(s) \cup {Len(s)},
         \A b \in 1 .. Len(s) : t[b].references = IF b \in DataOf(t) \ (h \cup g) THEN 1 ELSE 0,
         \A b \in 1 .. Len(s) : b \notin g => t[b].ticks = s[b].ticks,
         Reader!IsData(s[Len(s)].type) =>
           \/ Len(s) \in g /\ AtHand(s) \subseteq h \cup g
           \/ g = {} /\ Reader!Hour(s[Len(s)].ticks) \notin Reader!hour_invertable
              /\ \A b \in AtHand(s) : Reader!Hour(s[b].ticks) \notin Reader!hour_invertable,
         ~ Reader!IsData(s[Len(s)].type) => g = {}
  PROVE  HeldIn(t, h \cup g)
<1> DEFINE n == Len(s)
           f == h \cup g
<1>1. n \in Nat \ {0} /\ Len(t) = n + 1 /\ \A b \in 1 .. n : t[b].type = s[b].type
  BY FileIs DEF Grows
<1>2. DataOf(t) = DataOf(s) \cup {b \in {n} : Reader!IsData(s[b].type)} /\ DataOf(s) \subseteq 1 .. n - 1
  BY DataGrows DEF DataOf
<1>3. AtHand(s) \subseteq DataOf(s)
  BY DEF AtHand
<1>4. ASSUME NEW b \in 1 .. n, NEW c \in 1 .. n
      PROVE  Together(t, b, c) <=> Together(s, b, c)
  <2>1. \A k \in (b .. c) \union (c .. b) : t[k].type = s[k].type
    BY <1>1
  <2> QED
    BY <2>1 DEF Together
<1>5. ASSUME NEW b \in DataOf(s), NEW c \in AtHand(s) \cup {n}, Together(s, b, c)
      PROVE  b \in AtHand(s)
  <2>1. b \in 1 .. n - 1 /\ c \in 1 .. n
    BY <1>1, <1>2, <1>3
  <2>2. ASSUME NEW k \in b .. n - 1 PROVE s[k].type \notin {"header", "empty"}
    <3>1. CASE k \in (b .. c) \union (c .. b)
      BY <1>5, <3>1 DEF Together
    <3>2. CASE k \notin (b .. c) \union (c .. b)
      <4>1. c # n /\ k \in c .. n - 1
        BY <2>1, <3>2
      <4>2. c \in AtHand(s)
        BY <4>1
      <4> QED
        BY <4>1, <4>2 DEF AtHand
    <3> QED
      BY <3>1, <3>2
  <2> QED
    BY <2>2 DEF AtHand
<1>6. ASSUME NEW b \in DataOf(t) \ f, NEW c \in DataOf(t), Together(s, b, c)
      PROVE  Reader!Hour(t[c].ticks) \notin Reader!hour_invertable
  <2>1. b \in 1 .. n /\ c \in 1 .. n /\ b \notin h /\ b \notin g
    BY <1>1, <1>2
  <2>2. CASE b # n /\ c # n
    <3>1. b \in DataOf(s) \ h /\ c \in DataOf(s)
      BY <1>2, <2>1, <2>2
    <3>2. Reader!Hour(s[c].ticks) \notin Reader!hour_invertable
      <4>1. b \in 1 .. n - 1
        BY <1>2, <3>1
      <4> QED
        BY <1>6, <3>1, <4>1 DEF HeldIn
    <3>3. c \notin g
      <4>1. SUFFICES ASSUME c \in g PROVE FALSE
        OBVIOUS
      <4>2. c \in AtHand(s)
        BY <2>2, <4>1
      <4>3. b \in AtHand(s)
        BY <1>5, <1>6, <3>1, <4>2
      <4>4. Reader!IsData(s[n].type) /\ n \in g /\ AtHand(s) \subseteq h \cup g
        BY <4>1
      <4> QED
        BY <2>1, <4>3, <4>4
    <3> QED
      BY <2>1, <3>2, <3>3
  <2>3. CASE c = n
    <3>1. Reader!IsData(s[n].type)
      BY <1>1, <1>2, <2>3
    <3>2. b \in AtHand(s) \/ b = n
      BY <1>2, <1>5, <1>6, <2>3
    <3>3. g = {} /\ Reader!Hour(s[n].ticks) \notin Reader!hour_invertable
      BY <2>1, <3>1, <3>2
    <3> QED
      BY <2>1, <2>3, <3>3
  <2>4. CASE b = n /\ c # n
    <3>1. Reader!IsData(s[n].type) /\ c \in DataOf(s)
      BY <1>1, <1>2, <2>4
    <3>2. g = {} /\ \A a \in AtHand(s) : Reader!Hour(s[a].ticks) \notin Reader!hour_invertable
      BY <2>1, <2>4, <3>1
    <3>3. c \in AtHand(s)
      <4>1. \A k \in c .. n - 1 : k \in c .. n
        BY <1>1, <2>1
      <4>2. \A k \in c .. n : s[k].type \notin {"header", "empty"}
        BY <1>6, <2>4 DEF Together
      <4> QED
        BY <3>1, <4>1, <4>2 DEF AtHand
    <3> QED
      BY <2>1, <3>2, <3>3
  <2> QED
    BY <2>2, <2>3, <2>4
<1>7. ASSUME NEW b \in 1 .. Len(t) - 1
      PROVE  /\ t[b].references = (IF b \in DataOf(t) \ f THEN 1 ELSE 0)
             /\ b \in DataOf(t) \ f =>
                  \A c \in DataOf(t) : Together(t, b, c) => Reader!Hour(t[c].ticks) \notin Reader!hour_invertable
  <2>1. b \in 1 .. n
    BY <1>1
  <2>2. \A c \in DataOf(t) : c \in 1 .. n
    BY <1>1, <1>2
  <2> QED
    BY <1>4, <1>6, <2>1, <2>2
<1> HIDE DEF f
<1>8. HeldIn(t, f)
  BY <1>7 DEF HeldIn
<1> QED
  BY <1>8 DEF f

\* A block that is not of a sequence is let go, and nothing else changes.
LEMMA LetGo ==
  ASSUME NEW s, NEW t, Grows(s, t), NEW h, HeldIn(s, h), s[Len(s)].references = 1,
         ~ Reader!IsData(s[Len(s)].type),
         \A b \in 1 .. Len(s) : t[b].ticks = s[b].ticks,
         \A b \in 1 .. Len(s) : t[b].references = IF b = Len(s) THEN s[b].references - 1 ELSE s[b].references
  PROVE  HeldIn(t, h)
<1>1. Len(s) \in Nat \ {0}
  BY FileIs DEF Grows
<1>2. DataOf(t) = DataOf(s) /\ DataOf(s) \subseteq 1 .. Len(s) - 1
  BY DataGrows DEF DataOf
<1>3. ASSUME NEW b \in 1 .. Len(s)
      PROVE  t[b].references = IF b \in DataOf(t) \ (h \cup {}) THEN 1 ELSE 0
  <2>1. CASE b = Len(s)
    <3>1. b \notin DataOf(t)
      BY <1>1, <1>2, <2>1
    <3> QED
      BY <2>1, <3>1
  <2>2. CASE b # Len(s)
    <3>1. b \in 1 .. Len(s) - 1
      BY <1>1, <2>2
    <3>2. s[b].references = IF b \in DataOf(s) \ h THEN 1 ELSE 0
      BY <3>1 DEF HeldIn
    <3> QED
      BY <1>2, <2>2, <3>2
  <2> QED
    BY <2>1, <2>2
<1>4. HeldIn(t, h \cup {})
  BY <1>3, HeldGrows
<1>5. h \cup {} = h
  OBVIOUS
<1> QED
  BY <1>4, <1>5

----------------------------------------------------------------------------
(* What a step reads *)

LEMMA HeldIs == Reader!HeldUntilTold <=> HeldIn(block, HandedIn(delivered))
<1>1. Reader!Past = DataOf(block) /\ Reader!Handed = HandedIn(delivered)
  BY DEF Reader!Past, DataOf, Reader!Handed, HandedIn
<1>2. \A b, c : Reader!SameSequence(b, c) <=> Together(block, b, c)
  BY DEF Reader!SameSequence, Together
<1> QED
  BY <1>1, <1>2 DEF Reader!HeldUntilTold, HeldIn

\* A file with other references and times, of which the blocks are the same.
Alike(s, u) == IsFile(u) /\ Len(u) = Len(s) /\ \A b \in 1 .. Len(s) : u[b].type = s[b].type

LEMMA AlikeOf ==
  ASSUME NEW s, IsFile(s), NEW u, u = [b \in 1 .. Len(s) |-> u[b]],
         \A b \in 1 .. Len(s) : IsEntry(u[b]) /\ u[b].type = s[b].type
  PROVE  Alike(s, u)
<1>1. Len(s) \in Nat \ {0}
  BY FileIs
<1>2. IsSequence(u) /\ Len(u) = Len(s)
  BY <1>1, SequenceOf
<1> QED
  BY <1>1, <1>2 DEF Alike, IsFile

LEMMA EntryIs ==
  ASSUME NEW e, IsEntry(e), NEW r \in Int, NEW k
  PROVE  /\ IsEntry([e EXCEPT !.references = r]) /\ IsEntry([e EXCEPT !.ticks = k])
         /\ IsEntry([e EXCEPT !.ticks = k, !.references = r])
         /\ [e EXCEPT !.references = r] = [type |-> e.type, references |-> r, ticks |-> e.ticks]
         /\ [e EXCEPT !.ticks = k] = [type |-> e.type, references |-> e.references, ticks |-> k]
         /\ [e EXCEPT !.ticks = k, !.references = r] = [type |-> e.type, references |-> r, ticks |-> k]
<1> DEFINE a == e.type
           m == e.references
           j == e.ticks
<1>1. e = [type |-> a, references |-> m, ticks |-> j] /\ m \in Int
  BY DEF IsEntry
<1> HIDE DEF a, m, j
<1>3. /\ [e EXCEPT !.references = r] = [type |-> a, references |-> r, ticks |-> j]
      /\ [e EXCEPT !.ticks = k] = [type |-> a, references |-> m, ticks |-> k]
      /\ [e EXCEPT !.ticks = k, !.references = r] = [type |-> a, references |-> r, ticks |-> k]
  <2> DEFINE d == [e EXCEPT !.ticks = k]
  <2>1. d = [type |-> a, references |-> m, ticks |-> k]
    BY <1>1
  <2>2. [e EXCEPT !.ticks = k, !.references = r] = [d EXCEPT !.references = r]
    OBVIOUS
  <2>3. [e EXCEPT !.references = r] = [type |-> a, references |-> r, ticks |-> j]
    BY <1>1
  <2> HIDE DEF d
  <2>4. [d EXCEPT !.references = r] = [type |-> a, references |-> r, ticks |-> k]
    BY <2>1
  <2> QED
    BY <2>1, <2>2, <2>3, <2>4 DEF d
<1>2. /\ [e EXCEPT !.references = r] = [type |-> e.type, references |-> r, ticks |-> e.ticks]
      /\ [e EXCEPT !.ticks = k] = [type |-> e.type, references |-> e.references, ticks |-> k]
      /\ [e EXCEPT !.ticks = k, !.references = r] = [type |-> e.type, references |-> r, ticks |-> k]
  BY <1>3 DEF a, m, j
<1> QED
  BY <1>1, <1>2 DEF IsEntry

LEMMA ReleasedIs ==
  ASSUME NEW s, IsFile(s), NEW n \in 1 .. Len(s)
  PROVE  /\ Alike(s, Reader!Released(s, n))
         /\ \A b \in 1 .. Len(s) :
              /\ Reader!Released(s, n)[b].ticks = s[b].ticks
              /\ Reader!Released(s, n)[b].references = IF b = n THEN s[b].references - 1 ELSE s[b].references
<1> DEFINE u == Reader!Released(s, n)
<1>1. s = [b \in 1 .. Len(s) |-> s[b]] /\ \A b \in 1 .. Len(s) : IsEntry(s[b])
  BY SequenceIs DEF IsFile
<1>2. u = [s EXCEPT ![n] = [s[n] EXCEPT !.references = s[n].references - 1]]
  BY DEF Reader!Released
<1>3. u = [b \in 1 .. Len(s) |-> u[b]]
  BY <1>1, <1>2
<1>4. \A b \in 1 .. Len(s) : u[b] = IF b = n THEN [s[n] EXCEPT !.references = s[n].references - 1] ELSE s[b]
  BY <1>1, <1>2
<1> HIDE DEF u
<1>5. /\ IsEntry(u[n])
      /\ u[n].type = s[n].type /\ u[n].ticks = s[n].ticks /\ u[n].references = s[n].references - 1
  <2>1. IsEntry(s[n]) /\ s[n].references - 1 \in Int
    BY <1>1 DEF IsEntry
  <2> DEFINE e == s[n]
             m == s[n].references - 1
  <2>2. IsEntry(e) /\ m \in Int
    BY <2>1
  <2>3. u[n] = [e EXCEPT !.references = m]
    BY <1>4
  <2> HIDE DEF e, m
  <2>4. IsEntry([e EXCEPT !.references = m])
        /\ [e EXCEPT !.references = m] = [type |-> e.type, references |-> m, ticks |-> e.ticks]
    BY <2>2, EntryIs
  <2>5. IsEntry(u[n]) /\ u[n] = [type |-> e.type, references |-> m, ticks |-> e.ticks]
    BY <2>3, <2>4
  <2>6. u[n].type = e.type /\ u[n].ticks = e.ticks /\ u[n].references = m
    BY <2>5
  <2> QED
    BY <2>5, <2>6 DEF e, m
<1>6. \A b \in 1 .. Len(s) :
        /\ IsEntry(u[b]) /\ u[b].type = s[b].type /\ u[b].ticks = s[b].ticks
        /\ u[b].references = IF b = n THEN s[b].references - 1 ELSE s[b].references
  BY <1>1, <1>4, <1>5
<1>7. Alike(s, u)
  BY <1>3, <1>6, AlikeOf
<1> QED
  BY <1>6, <1>7 DEF u

\* A block has been read behind the blocks s.
ReadBehind(s) ==
  /\ Grows(s, block') /\ block'[Len(block')].references = 1
  /\ \A b \in 1 .. Len(s) : block'[b].ticks = s[b].ticks /\ block'[b].references = s[b].references
  /\ IsLog(log') /\ log'.last = block'[Len(block')].type
  /\ Reader!IsData(block'[Len(block')].type) => log.last \in {"header", block'[Len(block')].type}

LEMMA ReadIs ==
  ASSUME NEW s, IsFile(s), IsLog(log), Reader!Read(s)
  PROVE  ReadBehind(s)
<1>1. PICK type \in {"header", "data", "broken", "empty", "invalid", "eof"}, slip \in {-1, 0, 1} :
        /\ Reader!Follows(type, log.now + slip)
        /\ block' = Append(s, [type |-> type, references |-> 1,
                               ticks |-> IF Reader!IsData(type) THEN Reader!Stamp(type, log.now + slip) ELSE 0])
        /\ log'.last = type /\ "last" \in DOMAIN log'
  BY DEF Reader!Read, IsLog
<1> DEFINE instant == log.now + slip
           e == [type |-> type, references |-> 1,
                 ticks |-> IF Reader!IsData(type) THEN Reader!Stamp(type, instant) ELSE 0]
<1>2. IsSequence(s) /\ Len(s) \in Nat \ {0} /\ \A b \in 1 .. Len(s) : IsEntry(s[b])
  BY FileIs DEF IsFile
<1>3. IsEntry(e) /\ e.type = type /\ e.references = 1
  BY DEF IsEntry
<1>4. Reader!Follows(type, instant) /\ block' = Append(s, e)
  BY <1>1
<1> HIDE DEF e, instant
<1>5. /\ IsSequence(block') /\ Len(block') = Len(s) + 1
      /\ \A b \in 1 .. Len(s) : block'[b] = s[b]
      /\ block'[Len(block')] = e
  BY <1>2, <1>4, Appended
<1>6. \A b \in 1 .. Len(block') : IsEntry(block'[b])
  BY <1>2, <1>3, <1>5
<1>7. Grows(s, block')
  <2>1. IsFile(block')
    BY <1>2, <1>5, <1>6 DEF IsFile
  <2> QED
    BY <1>5, <2>1 DEF Grows
<1>8. IsLog(log') /\ log'.last = type
  BY <1>1 DEF IsLog
<1>9. Reader!IsData(type) => log.last \in {"header", type}
  BY <1>4 DEF Reader!Follows, Reader!IsData
<1> QED
  BY <1>3, <1>5, <1>7, <1>8, <1>9 DEF ReadBehind

\* The last block is let go, and one read behind it.
LEMMA MatchIs ==
  ASSUME IsFile(block), IsLog(log), NEW s, Alike(block, s), Reader!Match(s)
  PROVE  /\ Grows(block, block') /\ block'[Len(block')].references = 1
         /\ \A b \in 1 .. Len(block) :
              /\ block'[b].ticks = s[b].ticks
              /\ block'[b].references = IF b = Len(block) THEN s[b].references - 1 ELSE s[b].references
         /\ IsLog(log') /\ log'.last = block'[Len(block')].type
         /\ Reader!IsData(block'[Len(block')].type) => log.last \in {"header", block'[Len(block')].type}
<1>1. /\ IsFile(s) /\ Len(s) = Len(block) /\ Len(block) \in Nat \ {0}
      /\ \A b \in 1 .. Len(block) : s[b].type = block[b].type
  BY FileIs DEF Alike
<1> DEFINE u == Reader!Released(s, Len(s))
<1>2. Len(s) \in 1 .. Len(s)
  BY <1>1
<1>3. /\ Alike(s, u)
      /\ \A b \in 1 .. Len(s) :
           /\ u[b].ticks = s[b].ticks
           /\ u[b].references = IF b = Len(s) THEN s[b].references - 1 ELSE s[b].references
  BY <1>1, <1>2, ReleasedIs
<1>4. Reader!Read(u)
  BY DEF Reader!Match
<1> HIDE DEF u
<1>5. IsFile(u) /\ Len(u) = Len(s) /\ \A b \in 1 .. Len(s) : u[b].type = s[b].type
  BY <1>3 DEF Alike
<1>6. ReadBehind(u)
  BY <1>4, <1>5, ReadIs
<1>7. /\ Grows(u, block') /\ block'[Len(block')].references = 1
      /\ \A b \in 1 .. Len(u) : block'[b].ticks = u[b].ticks /\ block'[b].references = u[b].references
      /\ IsLog(log') /\ log'.last = block'[Len(block')].type
      /\ Reader!IsData(block'[Len(block')].type) => log.last \in {"header", block'[Len(block')].type}
  BY <1>6 DEF ReadBehind
<1>8. Grows(block, block')
  BY <1>1, <1>5, <1>7 DEF Grows
<1> QED
  BY <1>1, <1>3, <1>5, <1>7, <1>8

----------------------------------------------------------------------------
(* Every step keeps the invariant *)

LEMMA NoBlocks == IsSequence(<<>>) /\ (\A i \in DOMAIN <<>> : FALSE)
BY DEF IsSequence

LEMMA InitReader == Reader!Init => ReaderInv
<1> SUFFICES ASSUME Reader!Init PROVE ReaderInv
  OBVIOUS
<1> DEFINE e == [type |-> "invalid", ticks |-> 0, references |-> 1]
<1>1. /\ step = "main" /\ block = <<e>> /\ seq = Reader!NoSequence /\ delivered = <<>>
      /\ IsLog(log)
  BY DEF Reader!Init, IsLog
<1>2. IsEntry(e) /\ e.references = 1 /\ ~ Reader!IsData(e.type)
  BY DEF IsEntry, Reader!IsData
<1> HIDE DEF e
<1>3. Len(block) = 1 /\ block[1] = e /\ block \in Seq({e})
  BY <1>1
<1>4. IsSequence(block)
  <2>1. block = [k \in 1 .. 1 |-> block[k]] /\ 1 \in Nat
    BY <1>1
  <2> QED
    BY <2>1, SequenceOf
<1>5. IsFile(block)
  BY <1>2, <1>3, <1>4 DEF IsFile
<1>6. IsReading(seq)
  BY <1>1, NoBlocks DEF IsReading, Reader!NoSequence
<1>7. HandedIn(delivered) = {} /\ IsSequence(delivered)
  BY <1>1, NoBlocks DEF HandedIn
<1>8. HeldIn(block, HandedIn(delivered))
  BY <1>3 DEF HeldIn
<1> QED
  BY <1>1, <1>2, <1>3, <1>5, <1>6, <1>7, <1>8 DEF ReaderInv

LEMMA RestKeeps ==
  ASSUME ReaderInv, block' = block, delivered' = delivered, seq' = seq, IsLog(log'),
         step' \in {"main", "open"} => step \in {"main", "open"},
         step' = "sequence" => step = "sequence" /\ log' = log
  PROVE  ReaderInv'
BY DEF ReaderInv

\* A block that is none of a sequence is let go for the next.
LEMMA SkipKeeps ==
  ASSUME ReaderInv, ~ Reader!IsData(block[Len(block)].type), Reader!Match(block),
         delivered' = delivered, IsReading(seq'),
         step' \notin {"main", "open"},
         step' = "sequence" => block[Len(block)].type = "header" /\ seq' = Reader!NoSequence
  PROVE  ReaderInv'
<1> DEFINE h == HandedIn(delivered)
           n == Len(block)
<1>1. /\ IsFile(block) /\ block[n].references = 1 /\ IsSequence(delivered) /\ h \subseteq 1 .. n - 1
      /\ IsLog(log) /\ HeldIn(block, h) /\ n \in Nat \ {0}
  BY FileIs DEF ReaderInv
<1>2. Alike(block, block)
  BY <1>1 DEF Alike
<1>3. /\ Grows(block, block') /\ block'[Len(block')].references = 1
      /\ \A b \in 1 .. n :
           /\ block'[b].ticks = block[b].ticks
           /\ block'[b].references = IF b = n THEN block[b].references - 1 ELSE block[b].references
      /\ IsLog(log') /\ log'.last = block'[Len(block')].type
  BY <1>1, <1>2, MatchIs
<1> HIDE DEF h, n
<1>4. HeldIn(block', h)
  BY <1>1, <1>3, LetGo DEF n
<1>5. IsFile(block') /\ Len(block') = n + 1
  BY <1>3 DEF Grows, n
<1>6. h \subseteq 1 .. Len(block') - 1
  BY <1>1, <1>5
<1>7. ASSUME step' = "sequence" PROVE Scanned(block', h, seq')
  <2>1. AtHand(block') = {}
    BY <1>3, <1>7, AtHandGrows
  <2>2. seq'.scanning = TRUE /\ seq'.blocks = <<>>
    BY <1>7 DEF Reader!NoSequence
  <2> QED
    BY <2>1, <2>2, NoBlocks DEF Scanned
<1>8. HandedIn(delivered') = h
  BY DEF h
<1> QED
  BY <1>1, <1>3, <1>4, <1>5, <1>6, <1>7, <1>8 DEF ReaderInv

\* A data block joins its sequence: s are the blocks as it leaves them, g those handed on with it.
Joins(s, g) ==
  /\ step = "sequence" /\ step' = "sequence" /\ Reader!IsData(block[Len(block)].type)
  /\ Alike(block, s) /\ Reader!Match(s) /\ IsReading(seq') /\ IsSequence(delivered')
  /\ HandedIn(delivered') = HandedIn(delivered) \cup g
  /\ g \subseteq AtHand(block) \cup {Len(block)}
  /\ \A b \in 1 .. Len(block) : b \notin g => s[b].ticks = block[b].ticks
  /\ \A b \in 1 .. Len(block) - 1 :
       s[b].references = IF b \in g \ HandedIn(delivered) THEN block[b].references - 1 ELSE block[b].references
  /\ s[Len(block)].references = IF Len(block) \in g THEN 1 ELSE 2
  /\ \/ Len(block) \in g /\ AtHand(block) \subseteq HandedIn(delivered) \cup g
     \/ g = {} /\ Reader!Hour(block[Len(block)].ticks) \notin Reader!hour_invertable
        /\ block[Len(block)].type = "broken" /\ seq.scanning = TRUE
  /\ \/ seq'.scanning # TRUE /\ Len(block) \in g
     \/ /\ seq'.scanning = TRUE /\ seq.scanning = TRUE /\ block[Len(block)].type = "data"
        /\ g = {Len(block)} /\ seq'.blocks = seq.blocks
     \/ /\ seq'.scanning = TRUE /\ seq.scanning = TRUE /\ block[Len(block)].type = "broken"
        /\ g = {} /\ seq'.blocks = Append(seq.blocks, Len(block))
     \/ seq'.scanning # TRUE /\ seq.scanning # TRUE

LEMMA JoinKeeps ==
  ASSUME ReaderInv, NEW s, NEW g, Joins(s, g)
  PROVE  ReaderInv'
<1> DEFINE h == HandedIn(delivered)
           n == Len(block)
           q == {seq.blocks[i] : i \in DOMAIN seq.blocks}
           w == {seq'.blocks[i] : i \in DOMAIN seq'.blocks}
<1>1. /\ step = "sequence" /\ step' = "sequence" /\ Reader!IsData(block[Len(block)].type)
      /\ Alike(block, s) /\ Reader!Match(s) /\ IsReading(seq') /\ IsSequence(delivered')
      /\ HandedIn(delivered') = HandedIn(delivered) \cup g
      /\ g \subseteq AtHand(block) \cup {Len(block)}
      /\ \A b \in 1 .. Len(block) : b \notin g => s[b].ticks = block[b].ticks
      /\ \A b \in 1 .. Len(block) - 1 :
           s[b].references = IF b \in g \ HandedIn(delivered) THEN block[b].references - 1 ELSE block[b].references
      /\ s[Len(block)].references = IF Len(block) \in g THEN 1 ELSE 2
  BY DEF Joins
<1>2. \/ Len(block) \in g /\ AtHand(block) \subseteq HandedIn(delivered) \cup g
      \/ g = {} /\ Reader!Hour(block[Len(block)].ticks) \notin Reader!hour_invertable
         /\ block[Len(block)].type = "broken" /\ seq.scanning = TRUE
  BY DEF Joins
<1>3. \/ seq'.scanning # TRUE /\ Len(block) \in g
      \/ /\ seq'.scanning = TRUE /\ seq.scanning = TRUE /\ block[Len(block)].type = "data"
         /\ g = {Len(block)} /\ seq'.blocks = seq.blocks
      \/ /\ seq'.scanning = TRUE /\ seq.scanning = TRUE /\ block[Len(block)].type = "broken"
         /\ g = {} /\ seq'.blocks = Append(seq.blocks, Len(block))
      \/ seq'.scanning # TRUE /\ seq.scanning # TRUE
  BY DEF Joins
<1> USE <1>1
<1>4. /\ IsFile(block) /\ block[n].references = 1 /\ IsSequence(delivered) /\ h \subseteq 1 .. n - 1
      /\ IsLog(log) /\ HeldIn(block, h) /\ n \in Nat \ {0} /\ log.last = block[n].type
      /\ Scanned(block, h, seq) /\ IsSequence(seq.blocks)
  BY FileIs DEF ReaderInv, IsReading
<1>5. /\ Grows(block, block') /\ block'[Len(block')].references = 1
      /\ \A b \in 1 .. n :
           /\ block'[b].ticks = s[b].ticks
           /\ block'[b].references = IF b = n THEN s[b].references - 1 ELSE s[b].references
      /\ IsLog(log') /\ log'.last = block'[Len(block')].type
      /\ Reader!IsData(block'[Len(block')].type) => log.last \in {"header", block'[Len(block')].type}
  BY <1>4, MatchIs
<1>6. IsFile(block') /\ Len(block') = n + 1 /\ \A b \in 1 .. n : block'[b].type = block[b].type
  BY <1>5 DEF Grows
<1>7. DataOf(block') = DataOf(block) \cup {n} /\ DataOf(block) \subseteq 1 .. n - 1
  <2>1. DataOf(block') = DataOf(block) \cup {b \in {n} : Reader!IsData(block[b].type)}
    BY <1>5, DataGrows
  <2>2. DataOf(block) \subseteq 1 .. n - 1
    BY DEF DataOf
  <2> QED
    BY <2>1, <2>2
<1>8. AtHand(block') = AtHand(block) \cup {n} /\ AtHand(block) \subseteq DataOf(block)
  <2>1. block[n].type \notin {"header", "empty"}
    BY DEF Reader!IsData
  <2>2. AtHand(block') = AtHand(block) \cup {b \in {n} : Reader!IsData(block[b].type)}
    BY <1>5, <2>1, AtHandGrows
  <2>3. AtHand(block) \subseteq DataOf(block)
    BY DEF AtHand
  <2> QED
    BY <2>2, <2>3
<1>9. ASSUME NEW b \in 1 .. n
      PROVE  block'[b].references = IF b \in DataOf(block') \ (h \cup g) THEN 1 ELSE 0
  <2>1. CASE b = n
    <3>1. block'[b].references = IF n \in g THEN 0 ELSE 1
      BY <1>5, <2>1
    <3>2. b \in DataOf(block') /\ b \notin h
      BY <1>4, <1>7, <2>1
    <3> QED
      BY <2>1, <3>1, <3>2
  <2>2. CASE b # n
    <3>1. b \in 1 .. n - 1
      BY <1>4, <2>2
    <3>2. block[b].references = IF b \in DataOf(block) \ h THEN 1 ELSE 0
      BY <1>4, <3>1 DEF HeldIn
    <3>3. block'[b].references = IF b \in g \ h THEN block[b].references - 1 ELSE block[b].references
      BY <1>5, <2>2, <3>1
    <3>4. b \in g => b \in DataOf(block)
      BY <1>8, <2>2
    <3>5. b \in DataOf(block') <=> b \in DataOf(block)
      BY <1>7, <2>2
    <3> QED
      BY <3>2, <3>3, <3>4, <3>5
  <2> QED
    BY <2>1, <2>2
<1>10. \/ n \in g /\ AtHand(block) \subseteq h \cup g
       \/ g = {} /\ Reader!Hour(block[n].ticks) \notin Reader!hour_invertable
          /\ \A b \in AtHand(block) : Reader!Hour(block[b].ticks) \notin Reader!hour_invertable
  <2>1. CASE n \in g /\ AtHand(block) \subseteq h \cup g
    BY <2>1
  <2>2. CASE /\ g = {} /\ Reader!Hour(block[n].ticks) \notin Reader!hour_invertable
             /\ block[n].type = "broken" /\ seq.scanning = TRUE
    <3>1. ASSUME NEW b \in AtHand(block) PROVE Reader!Hour(block[b].ticks) \notin Reader!hour_invertable
      <4>1. block[b].type = "broken"
        BY <1>4, <2>2 DEF Scanned
      <4>2. b \in DataOf(block) \ h
        BY <1>4, <1>8, <2>2, <4>1 DEF Scanned
      <4>3. b \in 1 .. n - 1 /\ b \in DataOf(block)
        BY <1>7, <4>2
      <4>4. Together(block, b, b)
        <5>1. \A k \in (b .. b) \union (b .. b) : k = b
          BY <4>3
        <5> QED
          BY <4>1, <5>1 DEF Together
      <4> QED
        BY <1>4, <4>2, <4>3, <4>4 DEF HeldIn
    <3> QED
      BY <2>2, <3>1
  <2> QED
    BY <1>2, <2>1, <2>2
<1>11. HeldIn(block', h \cup g)
  <2>1. \A b \in 1 .. n : b \notin g => block'[b].ticks = block[b].ticks
    BY <1>5
  <2> QED
    BY <1>4, <1>5, <1>9, <1>10, <2>1, HeldGrows
<1>12. h \cup g \subseteq 1 .. Len(block') - 1
  BY <1>4, <1>6, <1>7, <1>8
<1>13. ASSUME NEW b \in AtHand(block'), Reader!IsData(block'[Len(block')].type)
       PROVE  block'[b].type = block'[Len(block')].type
  <2>1. block[n].type = block'[Len(block')].type
    BY <1>4, <1>5, <1>13 DEF Reader!IsData
  <2>2. CASE b = n
    BY <1>4, <1>6, <2>1, <2>2
  <2>3. CASE b # n
    <3>1. b \in AtHand(block) /\ b \in 1 .. n
      BY <1>7, <1>8, <2>3
    <3>2. block[b].type = block[n].type
      BY <1>4, <3>1 DEF Scanned
    <3> QED
      BY <1>6, <2>1, <3>1, <3>2
  <2> QED
    BY <2>2, <2>3
<1>14. seq'.scanning # TRUE => AtHand(block') \subseteq h \cup g
  <2>1. CASE n \in g /\ AtHand(block) \subseteq h \cup g
    BY <1>8, <2>1
  <2>2. CASE g = {} /\ seq.scanning = TRUE
    BY <1>3, <2>2
  <2> QED
    BY <1>2, <2>1, <2>2
<1>15. seq'.scanning = TRUE =>
         /\ w \subseteq AtHand(block') \ (h \cup g)
         /\ \A b \in AtHand(block') : IF block'[b].type = "broken" THEN b \in w ELSE b \in h \cup g
  <2>1. CASE seq'.scanning = TRUE /\ seq.scanning = TRUE /\ block[n].type = "data"
             /\ g = {n} /\ seq'.blocks = seq.blocks
    <3>1. w = q /\ q \subseteq AtHand(block) \ h
      BY <1>4, <2>1 DEF Scanned
    <3>2. w \subseteq AtHand(block') \ (h \cup g)
      BY <1>4, <1>7, <1>8, <2>1, <3>1
    <3>3. ASSUME NEW b \in AtHand(block') PROVE IF block'[b].type = "broken" THEN b \in w ELSE b \in h \cup g
      <4>1. CASE b = n
        BY <1>4, <1>6, <2>1, <4>1
      <4>2. CASE b # n
        <5>1. b \in AtHand(block) /\ b \in 1 .. n
          BY <1>7, <1>8, <4>2
        <5>2. block[b].type = "data" /\ b \in h
          BY <1>4, <2>1, <5>1 DEF Scanned
        <5> QED
          BY <1>6, <5>1, <5>2
      <4> QED
        BY <4>1, <4>2
    <3> QED
      BY <3>2, <3>3
  <2>2. CASE seq'.scanning = TRUE /\ seq.scanning = TRUE /\ block[n].type = "broken"
             /\ g = {} /\ seq'.blocks = Append(seq.blocks, n)
    <3>1. w = q \cup {n}
      <4> DEFINE a == seq.blocks
                 c == Append(a, n)
      <4>1. /\ Len(a) \in Nat /\ DOMAIN a = 1 .. Len(a) /\ IsSequence(c) /\ Len(c) = Len(a) + 1
            /\ \A k \in 1 .. Len(a) : c[k] = a[k]
            /\ c[Len(a) + 1] = n
        BY <1>4, SequenceIs, Appended
      <4>2. DOMAIN c = 1 .. Len(a) + 1
        BY <4>1, SequenceIs
      <4>3. w = {c[i] : i \in DOMAIN c}
        BY <2>2
      <4> HIDE DEF a, c
      <4>4. 1 .. Len(a) + 1 = (1 .. Len(a)) \cup {Len(a) + 1}
        BY <4>1
      <4>5. {c[i] : i \in DOMAIN c} = {a[i] : i \in DOMAIN a} \cup {n}
        BY <4>1, <4>2, <4>4
      <4> QED
        BY <4>3, <4>5 DEF a
    <3>2. q \subseteq AtHand(block) \ h
      BY <1>4, <2>2 DEF Scanned
    <3>3. w \subseteq AtHand(block') \ (h \cup g)
      BY <1>4, <1>7, <1>8, <2>2, <3>1, <3>2
    <3>4. ASSUME NEW b \in AtHand(block') PROVE IF block'[b].type = "broken" THEN b \in w ELSE b \in h \cup g
      <4>1. CASE b = n
        BY <1>4, <1>6, <2>2, <3>1, <4>1
      <4>2. CASE b # n
        <5>1. b \in AtHand(block) /\ b \in 1 .. n
          BY <1>7, <1>8, <4>2
        <5>2. block[b].type = "broken" /\ b \in q
          BY <1>4, <2>2, <5>1 DEF Scanned
        <5> QED
          BY <1>6, <3>1, <5>1, <5>2
      <4> QED
        BY <4>1, <4>2
    <3> QED
      BY <3>3, <3>4
  <2>3. CASE seq'.scanning # TRUE
    BY <2>3
  <2> QED
    BY <1>3, <2>1, <2>2, <2>3
<1>16. Scanned(block', h \cup g, seq')
  BY <1>13, <1>14, <1>15 DEF Scanned
<1>17. HandedIn(delivered') = h \cup g
  OBVIOUS
<1> HIDE DEF h, n, q, w
<1> QED
  BY <1>5, <1>6, <1>11, <1>12, <1>16, <1>17 DEF ReaderInv

\* What a block finds when it joins its sequence.
LEMMA AtSequence ==
  ASSUME ReaderInv, step = "sequence", Reader!IsData(block[Len(block)].type)
  PROVE  /\ IsFile(block) /\ Len(block) \in Nat \ {0} /\ block[Len(block)].references = 1
         /\ IsSequence(block) /\ IsSequence(delivered) /\ IsReading(seq) /\ IsSequence(seq.blocks)
         /\ HandedIn(delivered) \subseteq 1 .. Len(block) - 1
         /\ \A b \in AtHand(block) :
              /\ b \in 1 .. Len(block) - 1 /\ block[b].type = block[Len(block)].type
              /\ block[b].type = "data" \/ seq.scanning # TRUE => b \in HandedIn(delivered)
              /\ block[b].type = "broken" /\ seq.scanning = TRUE =>
                   b \in {seq.blocks[i] : i \in DOMAIN seq.blocks}
         /\ seq.scanning = TRUE =>
              \A i \in DOMAIN seq.blocks :
                seq.blocks[i] \in AtHand(block) /\ seq.blocks[i] \notin HandedIn(delivered)
<1>1. /\ IsFile(block) /\ block[Len(block)].references = 1 /\ IsSequence(delivered) /\ IsReading(seq)
      /\ HandedIn(delivered) \subseteq 1 .. Len(block) - 1 /\ Scanned(block, HandedIn(delivered), seq)
  BY DEF ReaderInv
<1>2. Len(block) \in Nat \ {0}
  BY <1>1, FileIs
<1>3. AtHand(block) \subseteq DataOf(block) /\ DataOf(block) \subseteq 1 .. Len(block) - 1
  BY DEF AtHand, DataOf
<1>4. ASSUME NEW b \in AtHand(block)
      PROVE  /\ block[b].type = block[Len(block)].type
             /\ block[b].type = "data" \/ seq.scanning # TRUE => b \in HandedIn(delivered)
             /\ block[b].type = "broken" /\ seq.scanning = TRUE =>
                  b \in {seq.blocks[i] : i \in DOMAIN seq.blocks}
  BY <1>1 DEF Scanned
<1>5. ASSUME seq.scanning = TRUE, NEW i \in DOMAIN seq.blocks
      PROVE  seq.blocks[i] \in AtHand(block) /\ seq.blocks[i] \notin HandedIn(delivered)
  BY <1>1, <1>5 DEF Scanned
<1> QED
  BY <1>1, <1>2, <1>3, <1>4, <1>5 DEF IsFile, IsReading

LEMMA AddKeeps ==
  ASSUME ReaderInv, Reader!add_block
  PROVE  ReaderInv'
<1>1. step = "sequence" /\ block[Len(block)].type = "data" /\ Reader!IsData(block[Len(block)].type)
  BY DEF Reader!add_block, Reader!Current, Reader!IsData
<1>2. CASE ~ Reader!Contiguous
  <2>1. step' = "failed" /\ UNCHANGED <<block, log, seq, delivered>>
    BY <1>2 DEF Reader!add_block, Reader!Refuse, Reader!Stop
  <2>2. IsLog(log')
    BY <2>1 DEF ReaderInv
  <2> QED
    BY <2>1, <2>2, RestKeeps
<1>3. CASE Reader!Contiguous
  <2> DEFINE n == Len(block)
             e == Reader!Deliver(block, n)
  <2>1. /\ delivered' = Append(delivered, e) /\ step' = step /\ Reader!Match(block)
        /\ seq' = [[seq EXCEPT !.start = seq'.start] EXCEPT !.stop = seq'.stop]
    BY <1>3, AtSequence, <1>1 DEF Reader!add_block, IsReading
  <2>2. IsReading(seq') /\ seq'.scanning = seq.scanning /\ seq'.blocks = seq.blocks
    BY <2>1, <1>1, AtSequence DEF IsReading
  <2>3. e.block = n
    BY DEF Reader!Deliver
  <2> HIDE DEF e
  <2>4. /\ IsFile(block) /\ n \in Nat \ {0} /\ block[n].references = 1 /\ IsSequence(delivered)
        /\ HandedIn(delivered) \subseteq 1 .. n - 1
        /\ \A b \in AtHand(block) : b \in HandedIn(delivered)
    BY <1>1, AtSequence
  <2>5. IsSequence(delivered') /\ HandedIn(delivered') = HandedIn(delivered) \cup {n}
    BY <2>1, <2>3, <2>4, HandedOneMore, Appended
  <2>6. Alike(block, block)
    BY <2>4 DEF Alike
  <2>7. \/ seq'.scanning # TRUE /\ seq.scanning # TRUE
        \/ seq'.scanning = TRUE /\ seq.scanning = TRUE
    BY <2>2
  <2>8. \A b \in 1 .. n - 1 : b \notin {n}
    BY <2>4
  <2>9. AtHand(block) \subseteq HandedIn(delivered) \cup {n}
    BY <2>4
  <2>10. Joins(block, {n})
    BY <1>1, <2>1, <2>2, <2>4, <2>5, <2>6, <2>7, <2>8, <2>9 DEF Joins
  <2> QED
    BY <2>10, JoinKeeps
<1> QED
  BY <1>2, <1>3

LEMMA ScanKeeps ==
  ASSUME ReaderInv, Reader!Scan
  PROVE  ReaderInv'
<1> DEFINE n == Len(block)
           s == [block EXCEPT ![n].references = @ + 1]
<1>1. /\ step = "sequence" /\ block[n].type = "broken" /\ Reader!IsData(block[n].type) /\ seq.scanning = TRUE
      /\ Reader!Hour(block[n].ticks) \notin Reader!hour_invertable /\ step' = step /\ delivered' = delivered
      /\ seq' = [seq EXCEPT !.blocks = Append(seq.blocks, n)] /\ Reader!Match(s)
  BY DEF Reader!Scan, Reader!Current, Reader!IsData
<1>2. /\ IsFile(block) /\ n \in Nat \ {0} /\ block[n].references = 1 /\ IsSequence(delivered)
      /\ IsReading(seq) /\ IsSequence(seq.blocks)
  BY <1>1, AtSequence
<1>3. IsReading(seq') /\ seq'.scanning = TRUE /\ seq'.blocks = Append(seq.blocks, n)
  BY <1>1, <1>2, Appended DEF IsReading
<1>4. Alike(block, s)
      /\ \A b \in 1 .. n :
           /\ s[b].ticks = block[b].ticks
           /\ s[b].references = IF b = n THEN 2 ELSE block[b].references
  <2>1. block = [b \in 1 .. n |-> block[b]] /\ \A b \in 1 .. n : IsEntry(block[b])
    BY <1>2, SequenceIs DEF IsFile
  <2> DEFINE e == block[n]
             m == 2
             f == [e EXCEPT !.references = m]
  <2>2. s = [block EXCEPT ![n] = f]
    BY <1>2
  <2>3. s = [b \in 1 .. n |-> s[b]]
    BY <2>1, <2>2
  <2>4. \A b \in 1 .. n : s[b] = IF b = n THEN f ELSE block[b]
    BY <2>1, <2>2
  <2>5. IsEntry(e) /\ m \in Int
    BY <1>2, <2>1
  <2> HIDE DEF s, e, m
  <2>6. IsEntry(f) /\ f = [type |-> e.type, references |-> m, ticks |-> e.ticks]
    BY <2>5, EntryIs
  <2> HIDE DEF f
  <2>7. f.type = e.type /\ f.references = 2 /\ f.ticks = e.ticks
    BY <2>6 DEF m
  <2>8. \A b \in 1 .. n : /\ IsEntry(s[b]) /\ s[b].type = block[b].type /\ s[b].ticks = block[b].ticks
                          /\ s[b].references = IF b = n THEN 2 ELSE block[b].references
    BY <2>1, <2>4, <2>6, <2>7 DEF e
  <2>9. Alike(block, s)
    BY <1>2, <2>3, <2>8, AlikeOf
  <2> QED
    BY <2>8, <2>9
<1> HIDE DEF s
<1>5. \A b \in 1 .. n - 1 : b # n /\ b \in 1 .. n
  BY <1>2
<1>6. n \in 1 .. n
  BY <1>2
<1> DEFINE g == {}
           h == HandedIn(delivered)
<1>7. HandedIn(delivered') = HandedIn(delivered) \cup g /\ IsSequence(delivered')
  BY <1>1, <1>2
<1>8. \A b : b \notin g /\ b \notin g \ h
  OBVIOUS
<1>9. g = {}
  OBVIOUS
<1> HIDE DEF g
<1>10. \A b \in 1 .. n - 1 : s[b].references = IF b \in g \ h THEN block[b].references - 1 ELSE block[b].references
  BY <1>4, <1>5, <1>8
<1>11. s[n].references = IF n \in g THEN 1 ELSE 2
  BY <1>4, <1>6, <1>8
<1>12. /\ g \subseteq AtHand(block) \cup {n} /\ step' = "sequence"
       /\ \A b \in 1 .. n : b \notin g => s[b].ticks = block[b].ticks
  BY <1>1, <1>4, <1>8
<1>13. \/ n \in g /\ AtHand(block) \subseteq h \cup g
       \/ g = {} /\ Reader!Hour(block[n].ticks) \notin Reader!hour_invertable
          /\ block[n].type = "broken" /\ seq.scanning = TRUE
  BY <1>1, <1>9
<1>14. \/ seq'.scanning # TRUE /\ n \in g
       \/ /\ seq'.scanning = TRUE /\ seq.scanning = TRUE /\ block[n].type = "data"
          /\ g = {n} /\ seq'.blocks = seq.blocks
       \/ /\ seq'.scanning = TRUE /\ seq.scanning = TRUE /\ block[n].type = "broken"
          /\ g = {} /\ seq'.blocks = Append(seq.blocks, n)
       \/ seq'.scanning # TRUE /\ seq.scanning # TRUE
  BY <1>1, <1>3, <1>9
<1>15. step = "sequence" /\ Reader!IsData(block[n].type) /\ Reader!Match(s) /\ Alike(block, s) /\ IsReading(seq')
  BY <1>1, <1>3, <1>4
<1>16. Joins(s, g)
  BY <1>7, <1>10, <1>11, <1>12, <1>13, <1>14, <1>15 DEF Joins
<1> QED
  BY <1>16, JoinKeeps

\* A block with another time, and with other references.
Retimed(e, k, r) == [e EXCEPT !.ticks = k, !.references = r]

AllRetimed(s, u, g, instant, reference) ==
  /\ u = [b \in DOMAIN s |-> u[b]]
  /\ \A b \in DOMAIN s : u[b] = IF b \in g THEN Retimed(s[b], instant[b], reference[b]) ELSE s[b]

LEMMA RetimedIs ==
  ASSUME NEW s, IsFile(s), NEW u, NEW g, NEW instant, NEW reference, AllRetimed(s, u, g, instant, reference),
         \A b \in g : reference[b] \in Int
  PROVE  /\ Alike(s, u)
         /\ \A b \in 1 .. Len(s) :
              /\ u[b].references = IF b \in g THEN reference[b] ELSE s[b].references
              /\ u[b].ticks = IF b \in g THEN instant[b] ELSE s[b].ticks
<1>1. Len(s) \in Nat \ {0} /\ DOMAIN s = 1 .. Len(s) /\ \A b \in 1 .. Len(s) : IsEntry(s[b])
  BY FileIs DEF IsFile
<1>2. /\ u = [b \in 1 .. Len(s) |-> u[b]]
      /\ \A b \in 1 .. Len(s) : u[b] = IF b \in g THEN Retimed(s[b], instant[b], reference[b]) ELSE s[b]
  BY <1>1 DEF AllRetimed
<1>3. ASSUME NEW b \in 1 .. Len(s), b \in g
      PROVE  /\ IsEntry(u[b]) /\ u[b].type = s[b].type
             /\ u[b].references = reference[b] /\ u[b].ticks = instant[b]
  <2> DEFINE e == s[b]
             k == instant[b]
             r == reference[b]
             f == Retimed(e, k, r)
  <2>1. IsEntry(e) /\ r \in Int
    BY <1>1, <1>3
  <2>2. u[b] = f
    BY <1>2, <1>3
  <2> HIDE DEF e, k, r
  <2>3. IsEntry(f) /\ f = [type |-> e.type, references |-> r, ticks |-> k]
    BY <2>1, EntryIs, Zenon DEF Retimed
  <2> HIDE DEF f
  <2>4. f.type = e.type /\ f.references = r /\ f.ticks = k
    BY <2>3
  <2> QED
    BY <2>2, <2>3, <2>4 DEF e, k, r
<1>4. ASSUME NEW b \in 1 .. Len(s), b \notin g PROVE u[b] = s[b]
  BY <1>2, <1>4
<1>5. Alike(s, u)
  <2>1. \A b \in 1 .. Len(s) : IsEntry(u[b]) /\ u[b].type = s[b].type
    BY <1>1, <1>3, <1>4
  <2> QED
    BY <1>2, <2>1, AlikeOf
<1> QED
  BY <1>3, <1>4, <1>5

LEMMA ContinueKeeps ==
  ASSUME ReaderInv, Reader!Continue
  PROVE  ReaderInv'
<1> DEFINE n == Len(block)
           inverse == seq.stop + Reader!broken_ticks_difference(seq.stop, Reader!Current.ticks)
           s == [block EXCEPT ![n].ticks = inverse]
<1>1. step = "sequence" /\ block[n].type = "broken" /\ Reader!IsData(block[n].type) /\ seq.scanning # TRUE
  BY DEF Reader!Continue, Reader!Current, Reader!IsData
<1>2. /\ IsFile(block) /\ n \in Nat \ {0} /\ block[n].references = 1 /\ IsSequence(delivered)
      /\ IsReading(seq) /\ \A b \in AtHand(block) : b \in HandedIn(delivered)
  BY <1>1, AtSequence
<1>3. CASE Reader!convert_ticks(inverse) # Reader!Current.ticks
  <2>1. step' = "failed" /\ UNCHANGED <<block, log, seq, delivered>>
    BY <1>3 DEF Reader!Continue, Reader!Refuse, Reader!Stop
  <2>2. IsLog(log')
    BY <2>1 DEF ReaderInv
  <2> QED
    BY <2>1, <2>2, RestKeeps
<1>4. CASE Reader!convert_ticks(inverse) = Reader!Current.ticks
  <2> DEFINE e == Reader!Deliver(s, n)
  <2>1. /\ delivered' = Append(delivered, e) /\ step' = step /\ Reader!Match(s)
        /\ seq' = [seq EXCEPT !.stop = seq'.stop]
    BY <1>2, <1>4 DEF Reader!Continue, IsReading
  <2>2. IsReading(seq') /\ seq'.scanning = seq.scanning
    BY <1>2, <2>1 DEF IsReading
  <2>3. e.block = n
    BY DEF Reader!Deliver
  <2> HIDE DEF e
  <2>4. IsSequence(delivered') /\ HandedIn(delivered') = HandedIn(delivered) \cup {n}
    BY <1>2, <2>1, <2>3, HandedOneMore, Appended
  <2>5. /\ Alike(block, s)
        /\ \A b \in 1 .. n : s[b].references = block[b].references /\ (b # n => s[b].ticks = block[b].ticks)
    <3> DEFINE k == inverse
               e1 == block[n]
               f == [e1 EXCEPT !.ticks = k]
    <3>1. s = [block EXCEPT ![n] = f]
      OBVIOUS
    <3>2. block = [b \in 1 .. n |-> block[b]] /\ \A b \in 1 .. n : IsEntry(block[b])
      BY <1>2, SequenceIs DEF IsFile
    <3>3. s = [b \in 1 .. n |-> s[b]]
      BY <3>1, <3>2
    <3>4. \A b \in 1 .. n : s[b] = IF b = n THEN f ELSE block[b]
      BY <3>1, <3>2
    <3>5. IsEntry(e1) /\ e1.references \in Int
      BY <1>2, <3>2 DEF IsEntry
    <3> HIDE DEF s, e1, k, inverse
    <3>6. IsEntry(f) /\ f = [type |-> e1.type, references |-> e1.references, ticks |-> k]
      BY <3>5, EntryIs
    <3> HIDE DEF f
    <3>7. f.type = e1.type /\ f.references = e1.references
      BY <3>6
    <3>8. \A b \in 1 .. n : IsEntry(s[b]) /\ s[b].type = block[b].type /\ s[b].references = block[b].references
                            /\ (b # n => s[b].ticks = block[b].ticks)
      BY <3>2, <3>4, <3>6, <3>7 DEF e1
    <3>9. Alike(block, s)
      BY <1>2, <3>3, <3>8, AlikeOf
    <3> QED
      BY <3>8, <3>9
  <2> HIDE DEF s
  <2>6. \A b \in 1 .. n - 1 : b \in 1 .. n /\ b \notin {n}
    BY <1>2
  <2>7. n \in 1 .. n
    BY <1>2
  <2>8. Joins(s, {n})
    BY <1>1, <1>2, <2>1, <2>2, <2>4, <2>5, <2>6, <2>7 DEF Joins
  <2> QED
    BY <2>8, JoinKeeps
<1> QED
  BY <1>3, <1>4

\* The blocks s as the sequence leaves them, with the times it has worked out.
ResolvedAs(s, scanned, times, instant, reference) ==
  /\ AllRetimed(block, s, Reader!ToSet(scanned), instant, reference)
  /\ \A b \in DOMAIN block :
       /\ instant[b] = times[CHOOSE i \in DOMAIN scanned : scanned[i] = b]
       /\ reference[b] = IF b = Len(block) THEN block[b].references ELSE block[b].references - 1
  /\ delivered' = delivered \o [i \in DOMAIN scanned |-> Reader!Deliver(s, scanned[i])]
  /\ seq' = [start |-> times[1], stop |-> Reader!invert_ticks(Reader!Current.ticks) + TicksPerBlock,
             scanning |-> FALSE, blocks |-> scanned]
  /\ Reader!Match(s) /\ step' = step /\ status' = status

LEMMA ResolveIs ==
  ASSUME Reader!Resolve
  PROVE  LET scanned == Append(seq.blocks, Len(block))
             times == Reader!Repaired(scanned)
         IN /\ step = "sequence" /\ block[Len(block)].type = "broken" /\ Reader!IsData(block[Len(block)].type)
            /\ seq.scanning = TRUE /\ Reader!Hour(block[Len(block)].ticks) \in Reader!hour_invertable
            /\ ~ Reader!Sound(scanned, times) => Reader!Refuse
            /\ Reader!Sound(scanned, times) => \E s, instant, reference : ResolvedAs(s, scanned, times, instant, reference)
<1> DEFINE n == Len(block)
           scanned == Append(seq.blocks, n)
           times == Reader!Repaired(scanned)
           g == Reader!ToSet(scanned)
           At(b) == CHOOSE i \in DOMAIN scanned : scanned[i] = b
           instant == [b \in DOMAIN block |-> times[At(b)]]
           reference == [b \in DOMAIN block |-> IF b = n THEN block[b].references ELSE block[b].references - 1]
           Fixed(b) == IF b \in g
                       THEN [block[b] EXCEPT !.ticks = times[At(b)], !.references = IF b = n THEN @ ELSE @ - 1]
                       ELSE block[b]
           s == [b \in DOMAIN block |-> Fixed(b)]
           e == [i \in DOMAIN scanned |-> Reader!Deliver(s, scanned[i])]
<1>1. /\ step = "sequence" /\ block[n].type = "broken" /\ Reader!IsData(block[n].type) /\ seq.scanning = TRUE
      /\ Reader!Hour(block[n].ticks) \in Reader!hour_invertable
  <2>1. step = "sequence" /\ Reader!Current.type = "broken" /\ seq.scanning /\ Reader!Hour(Reader!Current.ticks) \in Reader!hour_invertable
    BY DEF Reader!Resolve
  <2> QED
    BY <2>1 DEF Reader!Current, Reader!IsData
<1>2. IF Reader!Sound(scanned, times)
      THEN /\ delivered' = delivered \o e
           /\ seq' = [start |-> times[1], stop |-> Reader!invert_ticks(Reader!Current.ticks) + TicksPerBlock,
                      scanning |-> FALSE, blocks |-> scanned]
           /\ Reader!Match(s) /\ UNCHANGED <<step, status>>
      ELSE Reader!Refuse
  BY Zenon DEF Reader!Resolve
<1>3. \A b \in DOMAIN block : reference[b] = IF b = n THEN block[b].references ELSE block[b].references - 1
  OBVIOUS
<1>4. \A b \in DOMAIN block : instant[b] = times[At(b)]
  <2> HIDE DEF At, times
  <2> QED
    OBVIOUS
<1>5. ASSUME NEW b \in DOMAIN block
      PROVE  Fixed(b) = IF b \in g THEN Retimed(block[b], instant[b], reference[b]) ELSE block[b]
  <2>1. instant[b] = times[At(b)] /\ reference[b] = IF b = n THEN block[b].references ELSE block[b].references - 1
    BY <1>3, <1>4
  <2> HIDE DEF instant, reference, g, times, At
  <2>2. CASE b = n
    BY <2>1, <2>2, Zenon DEF Retimed
  <2>3. CASE b # n
    BY <2>1, <2>3, Zenon DEF Retimed
  <2> QED
    BY <2>2, <2>3
<1>6. AllRetimed(block, s, g, instant, reference)
  <2> HIDE DEF Fixed, g, instant, reference
  <2> QED
    BY <1>5 DEF AllRetimed
<1> HIDE DEF Fixed, s, instant, reference
<1>7. ASSUME Reader!Sound(scanned, times) PROVE ResolvedAs(s, scanned, times, instant, reference)
  <2>1. /\ delivered' = delivered \o e /\ Reader!Match(s) /\ step' = step /\ status' = status
        /\ seq' = [start |-> times[1], stop |-> Reader!invert_ticks(Reader!Current.ticks) + TicksPerBlock,
                   scanning |-> FALSE, blocks |-> scanned]
    BY <1>2, <1>7, Zenon
  <2> QED
    BY <1>3, <1>4, <1>6, <2>1, Zenon DEF ResolvedAs
<1> QED
  BY <1>1, <1>2, <1>7

LEMMA ResolveKeeps ==
  ASSUME ReaderInv, Reader!Resolve
  PROVE  ReaderInv'
<1> DEFINE n == Len(block)
           h == HandedIn(delivered)
           scanned == Append(seq.blocks, n)
           g == Reader!ToSet(scanned)
           times == Reader!Repaired(scanned)
<1>1. /\ step = "sequence" /\ block[n].type = "broken" /\ Reader!IsData(block[n].type) /\ seq.scanning = TRUE
      /\ ~ Reader!Sound(scanned, times) => Reader!Refuse
      /\ Reader!Sound(scanned, times) => \E s, instant, reference : ResolvedAs(s, scanned, times, instant, reference)
  BY ResolveIs
<1>7. /\ IsFile(block) /\ n \in Nat \ {0} /\ block[n].references = 1 /\ IsSequence(delivered)
      /\ IsSequence(seq.blocks) /\ h \subseteq 1 .. n - 1 /\ IsSequence(block)
  BY <1>1, AtSequence
<1>8. /\ DOMAIN block = 1 .. n /\ \A b \in 1 .. n : block[b].references \in Int
  BY <1>7, SequenceIs DEF IsFile, IsEntry
<1>9. CASE ~ Reader!Sound(scanned, times)
  <2>1. Reader!Refuse
    BY <1>1, <1>9
  <2>2. step' = "failed" /\ UNCHANGED <<block, log, seq, delivered>>
    BY <2>1 DEF Reader!Refuse, Reader!Stop
  <2>3. IsLog(log')
    BY <2>2 DEF ReaderInv
  <2> QED
    BY <2>2, <2>3, RestKeeps
<1>10. CASE Reader!Sound(scanned, times)
  <2>14. PICK s, instant, reference : ResolvedAs(s, scanned, times, instant, reference)
    BY <1>1, <1>10
  <2> DEFINE e == [i \in DOMAIN scanned |-> Reader!Deliver(s, scanned[i])]
  <2>15. /\ AllRetimed(block, s, g, instant, reference)
         /\ \A b \in DOMAIN block :
              reference[b] = IF b = n THEN block[b].references ELSE block[b].references - 1
    BY <2>14, Zenon DEF ResolvedAs
  <2>1. /\ delivered' = delivered \o e /\ Reader!Match(s) /\ step' = step
        /\ seq'.scanning = FALSE /\ seq'.blocks = scanned /\ {"scanning", "blocks"} \subseteq DOMAIN seq'
    <3> DEFINE k == times[1]
               m == Reader!invert_ticks(Reader!Current.ticks) + TicksPerBlock
    <3>1. /\ delivered' = delivered \o e /\ Reader!Match(s) /\ step' = step
          /\ seq' = [start |-> k, stop |-> m, scanning |-> FALSE, blocks |-> scanned]
      BY <2>14, Zenon DEF ResolvedAs
    <3> HIDE DEF k, m, scanned, e
    <3> QED
      BY <3>1
  <2>2. /\ \A b \in 1 .. n : reference[b] = IF b = n THEN block[b].references ELSE block[b].references - 1
        /\ \A b \in 1 .. n : reference[b] \in Int
    <3>1. ASSUME NEW b \in 1 .. n
          PROVE  /\ reference[b] = IF b = n THEN block[b].references ELSE block[b].references - 1
                 /\ reference[b] \in Int
      <4>1. reference[b] = IF b = n THEN block[b].references ELSE block[b].references - 1
        BY <2>15, <1>8
      <4>2. block[b].references \in Int
        BY <1>8
      <4> QED
        BY <4>1, <4>2
    <3> QED
      BY <3>1
  <2>3. IsSequence(e) /\ HandedIn(e) = g /\ IsSequence(scanned)
    <3>1. IsSequence(scanned)
      BY <1>7, Appended
    <3>2. Len(scanned) \in Nat /\ DOMAIN scanned = 1 .. Len(scanned)
      BY <3>1, SequenceIs
    <3>3. e = [i \in 1 .. Len(scanned) |-> e[i]] /\ DOMAIN e = 1 .. Len(scanned)
      BY <3>2
    <3>4. \A i \in DOMAIN e : e[i].block = scanned[i]
      BY <3>2 DEF Reader!Deliver
    <3>5. IsSequence(e)
      BY <3>2, <3>3, SequenceOf
    <3>6. g = {scanned[i] : i \in DOMAIN scanned}
      BY DEF Reader!ToSet
    <3> HIDE DEF e, scanned, g
    <3> QED
      BY <3>1, <3>2, <3>3, <3>4, <3>5, <3>6 DEF HandedIn
  <2>4. g = {seq.blocks[i] : i \in DOMAIN seq.blocks} \cup {n}
    <3> DEFINE a == seq.blocks
               c == Append(a, n)
    <3>1. /\ Len(a) \in Nat /\ DOMAIN a = 1 .. Len(a) /\ IsSequence(c) /\ Len(c) = Len(a) + 1
          /\ \A k \in 1 .. Len(a) : c[k] = a[k]
          /\ c[Len(a) + 1] = n
      BY <1>7, SequenceIs, Appended
    <3>2. DOMAIN c = 1 .. Len(a) + 1
      BY <3>1, SequenceIs
    <3>3. g = {c[i] : i \in DOMAIN c}
      BY DEF Reader!ToSet
    <3> HIDE DEF a, c, g
    <3>4. 1 .. Len(a) + 1 = (1 .. Len(a)) \cup {Len(a) + 1}
      BY <3>1
    <3>5. {c[i] : i \in DOMAIN c} = {a[i] : i \in DOMAIN a} \cup {n}
      BY <3>1, <3>2, <3>4
    <3> QED
      BY <3>3, <3>5 DEF a
  <2> HIDE DEF e, scanned, times, g
  <2>5. /\ \A b \in AtHand(block) : b \in 1 .. n - 1 /\ b \in g
        /\ g \subseteq AtHand(block) \cup {n} /\ n \in g
        /\ \A b \in g : b # n => b \notin h
    <3>1. /\ \A b \in AtHand(block) :
               /\ b \in 1 .. n - 1 /\ block[b].type = "broken"
               /\ b \in {seq.blocks[i] : i \in DOMAIN seq.blocks}
          /\ \A i \in DOMAIN seq.blocks : seq.blocks[i] \in AtHand(block) /\ seq.blocks[i] \notin h
      BY <1>1, AtSequence
    <3> QED
      BY <2>4, <3>1
  <2>6. g \subseteq 1 .. n
    BY <1>7, <2>5
  <2>7. /\ Alike(block, s)
        /\ \A b \in 1 .. n :
             /\ s[b].references = IF b \in g THEN reference[b] ELSE block[b].references
             /\ b \notin g => s[b].ticks = block[b].ticks
    <3>1. \A b \in g : reference[b] \in Int
      BY <2>2, <2>6
    <3>2. /\ Alike(block, s)
          /\ \A b \in 1 .. Len(block) :
               /\ s[b].references = IF b \in g THEN reference[b] ELSE block[b].references
               /\ b \notin g => s[b].ticks = block[b].ticks
      <4>1. AllRetimed(block, s, g, instant, reference)
        BY <2>15
      <4> HIDE DEF n
      <4> QED
        BY <1>7, <3>1, <4>1, RetimedIs
    <3> QED
      BY <3>2
  <2>8. IsSequence(delivered') /\ HandedIn(delivered') = h \cup g
    BY <1>7, <2>1, <2>3, Joined, HandedAlso
  <2>9. \A b \in 1 .. n - 1 :
          s[b].references = IF b \in g \ h THEN block[b].references - 1 ELSE block[b].references
    <3>1. \A b \in 1 .. n - 1 : b \in 1 .. n /\ b # n
      BY <1>7
    <3> QED
      BY <2>2, <2>5, <2>7, <3>1
  <2>10. s[n].references = 1
    <3>1. n \in 1 .. n
      BY <1>7
    <3> QED
      BY <1>7, <2>2, <2>5, <2>7, <3>1
  <2>11. IsReading(seq') /\ seq'.scanning # TRUE
    BY <2>1, <2>3 DEF IsReading
  <2>12. AtHand(block) \subseteq h \cup g
    BY <2>5
  <2>13. Joins(s, g)
    BY <1>1, <2>1, <2>5, <2>7, <2>8, <2>9, <2>10, <2>11, <2>12 DEF Joins
  <2> QED
    BY <2>13, JoinKeeps
<1> QED
  BY <1>9, <1>10

\* The steps that read nothing, and those that let go of what is none of a sequence.
LEMMA OthersKeep ==
  ASSUME ReaderInv,
         \/ Reader!Start \/ Reader!Exit \/ Reader!Finish \/ Reader!EndSequence
         \/ Reader!Mismatch \/ Reader!NotContiguous
         \/ Reader!Open \/ Reader!SkipEmpty \/ Reader!BeginSequence
  PROVE  ReaderInv'
<1>1. ASSUME step' \notin {"main", "sequence"}, step' = "open" => step = "main",
             UNCHANGED <<block, delivered, seq>>, IsLog(log')
      PROVE  ReaderInv'
  BY <1>1, RestKeeps
<1>2. CASE Reader!Start
  <2>1. step' \in {"open", "failed"} /\ step = "main" /\ UNCHANGED <<block, delivered, seq>>
        /\ log' = [log EXCEPT !.good = log'.good]
    BY <1>2 DEF Reader!Start, ReaderInv, IsLog
  <2>2. IsLog(log')
    BY <2>1 DEF ReaderInv, IsLog
  <2> QED
    BY <1>1, <2>1, <2>2
<1>3. CASE Reader!Exit
  <2>1. step' = step /\ UNCHANGED <<block, delivered, seq, log>> /\ step \in {"done", "failed"}
    BY <1>3 DEF Reader!Exit
  <2>2. IsLog(log')
    BY <2>1 DEF ReaderInv
  <2> QED
    BY <1>1, <2>1, <2>2
<1>4. CASE Reader!Finish \/ Reader!EndSequence \/ Reader!Mismatch \/ Reader!NotContiguous
  <2>1. step' \in {"done", "between", "failed"} /\ UNCHANGED <<block, delivered, seq, log>>
    BY <1>4 DEF Reader!Finish, Reader!EndSequence, Reader!Mismatch, Reader!NotContiguous, Reader!Refuse,
       Reader!Stop
  <2>2. IsLog(log')
    BY <2>1 DEF ReaderInv
  <2> QED
    BY <1>1, <2>1, <2>2
<1>5. CASE Reader!Open
  <2>1. /\ step = "open" /\ Reader!Match(block) /\ step' = "between" /\ seq' = seq /\ delivered' = delivered
    BY <1>5 DEF Reader!Open
  <2>2. ~ Reader!IsData(block[Len(block)].type) /\ IsReading(seq')
    BY <2>1 DEF ReaderInv
  <2> QED
    BY <2>1, <2>2, SkipKeeps
<1>6. CASE Reader!SkipEmpty
  <2>1. /\ step = "between" /\ block[Len(block)].type = "empty" /\ Reader!Match(block) /\ step' = step
        /\ seq' = seq /\ delivered' = delivered
    BY <1>6 DEF Reader!SkipEmpty, Reader!Current
  <2>2. ~ Reader!IsData(block[Len(block)].type) /\ IsReading(seq')
    BY <2>1 DEF ReaderInv, Reader!IsData
  <2> QED
    BY <2>1, <2>2, SkipKeeps
<1>7. CASE Reader!BeginSequence
  <2>1. /\ block[Len(block)].type = "header" /\ Reader!Match(block) /\ step' = "sequence"
        /\ seq' = Reader!NoSequence /\ delivered' = delivered
    BY <1>7 DEF Reader!BeginSequence, Reader!Current
  <2>2. ~ Reader!IsData(block[Len(block)].type)
    BY <2>1 DEF Reader!IsData
  <2>3. IsReading(seq')
    BY <2>1, NoBlocks DEF Reader!NoSequence, IsReading
  <2> QED
    BY <2>1, <2>2, <2>3, SkipKeeps
<1> QED
  BY <1>2, <1>3, <1>4, <1>5, <1>6, <1>7

LEMMA ReaderKeeps == ReaderInv /\ [Reader!Next]_Reader!vars => ReaderInv'
<1>1. ASSUME ReaderInv, Reader!Next PROVE ReaderInv'
  BY <1>1, OthersKeep, AddKeeps, ScanKeeps, ResolveKeeps, ContinueKeeps DEF Reader!Next
<1>2. ASSUME ReaderInv, UNCHANGED Reader!vars PROVE ReaderInv'
  <2>1. step' = step /\ UNCHANGED <<block, delivered, seq, log>>
    BY <1>2 DEF Reader!vars
  <2>2. IsLog(log')
    BY <2>1, <1>2 DEF ReaderInv
  <2> QED
    BY <1>2, <2>1, <2>2, RestKeeps
<1> QED
  BY <1>1, <1>2

\* A block is held back only while its sequence has shown no hour that can be told, and has a reference exactly
\* as long, for any file the recorder leaves and any length of an hour and of a block (block.cpp:160-170,
\* sequence.cpp:139-240).
THEOREM BlocksAreHeld == Reader!Spec => []HeldUntilTold
<1>1. ReaderInv => HeldUntilTold
  BY HeldIs DEF ReaderInv, HeldUntilTold
<1> QED
  BY <1>1, InitReader, ReaderKeeps, PTL DEF Reader!Spec

----------------------------------------------------------------------------
(* The log reader: the times it tells *)

LEMMA LeastOf ==
  ASSUME NEW T, T \subseteq Nat, T # {}
  PROVE  \E a \in T : \A b \in T : a <= b
<1>1. PICK a \in T : \A b \in T : <<b, a>> \notin OpToRel(<, Nat)
  BY NatLessThanWellFounded, WFMin
<1>2. \A b \in T : ~ (b < a)
  BY <1>1, Zenon DEF OpToRel
<1> QED
  BY <1>2

IsRepair(scanned, f) ==
  f = [i \in 1 .. Len(scanned) |->
        LET before == IF i = Len(scanned) THEN Reader!invert_ticks(Reader!Current.ticks)
                                          ELSE f[i + 1] - TicksPerBlock
        IN before + Reader!broken_ticks_difference(before, block[scanned[i]].ticks)]

LEMMA RepairIs ==
  ASSUME NEW scanned, NEW f, IsRepair(scanned, f)
  PROVE  IsRepair(scanned, Reader!Repaired(scanned))
<1>1. Reader!Repaired(scanned) = CHOOSE g : IsRepair(scanned, g)
  BY Zenon DEF Reader!Repaired, IsRepair
<1> HIDE DEF IsRepair
<1> QED
  BY <1>1, Zenon

LEMMA RepairsAgree ==
  ASSUME NEW scanned, Len(scanned) \in Nat, NEW f, NEW g, IsRepair(scanned, f), IsRepair(scanned, g)
  PROVE  f = g
<1> DEFINE n == Len(scanned)
           Onwards(h, i) == IF i = n THEN Reader!invert_ticks(Reader!Current.ticks) ELSE h[i + 1] - TicksPerBlock
           Worked(b, i) == b + Reader!broken_ticks_difference(b, block[scanned[i]].ticks)
           T == {k \in Nat : k \in 0 .. n - 1 /\ f[n - k] # g[n - k]}
<1>1. f = [i \in 1 .. n |-> Worked(Onwards(f, i), i)] /\ g = [i \in 1 .. n |-> Worked(Onwards(g, i), i)]
  BY DEF IsRepair
<1> HIDE DEF Worked, n
<1>2. n \in Nat
  BY DEF n
<1>3. SUFFICES T = {}
  <2>1. ASSUME T = {}, NEW i \in 1 .. n PROVE f[i] = g[i]
    <3>1. n - i \in 0 .. n - 1 /\ n - (n - i) = i
      BY <1>2
    <3> QED
      BY <2>1, <3>1
  <2> QED
    BY <1>1, <2>1
<1>4. SUFFICES ASSUME T # {} PROVE FALSE
  OBVIOUS
<1>5. PICK k \in T : \A j \in T : k <= j
  BY <1>4, LeastOf
<1>6. k \in 0 .. n - 1 /\ f[n - k] # g[n - k] /\ n - k \in 1 .. n
  BY <1>2, <1>5
<1>7. Onwards(f, n - k) = Onwards(g, n - k)
  <2>1. CASE k = 0
    BY <1>2, <2>1
  <2>2. CASE k # 0
    <3>1. k - 1 \in 0 .. n - 1 /\ k - 1 \in Nat /\ ~ (k <= k - 1) /\ n - (k - 1) = (n - k) + 1
      BY <1>2, <1>6, <2>2
    <3>2. k - 1 \notin T
      BY <1>5, <3>1
    <3>3. f[n - k + 1] = g[n - k + 1]
      BY <3>1, <3>2
    <3> QED
      BY <3>3
  <2> QED
    BY <2>1, <2>2
<1>8. f[n - k] = Worked(Onwards(f, n - k), n - k) /\ g[n - k] = Worked(Onwards(g, n - k), n - k)
  <2> HIDE DEF Onwards
  <2> QED
    BY <1>1, <1>6
<1> QED
  BY <1>6, <1>7, <1>8
LEMMA DivisionIs ==
  ASSUME NEW m \in Nat \ {0}, NEW x \in Int
  PROVE  x \div m \in Int /\ x % m \in 0 .. m - 1 /\ x = m * (x \div m) + (x % m)
<1>1. x \div m \in Int
  OBVIOUS
<1>2. x % m \in 0 .. m - 1
  OBVIOUS
<1>3. x = m * (x \div m) + (x % m)
  OBVIOUS
<1> QED
  BY <1>1, <1>2, <1>3

LEMMA NoLess ==
  ASSUME NEW m \in Nat \ {0}, NEW k \in Int, k >= 1
  PROVE  m * k >= m
<1>1. k - 1 \in Nat
  OBVIOUS
<1> DEFINE j == k - 1
<1>2. m * k = m * j + m
  OBVIOUS
<1>3. \A i \in Nat : m * i >= 0
  OBVIOUS
<1> QED
  BY <1>1, <1>2, <1>3

LEMMA DivisionOf ==
  ASSUME NEW m \in Nat \ {0}, NEW q \in Int, NEW r \in 0 .. m - 1
  PROVE  (m * q + r) \div m = q /\ (m * q + r) % m = r
<1> DEFINE x == m * q + r
           p == x \div m
           s == x % m
<1>1. p \in Int /\ s \in 0 .. m - 1 /\ x = m * p + s
  <2>1. x \in Int
    OBVIOUS
  <2> HIDE DEF x
  <2> QED
    BY <2>1, DivisionIs
<1>2. m * q + r = m * p + s
  BY <1>1
<1> HIDE DEF p, s, x
<1>3. m * (q - p) = s - r
  BY <1>1, <1>2
<1>4. m * (p - q) = r - s
  BY <1>1, <1>2
<1>5. ~ (q - p >= 1)
  <2>1. q - p \in Int
    BY <1>1
  <2> QED
    BY <1>1, <1>3, <2>1, NoLess
<1>6. ~ (p - q >= 1)
  <2>1. p - q \in Int
    BY <1>1
  <2> QED
    BY <1>1, <1>4, <2>1, NoLess
<1>7. p = q
  BY <1>1, <1>5, <1>6
<1>8. s = r
  BY <1>1, <1>2, <1>7
<1> QED
  BY <1>7, <1>8 DEF p, s, x

LEMMA DifferenceIs ==
  ASSUME Reader!ConstantsOK, NEW x \in Int, NEW y \in Int, y - x \in -1 .. 1, NEW c,
         c % TicksPerHour = y % TicksPerHour
  PROVE  Reader!broken_ticks_difference(x, c) = y - x
<1> DEFINE H == TicksPerHour
           e == y - x
           q == x \div H
           r == x % H
           p == y \div H
           s == y % H
           d == s - r
<1>1. /\ H \in Nat \ {0} /\ Threshold \in Int /\ Threshold >= 2 /\ Threshold <= H - 1
      /\ e \in -1 .. 1
  BY DEF Reader!ConstantsOK
<1> HIDE DEF H
<1>2. /\ q \in Int /\ r \in 0 .. H - 1 /\ x = H * q + r
      /\ p \in Int /\ s \in 0 .. H - 1 /\ y = H * p + s
  BY <1>1, DivisionIs
<1>3. H * (p - q) = e - d /\ H * (q - p) = d - e
  <2> HIDE DEF q, r, p, s
  <2> QED
    BY <1>1, <1>2
<1> HIDE DEF q, r, p, s, e
<1>4. d \in Int /\ d < H /\ d > - H
  BY <1>1, <1>2
<1>5. d = e \/ d = e + H \/ d = e - H
  <2>1. p - q \in -1 .. 1
    <3>1. ~ (p - q >= 2)
      <4>1. ASSUME p - q >= 2 PROVE H * (p - q - 1) >= H /\ p - q - 1 \in Int
        BY <1>1, <1>2, <4>1, NoLess
      <4> QED
        BY <1>1, <1>2, <1>3, <1>4, <4>1
    <3>2. ~ (q - p >= 2)
      <4>1. ASSUME q - p >= 2 PROVE H * (q - p - 1) >= H /\ q - p - 1 \in Int
        BY <1>1, <1>2, <4>1, NoLess
      <4> QED
        BY <1>1, <1>2, <1>3, <1>4, <4>1
    <3> QED
      BY <1>2, <3>1, <3>2
  <2>2. p - q = 0 \/ p - q = 1 \/ p - q = -1
    BY <1>2, <2>1
  <2> QED
    BY <1>1, <1>2, <1>3, <1>4, <2>2
<1>6. Reader!broken_ticks_difference(x, c) =
        IF Reader!Near(d) THEN d ELSE IF Reader!Near(d - H) THEN d - H ELSE d + H
  BY DEF Reader!broken_ticks_difference, r, s, H
<1> HIDE DEF d
<1>7. Reader!Near(e)
  BY <1>1 DEF Reader!Near
<1>8. CASE d = e
  BY <1>6, <1>7, <1>8 DEF e
<1>9. CASE d = e + H
  <2>1. ~ Reader!Near(d)
    BY <1>1, <1>9 DEF Reader!Near
  <2>2. d - H = e
    BY <1>1, <1>9
  <2> QED
    BY <1>6, <1>7, <2>1, <2>2 DEF e
<1>10. CASE d = e - H
  <2>1. ~ Reader!Near(d) /\ ~ Reader!Near(d - H)
    BY <1>1, <1>10 DEF Reader!Near
  <2>2. d + H = e
    BY <1>1, <1>10
  <2> QED
    BY <1>6, <2>1, <2>2 DEF e
<1> QED
  BY <1>5, <1>8, <1>9, <1>10

\* The day, the hour and the rest of a time.
IsClock(t, day, hour, rest) ==
  /\ day \in Int /\ hour \in 0 .. 23 /\ rest \in 0 .. TicksPerHour - 1
  /\ t = day * Reader!ticks_per_day + hour * TicksPerHour + rest

LEMMA ClockIs ==
  ASSUME Reader!ConstantsOK, NEW day, NEW hour, NEW rest, NEW t, IsClock(t, day, hour, rest)
  PROVE  /\ t \in Int /\ t % TicksPerHour = rest /\ t \div Reader!ticks_per_day = day /\ Reader!Hour(t) = hour
         /\ Reader!ZeroHour(t) = day * Reader!ticks_per_day + rest
<1> DEFINE H == TicksPerHour
           D == 24 * H
<1> USE DEF IsClock
<1>1. H \in Nat \ {0} /\ D \in Nat \ {0} /\ Reader!ticks_per_day = D
  BY DEF Reader!ConstantsOK, Reader!ticks_per_day
<1> DEFINE q == 24 * day + hour
<1>2. t = H * q + rest /\ t \in Int
  <2>1. t = day * (24 * H) + hour * H + rest
    BY <1>1
  <2> HIDE DEF H
  <2> QED
    BY <1>1, <2>1
<1>3. t % H = rest /\ t \div H = q
  <2>1. q \in Int
    OBVIOUS
  <2>2. rest \in 0 .. H - 1
    OBVIOUS
  <2> HIDE DEF H, q
  <2>3. (H * q + rest) \div H = q /\ (H * q + rest) % H = rest
    BY <1>1, <2>1, <2>2, DivisionOf
  <2> QED
    BY <1>2, <2>3
<1> DEFINE r == hour * H + rest
<1>4. r \in 0 .. D - 1
  <2>1. hour * H + rest = H * hour + rest
    BY <1>1
  <2>2. H * hour >= 0
    BY <1>1
  <2>3. H * 23 >= H * hour
    <3>1. 23 - hour \in Nat
      OBVIOUS
    <3> DEFINE k == 23 - hour
    <3>2. \A j \in Nat : H * j >= 0
      BY <1>1
    <3>3. H * 23 = H * hour + H * k
      BY <1>1
    <3> HIDE DEF k
    <3> QED
      BY <1>1, <3>1, <3>2, <3>3 DEF k
  <2> DEFINE p == H * hour
  <2>4. p \in Int /\ p >= 0 /\ 23 * H >= p /\ rest \in 0 .. H - 1 /\ H \in Int
    <3>1. H * 23 = 23 * H
      BY <1>1
    <3>2. rest \in 0 .. H - 1 /\ hour \in Int
      OBVIOUS
    <3>3. H \in Int
      BY <1>1
    <3>4. p \in Int
      BY <3>2, <3>3
    <3>5. p >= 0 /\ H * 23 >= p
      BY <2>2, <2>3
    <3> HIDE DEF H, p
    <3> QED
      BY <3>1, <3>2, <3>3, <3>4, <3>5
  <2>5. r = p + rest
    <3> HIDE DEF H
    <3> QED
      BY <2>1
  <2> HIDE DEF H, p, r
  <2> QED
    BY <2>4, <2>5 DEF D
<1>5. t \div D = day
  <2>1. t = D * day + r
    BY <1>1
  <2> HIDE DEF D, H, r
  <2>2. (D * day + r) \div D = day
    BY <1>1, <1>4, DivisionOf
  <2> QED
    BY <2>1, <2>2
<1>6. (24 * day + hour) % 24 = hour
  BY DivisionOf
<1> QED
  BY <1>1, <1>2, <1>3, <1>5, <1>6 DEF Reader!Hour, Reader!ZeroHour

LEMMA TimeIs ==
  ASSUME Reader!ConstantsOK, NEW t \in Int
  PROVE  \E day, hour, rest : IsClock(t, day, hour, rest)
<1> DEFINE H == TicksPerHour
           k == t \div H
           day == k \div 24
           hour == k % 24
           rest == t % H
<1>1. H \in Nat \ {0} /\ Reader!ticks_per_day = 24 * H
  BY DEF Reader!ConstantsOK, Reader!ticks_per_day
<1>2. k \in Int /\ rest \in 0 .. H - 1 /\ t = H * k + rest
  BY <1>1, DivisionIs
<1> HIDE DEF k, rest
<1>3. day \in Int /\ hour \in 0 .. 23 /\ k = 24 * day + hour
  BY <1>2, DivisionIs
<1> HIDE DEF day, hour
<1>4. t = day * (24 * H) + hour * H + rest
  <2> HIDE DEF H
  <2> QED
    BY <1>1, <1>2, <1>3
<1>5. IsClock(t, day, hour, rest)
  BY <1>1, <1>2, <1>3, <1>4 DEF IsClock
<1> QED
  BY <1>5

\* What the early firmware showed: the hour is another, the rest of it is not.
LEMMA ShownIs ==
  ASSUME Reader!ConstantsOK, NEW t \in Int
  PROVE  /\ Reader!convert_ticks(t) \in Int /\ Reader!convert_ticks(t) % TicksPerHour = t % TicksPerHour
         /\ Reader!Hour(Reader!convert_ticks(t)) \in Reader!hour_invertable => Reader!invert_ticks(Reader!convert_ticks(t)) = t
<1>1. PICK day, hour, rest : IsClock(t, day, hour, rest)
  BY TimeIs
<1> DEFINE shown == Reader!hour_conversion[hour]
           u == Reader!convert_ticks(t)
           H == TicksPerHour
           D == Reader!ticks_per_day
<1>2. H \in Nat \ {0} /\ D \in Int
  BY DEF Reader!ConstantsOK, Reader!ticks_per_day
<1>3. t % H = rest /\ Reader!Hour(t) = hour /\ Reader!ZeroHour(t) = day * D + rest
  BY <1>1, ClockIs
<1>4. shown \in 0 .. 23 /\ (shown \in Reader!hour_invertable => shown + 1 = hour)
  BY <1>1 DEF IsClock, Reader!hour_conversion, Reader!hour_invertable
<1>5. u = (day + 1) * D + shown * H + rest
  <2>1. u = (day * D + rest) + shown * H + D
    BY <1>3 DEF Reader!convert_ticks
  <2> HIDE DEF shown, H, D, u
  <2> QED
    BY <1>1, <1>2, <1>4, <2>1 DEF IsClock
<1> HIDE DEF shown, u
<1>6. u \in Int /\ u % H = rest /\ Reader!Hour(u) = shown /\ Reader!ZeroHour(u) = (day + 1) * D + rest
  <2> DEFINE next == day + 1
  <2>1. next \in Int
    BY <1>1 DEF IsClock
  <2>2. u = next * Reader!ticks_per_day + shown * TicksPerHour + rest
    BY <1>5
  <2>4. IsClock(u, next, shown, rest)
    BY <1>1, <1>4, <2>1, <2>2 DEF IsClock
  <2> HIDE DEF next, H, D
  <2>3. /\ u \in Int /\ u % TicksPerHour = rest /\ Reader!Hour(u) = shown
        /\ Reader!ZeroHour(u) = next * Reader!ticks_per_day + rest
    BY <2>4, ClockIs
  <2> QED
    BY <2>3 DEF H, D, next
<1>7. ASSUME shown \in Reader!hour_invertable PROVE Reader!invert_ticks(u) = t
  <2>1. Reader!invert_ticks(u) = (day + 1) * D + rest + hour * H - D
    BY <1>4, <1>6, <1>7 DEF Reader!invert_ticks, Reader!hour_inverse
  <2>2. t = day * D + hour * H + rest /\ day \in Int /\ hour \in Int /\ rest \in Int
    BY <1>1 DEF IsClock
  <2> HIDE DEF H, D
  <2> QED
    BY <1>2, <2>1, <2>2
<1> QED
  BY <1>3, <1>6, <1>7 DEF u

\* Outside of the leap years the reader makes of the ticks of a year what they are.
LEMMA StampIs ==
  ASSUME Reader!ConstantsOK, NEW t \in Int, Reader!YearOf(t) \in 0 .. 99, Reader!YearOf(t) % 4 # 0, NEW type
  PROVE  Reader!Stamp(type, t) = IF type = "broken" THEN Reader!convert_ticks(t) ELSE t
<1> DEFINE y == Reader!YearOf(t)
           D == Reader!ticks_per_day
           N == DaysPerYear
<1>1. D \in Int /\ N \in Int /\ y \in 0 .. 99 /\ y % 4 # 0
  BY DEF Reader!ConstantsOK, Reader!ticks_per_day
<1>2. Reader!Ticks(y, Reader!rtc_ticks(t)) = (N * y + y \div 4 + 1) * D + (t - (N * y + (y + 3) \div 4) * D)
  BY DEF Reader!Ticks, Reader!rtc_ticks, Reader!YearStart
<1> HIDE DEF y, D, N
<1>3. y \div 4 + 1 = (y + 3) \div 4
  BY <1>1
<1>4. Reader!Ticks(y, Reader!rtc_ticks(t)) = t
  <2> DEFINE a == (y + 3) \div 4
             m == N * y
  <2>1. a \in Int /\ m \in Int
    BY <1>1
  <2>2. Reader!Ticks(y, Reader!rtc_ticks(t)) = (m + a) * D + (t - (m + a) * D)
    <3>1. m + y \div 4 + 1 = m + a
      BY <1>1, <1>3
    <3> QED
      BY <1>2, <3>1
  <2> HIDE DEF a, m
  <2> QED
    BY <1>1, <2>1, <2>2
<1> QED
  BY <1>4 DEF Reader!Stamp, y
----------------------------------------------------------------------------
\* What the program makes of a time, right or as the early firmware showed it, and a block on its time.
Shown(type, instant) == IF type = "broken" THEN Reader!convert_ticks(instant) ELSE instant
OnTime(told, k) == told[k + 1] - (told[k] + TicksPerBlock) \in -1 .. 1

Kinds == {"header", "data", "broken", "empty", "invalid", "eof"}

\* The log l tells the time of each of the blocks s, and the last of them is as it was then.
Timed(s, l) ==
  /\ l = [last |-> l.last, now |-> l.now, slips |-> l.slips, good |-> l.good, time |-> l.time]
  /\ IsSequence(l.time) /\ Len(l.time) = Len(s) /\ l.now \in Int /\ l.good \in BOOLEAN
  /\ \A k \in 1 .. Len(s) : l.time[k] \in Int
  /\ Reader!IsData(s[Len(s)].type) =>
       /\ l.now = l.time[Len(s)] + TicksPerBlock
       /\ s[Len(s)].ticks = Shown(s[Len(s)].type, l.time[Len(s)])

\* DeliveredTrue of the calls d.
TellsTrue(d, told) ==
  \A i, j \in DOMAIN d :
    /\ d[i].ticks = told[d[i].block]
    /\ i < j => d[i].block < d[j].block

\* The l blocks a sequence holds back are the last ones before the one at hand, as they were shown and each on its time.
HoldsLast(s, told, held, l, h) ==
  /\ l \in Nat /\ l < Len(s) /\ held = [i \in 1 .. l |-> Len(s) - 1 - l + i]
  /\ \A k \in Len(s) - l .. Len(s) - 1 :
       s[k].type = "broken" /\ s[k].ticks = Reader!convert_ticks(told[k]) /\ OnTime(told, k)
  /\ \A b \in h : b < Len(s) - l

\* A sequence q at a data block knows when the block is due.
KnowsTime(s, told, q, h) ==
  /\ Len(s) >= 2 /\ s[Len(s) - 1].type \in {"header", s[Len(s)].type}
  /\ Reader!IsData(s[Len(s) - 1].type) => OnTime(told, Len(s) - 1)
  /\ q.start # -1 \/ q.scanning # TRUE =>
       Reader!IsData(s[Len(s) - 1].type) /\ q.stop = told[Len(s) - 1] + TicksPerBlock
  /\ q.scanning = TRUE /\ s[Len(s)].type = "broken" =>
       q.start = -1 /\ HoldsLast(s, told, q.blocks, Len(q.blocks), h)

TimesInv ==
  /\ Timed(block, log) /\ TellsTrue(delivered, log.time)
  /\ seq = [start |-> seq.start, stop |-> seq.stop, scanning |-> seq.scanning, blocks |-> seq.blocks]
  /\ step \in {"main", "open"} => log.last = "empty"
  /\ step \in {"between", "sequence"} =>
       /\ log.last = block[Len(block)].type /\ log.last \in Kinds
       /\ log.last = "invalid" => log.good = FALSE
  /\ step = "between" => ~ Reader!IsData(block[Len(block)].type)
  /\ step = "failed" => log.good = FALSE
  /\ status = -1 => step = "failed"
  /\ step = "sequence" /\ Reader!IsData(block[Len(block)].type) =>
       KnowsTime(block, log.time, seq, HandedIn(delivered))

\* No block of the recording was written in a leap year of the calendar, or out of its century.
InOrdinaryYears == \A k \in DOMAIN log.time : Reader!YearOf(log.time[k]) \in 0 .. 99 /\ Reader!YearOf(log.time[k]) % 4 # 0

----------------------------------------------------------------------------
(* What a read tells *)

\* A block has been read behind the blocks at hand, whose times the blocks s have.
Told(s) ==
  /\ Grows(block, block') /\ \A b \in 1 .. Len(block) : block'[b].ticks = s[b].ticks
  /\ Timed(block', log')
  /\ \A k \in 1 .. Len(block) : log'.time[k] = log.time[k]
  /\ log'.last = block'[Len(block')].type /\ log'.last \in Kinds
  /\ log'.last = "invalid" => log'.good = FALSE
  /\ Reader!IsData(log'.last) =>
       log.last \in {"header", log'.last} /\ log'.time[Len(block')] - log.now \in -1 .. 1

LEMMA MatchTells ==
  ASSUME Reader!ConstantsOK, IsFile(block), Timed(block, log), NEW s, Alike(block, s), Reader!Match(s), InOrdinaryYears'
  PROVE  Told(s)
<1> DEFINE n == Len(block)
           u == Reader!Released(s, Len(s))
<1>1. IsLog(log)
  <2> DEFINE a == log.last
             b == log.now
             c == log.slips
             d == log.good
             e == log.time
  <2>1. log = [last |-> a, now |-> b, slips |-> c, good |-> d, time |-> e]
    BY DEF Timed
  <2> HIDE DEF a, b, c, d, e
  <2> QED
    BY <2>1 DEF IsLog
<1>2. /\ Grows(block, block')
      /\ \A b \in 1 .. n : block'[b].ticks = s[b].ticks
      /\ log'.last = block'[Len(block')].type
      /\ Reader!IsData(block'[Len(block')].type) => log.last \in {"header", block'[Len(block')].type}
  BY <1>1, MatchIs
<1>3. Reader!Read(u)
  BY DEF Reader!Match
<1>4. n \in Nat \ {0} /\ Len(block') = n + 1
  BY <1>2, FileIs DEF Grows
<1>5. IsSequence(u) /\ Len(u) = n
  <2>1. Len(s) = n /\ IsFile(s)
    BY DEF Alike
  <2>2. Len(s) \in 1 .. Len(s)
    BY <1>4, <2>1
  <2> QED
    BY <2>1, <2>2, ReleasedIs DEF Alike, IsFile
<1> HIDE DEF u
<1>6. PICK type \in {"header", "data", "broken", "empty", "invalid", "eof"}, slip \in {-1, 0, 1} :
        LET instant == log.now + slip
            last == Len(u) + 1
        IN /\ last > LogBlocks \/ (~Reader!IsData(type) /\ Reader!Others = MaxOthers)
                => type \in {"eof", "invalid"}
           /\ ~Reader!IsData(type) => slip = 0
           /\ Reader!Follows(type, instant)
           /\ block' = Append(u,
                [type |-> type, references |-> 1,
                 ticks |-> IF Reader!IsData(type) THEN Reader!Stamp(type, instant) ELSE 0])
           /\ log' = [log EXCEPT
                !.last = type,
                !.good = @ /\ type # "invalid",
                !.slips = IF slip = 0 THEN @ ELSE @ + 1,
                !.now = IF Reader!IsData(type) THEN instant + TicksPerBlock ELSE @,
                !.time = Append(@, instant)]
  BY <1>3, Zenon DEF Reader!Read
<1> DEFINE t == log.now + slip
           e == [type |-> type, references |-> 1, ticks |-> IF Reader!IsData(type) THEN Reader!Stamp(type, t) ELSE 0]
           now == IF Reader!IsData(type) THEN t + TicksPerBlock ELSE log.now
           good == log.good /\ type # "invalid"
           slips == IF slip = 0 THEN log.slips ELSE log.slips + 1
           told == Append(log.time, t)
<1>7. log' = [last |-> type, now |-> now, slips |-> slips, good |-> good, time |-> told]
  <2> DEFINE a == log.last
             b == log.now
             c == log.slips
             d == log.good
             l == log.time
  <2>1. log = [last |-> a, now |-> b, slips |-> c, good |-> d, time |-> l]
    BY DEF Timed
  <2>2. log' = [log EXCEPT !.last = type, !.good = good, !.slips = slips, !.now = now, !.time = told]
    BY <1>6
  <2> HIDE DEF a, b, c, d, l, good, slips, now, told
  <2> QED
    BY <2>1, <2>2
<1>8. block' = Append(u, e)
  BY <1>6
<1>9. /\ log.now \in Int /\ IsSequence(log.time) /\ Len(log.time) = n /\ log.good \in BOOLEAN
      /\ \A k \in 1 .. n : log.time[k] \in Int
  BY DEF Timed
<1>10. t \in Int /\ t - log.now \in -1 .. 1 /\ now \in Int
  <2>1. t \in Int /\ t - log.now \in -1 .. 1
    BY <1>9
  <2>2. TicksPerBlock \in Int
    BY DEF Reader!ConstantsOK
  <2> HIDE DEF t
  <2> QED
    BY <1>9, <2>1, <2>2
<1>11. e.type = type /\ e.ticks = IF Reader!IsData(type) THEN Reader!Stamp(type, t) ELSE 0
  <2> DEFINE v == IF Reader!IsData(type) THEN Reader!Stamp(type, t) ELSE 0
  <2> HIDE DEF v, t
  <2>1. e = [type |-> type, references |-> 1, ticks |-> v]
    BY DEF v
  <2> HIDE DEF e
  <2>2. e.type = type /\ e.ticks = v
    BY <2>1
  <2> QED
    BY <2>2 DEF v
<1>20. type \in Kinds
  BY DEF Kinds
<1>12. good \in BOOLEAN /\ (type = "invalid" => good = FALSE)
  BY <1>9
<1> HIDE DEF t, e, now, slips, good, told
<1>13. /\ log'.last = type /\ log'.now = now /\ log'.slips = slips /\ log'.good = good /\ log'.time = told
  BY <1>7
<1>14. /\ IsSequence(told) /\ Len(told) = n + 1
       /\ \A k \in 1 .. n : told[k] = log.time[k]
       /\ told[n + 1] = t
  BY <1>9, Appended DEF told
<1>15. block'[n + 1] = e
  BY <1>5, <1>8, Appended
<1>16. Reader!IsData(type) => e.ticks = Shown(type, t)
  <2>1. Reader!YearOf(t) \in 0 .. 99 /\ Reader!YearOf(t) % 4 # 0
    <3>1. n + 1 \in DOMAIN log'.time
      BY <1>4, <1>13, <1>14, SequenceIs
    <3>2. log'.time[n + 1] = t
      BY <1>13, <1>14
    <3> QED
      BY <3>1, <3>2 DEF InOrdinaryYears
  <2> QED
    BY <1>10, <1>11, <2>1, StampIs DEF Shown
<1>17. \A k \in 1 .. n + 1 : told[k] \in Int
  BY <1>4, <1>9, <1>10, <1>14
<1>18. Reader!IsData(type) => now = told[n + 1] + TicksPerBlock
  BY <1>14 DEF now
<1>19. Timed(block', log')
  <2>1. log' = [last |-> log'.last, now |-> log'.now, slips |-> log'.slips, good |-> log'.good,
                time |-> log'.time]
    BY <1>7, <1>13
  <2> QED
    BY <1>4, <1>10, <1>11, <1>12, <1>13, <1>14, <1>15, <1>16, <1>17, <1>18, <2>1 DEF Timed
<1> QED
  BY <1>2, <1>4, <1>10, <1>11, <1>12, <1>13, <1>14, <1>15, <1>19, <1>20 DEF Told

\* The calls so far tell what they told.
LEMMA TellsStill ==
  ASSUME NEW d, NEW told, NEW now, NEW n, TellsTrue(d, told), HandedIn(d) \subseteq 1 .. n,
         \A k \in 1 .. n : now[k] = told[k]
  PROVE  TellsTrue(d, now)
<1>1. \A i \in DOMAIN d : d[i].block \in 1 .. n
  BY DEF HandedIn
<1> QED
  BY <1>1 DEF TellsTrue

----------------------------------------------------------------------------
(* The steps *)

LEMMA RestTells ==
  ASSUME TimesInv, block' = block, delivered' = delivered, seq' = seq,
         log' = log \/ (log' = [log EXCEPT !.good = log'.good] /\ log'.good \in BOOLEAN /\ step = "main"),
         step' \in {"main", "open"} => step \in {"main", "open"},
         step' = "between" => step = "sequence" /\ ~ Reader!IsData(block[Len(block)].type) /\ log' = log,
         step' = "sequence" => step = "sequence" /\ log' = log,
         step' = "failed" => log'.good = FALSE,
         status' = -1 => step' = "failed"
  PROVE  TimesInv'
<1>1. Timed(block, log')
  <2>1. CASE log' = log
    BY <2>1 DEF TimesInv
  <2>2. CASE log' = [log EXCEPT !.good = log'.good] /\ log'.good \in BOOLEAN
    <3> DEFINE a == log.last
               b == log.now
               c == log.slips
               l == log.time
               g == log'.good
    <3>1. log' = [last |-> a, now |-> b, slips |-> c, good |-> g, time |-> l]
      BY <2>2 DEF TimesInv, Timed
    <3>2. g \in BOOLEAN
      BY <2>2
    <3> HIDE DEF a, b, c, l, g
    <3>3. log'.last = a /\ log'.now = b /\ log'.slips = c /\ log'.good = g /\ log'.time = l
      BY <3>1
    <3>4. log' = [last |-> log'.last, now |-> log'.now, slips |-> log'.slips, good |-> log'.good,
                  time |-> log'.time]
      BY <3>1, <3>3
    <3>5. Timed(block, log)
      BY DEF TimesInv
    <3>6. log'.now = log.now /\ log'.time = log.time /\ log'.good \in BOOLEAN
      BY <3>2, <3>3 DEF b, l
    <3> QED
      BY <3>4, <3>5, <3>6 DEF Timed
  <2> QED
    BY <2>1, <2>2
<1>2. log'.time = log.time /\ log'.last = log.last
  <2>1. CASE log' = log
    BY <2>1
  <2>2. CASE log' = [log EXCEPT !.good = log'.good]
    <3> DEFINE a == log.last
               b == log.now
               c == log.slips
               l == log.time
               g == log'.good
    <3>1. log' = [last |-> a, now |-> b, slips |-> c, good |-> g, time |-> l]
      BY <2>2 DEF TimesInv, Timed
    <3> HIDE DEF a, b, c, l, g
    <3>2. log'.last = a /\ log'.time = l
      BY <3>1
    <3> QED
      BY <3>2 DEF a, l
  <2> QED
    BY <2>1, <2>2
<1>3. TellsTrue(delivered', log'.time)
  BY <1>2 DEF TimesInv
<1>4. /\ seq = [start |-> seq.start, stop |-> seq.stop, scanning |-> seq.scanning, blocks |-> seq.blocks]
      /\ step \in {"main", "open"} => log.last = "empty"
      /\ step \in {"between", "sequence"} =>
           /\ log.last = block[Len(block)].type /\ log.last \in Kinds
           /\ log.last = "invalid" => log.good = FALSE
      /\ step = "sequence" /\ Reader!IsData(block[Len(block)].type) =>
           KnowsTime(block, log.time, seq, HandedIn(delivered))
  BY DEF TimesInv
<1>5. step' \in {"between", "sequence"} =>
        /\ log'.last = block'[Len(block')].type /\ log'.last \in Kinds
        /\ log'.last = "invalid" => log'.good = FALSE
  BY <1>4
<1>6. step' = "sequence" /\ Reader!IsData(block'[Len(block')].type) =>
        KnowsTime(block', log'.time, seq', HandedIn(delivered'))
  BY <1>4
<1> QED
  BY <1>1, <1>2, <1>3, <1>4, <1>5, <1>6 DEF TimesInv

\* What the times are at a data block of a sequence.
LEMMA AtItsTime ==
  ASSUME Reader!ConstantsOK, ReaderInv, TimesInv, step = "sequence", Reader!IsData(block[Len(block)].type)
  PROVE  /\ Len(block) \in Nat \ {0, 1} /\ IsFile(block) /\ IsSequence(delivered) /\ IsReading(seq)
         /\ \A k \in 1 .. Len(block) : log.time[k] \in Int
         /\ TicksPerBlock \in Int /\ log.now = log.time[Len(block)] + TicksPerBlock
         /\ block[Len(block)].ticks = Shown(block[Len(block)].type, log.time[Len(block)])
         /\ HandedIn(delivered) \subseteq 1 .. Len(block) - 1
         /\ TellsTrue(delivered, log.time) /\ Timed(block, log)
         /\ log.last = block[Len(block)].type
         /\ status # -1
         /\ seq = [start |-> seq.start, stop |-> seq.stop, scanning |-> seq.scanning, blocks |-> seq.blocks]
         /\ KnowsTime(block, log.time, seq, HandedIn(delivered))
<1>1. /\ Timed(block, log) /\ TellsTrue(delivered, log.time) /\ log.last = block[Len(block)].type
      /\ KnowsTime(block, log.time, seq, HandedIn(delivered)) /\ status # -1
      /\ seq = [start |-> seq.start, stop |-> seq.stop, scanning |-> seq.scanning, blocks |-> seq.blocks]
  BY DEF TimesInv
<1>2. /\ IsFile(block) /\ IsSequence(delivered) /\ HandedIn(delivered) \subseteq 1 .. Len(block) - 1
      /\ IsReading(seq)
  BY DEF ReaderInv
<1>3. Len(block) \in Nat \ {0} /\ Len(block) >= 2
  BY <1>1, <1>2, FileIs DEF KnowsTime
<1>4. TicksPerBlock \in Int
  BY DEF Reader!ConstantsOK
<1>5. /\ \A k \in 1 .. Len(block) : log.time[k] \in Int
      /\ log.now = log.time[Len(block)] + TicksPerBlock
      /\ block[Len(block)].ticks = Shown(block[Len(block)].type, log.time[Len(block)])
  BY <1>1 DEF Timed
<1> QED
  BY <1>1, <1>2, <1>3, <1>4, <1>5

LEMMA OnItsTime ==
  ASSUME Reader!ConstantsOK, ReaderInv, TimesInv, step = "sequence", Reader!IsData(block[Len(block)].type),
         seq.start # -1 \/ seq.scanning # TRUE
  PROVE  seq.stop \in Int /\ log.time[Len(block)] - seq.stop \in -1 .. 1
<1> DEFINE n == Len(block)
           t == log.time
<1>1. /\ n \in Nat \ {0, 1} /\ TicksPerBlock \in Int /\ \A k \in 1 .. n : t[k] \in Int
      /\ KnowsTime(block, t, seq, HandedIn(delivered))
  BY AtItsTime
<1>2. OnTime(t, n - 1) /\ seq.stop = t[n - 1] + TicksPerBlock
  BY <1>1 DEF KnowsTime
<1> HIDE DEF n, t
<1>3. n - 1 \in 1 .. n /\ (n - 1) + 1 = n
  BY <1>1
<1>4. t[n] - (t[n - 1] + TicksPerBlock) \in -1 .. 1 /\ t[n - 1] \in Int
  BY <1>1, <1>2, <1>3 DEF OnTime
<1>5. seq.stop \in Int /\ t[n] - seq.stop \in -1 .. 1
  BY <1>1, <1>2, <1>4
<1> QED
  BY <1>5 DEF n, t

LEMMA NearIs ==
  ASSUME Reader!ConstantsOK, NEW d \in -1 .. 1
  PROVE  Reader!Near(d)
BY DEF Reader!ConstantsOK, Reader!Near

\* A block of a recording is never refused for its time.
LEMMA ContiguousIs ==
  ASSUME Reader!ConstantsOK, ReaderInv, TimesInv, step = "sequence", Reader!IsData(block[Len(block)].type)
  PROVE  /\ Reader!Contiguous
         /\ block[Len(block)].type = "broken" /\ (seq.start # -1 \/ seq.scanning # TRUE) =>
              seq.stop + Reader!broken_ticks_difference(seq.stop, Reader!Current.ticks) = log.time[Len(block)]
<1> DEFINE n == Len(block)
           t == log.time[n]
           c == Reader!Current.ticks
<1>1. t \in Int /\ c = Shown(block[n].type, t)
  <2>1. n \in 1 .. n
    BY AtItsTime
  <2> QED
    BY <2>1, AtItsTime DEF Reader!Current
<1>2. CASE seq.start = -1 /\ seq.scanning = TRUE
  BY <1>2 DEF Reader!Contiguous
<1>3. CASE seq.start # -1 \/ seq.scanning # TRUE
  <2> DEFINE e == seq.stop
  <2>1. e \in Int /\ t - e \in -1 .. 1
    BY <1>3, OnItsTime
  <2>2. CASE block[n].type = "data"
    <3>1. c = t
      BY <1>1, <2>2 DEF Shown
    <3> HIDE DEF t, c
    <3>2. Reader!Near(c - e)
      BY <2>1, <3>1, NearIs
    <3>3. Reader!blocks_are_contiguous(e, c)
      BY <3>2 DEF Reader!blocks_are_contiguous
    <3> QED
      BY <2>2, <3>3 DEF Reader!Contiguous, Reader!Current, c
  <2>3. CASE block[n].type = "broken"
    <3>1. c = Reader!convert_ticks(t)
      BY <1>1, <2>3 DEF Shown
    <3> HIDE DEF t, c, e
    <3>2. c % TicksPerHour = t % TicksPerHour
      BY <1>1, <3>1, ShownIs
    <3>3. Reader!broken_ticks_difference(e, c) = t - e
      BY <1>1, <2>1, <3>2, DifferenceIs
    <3>4. Reader!Near(Reader!broken_ticks_difference(e, c)) /\ e + Reader!broken_ticks_difference(e, c) = t
      BY <1>1, <2>1, <3>3, NearIs
    <3>5. Reader!Current.type # "data"
      BY <2>3 DEF Reader!Current
    <3> QED
      BY <3>4, <3>5 DEF Reader!Contiguous, c, e, t
  <2> QED
    BY <2>2, <2>3 DEF Reader!IsData
<1> QED
  BY <1>2, <1>3

\* A block that is none of a sequence is let go for the next.
LEMMA SkipTells ==
  ASSUME Reader!ConstantsOK, ReaderInv, TimesInv, InOrdinaryYears',
         ~ Reader!IsData(block[Len(block)].type), Reader!Match(block), delivered' = delivered,
         status' = status, step # "failed",
         seq' = [start |-> seq'.start, stop |-> seq'.stop, scanning |-> seq'.scanning, blocks |-> seq'.blocks],
         \/ step' = "between" /\ log.last = "empty"
         \/ step' = "sequence" /\ block[Len(block)].type = "header" /\ seq' = Reader!NoSequence
  PROVE  TimesInv'
<1> DEFINE n == Len(block)
           h == HandedIn(delivered)
<1>1. IsFile(block) /\ n \in Nat \ {0} /\ h \subseteq 1 .. n - 1 /\ Timed(block, log)
      /\ TellsTrue(delivered, log.time) /\ status # -1
  BY FileIs DEF ReaderInv, TimesInv
<1>2. Told(block)
  <2>1. Alike(block, block)
    BY <1>1 DEF Alike
  <2> QED
    BY <1>1, <2>1, MatchTells
<1>3. /\ Grows(block, block') /\ Timed(block', log')
      /\ \A k \in 1 .. n : log'.time[k] = log.time[k]
      /\ log'.last = block'[Len(block')].type /\ log'.last \in Kinds
      /\ log'.last = "invalid" => log'.good = FALSE
      /\ Reader!IsData(log'.last) => log.last \in {"header", log'.last}
  BY <1>2 DEF Told
<1>4. Len(block') = n + 1 /\ block'[n].type = block[n].type
  BY <1>1, <1>3 DEF Grows
<1>5. TellsTrue(delivered', log'.time)
  <2>1. h \subseteq 1 .. n
    BY <1>1
  <2> QED
    BY <1>1, <1>3, <2>1, TellsStill
<1>6. step' = "between" => ~ Reader!IsData(block'[Len(block')].type)
  BY <1>3 DEF Reader!IsData
<1>7. ASSUME step' = "sequence" PROVE KnowsTime(block', log'.time, seq', HandedIn(delivered'))
  <2>1. block[n].type = "header" /\ seq' = Reader!NoSequence
    BY <1>7
  <2>2. seq'.start = -1 /\ seq'.scanning = TRUE /\ seq'.blocks = <<>>
    BY <2>1 DEF Reader!NoSequence
  <2>3. HoldsLast(block', log'.time, <<>>, 0, h)
    <3>1. <<>> = [i \in 1 .. 0 |-> (n + 1) - 1 - 0 + i]
      OBVIOUS
    <3>2. \A k \in n + 1 - 0 .. n + 1 - 1 : FALSE
      BY <1>1
    <3>3. \A b \in h : b < n + 1 - 0
      BY <1>1
    <3> HIDE DEF n, h
    <3> QED
      BY <1>1, <1>4, <3>1, <3>2, <3>3 DEF HoldsLast
  <2>4. Len(<<>>) = 0
    OBVIOUS
  <2>5. Len(block') >= 2 /\ Len(block') - 1 = n
    BY <1>1, <1>4
  <2>6. ~ Reader!IsData(block'[n].type) /\ block'[n].type = "header"
    BY <1>4, <2>1
  <2> HIDE DEF n
  <2> QED
    BY <2>2, <2>3, <2>4, <2>5, <2>6 DEF KnowsTime
<1> QED
  BY <1>1, <1>3, <1>5, <1>6, <1>7 DEF TimesInv

\* A data block joins its sequence: s are the blocks as it leaves them.
JoinsInTime(s) ==
  /\ step = "sequence" /\ step' = "sequence" /\ status' = status /\ Reader!IsData(block[Len(block)].type)
  /\ Alike(block, s) /\ Reader!Match(s)
  /\ seq' = [start |-> seq'.start, stop |-> seq'.stop, scanning |-> seq'.scanning, blocks |-> seq'.blocks]
  /\ TellsTrue(delivered', log.time) /\ HandedIn(delivered') \subseteq 1 .. Len(block)
  /\ seq'.start # -1 \/ seq'.scanning # TRUE => seq'.stop = log.time[Len(block)] + TicksPerBlock
  /\ seq'.scanning = TRUE /\ block[Len(block)].type = "broken" =>
       /\ seq.scanning = TRUE /\ seq'.start = seq.start /\ seq'.blocks = Append(seq.blocks, Len(block))
       /\ delivered' = delivered /\ s[Len(block)].ticks = block[Len(block)].ticks
       /\ \A b \in 1 .. Len(block) : s[b].ticks = block[b].ticks

LEMMA JoinTells ==
  ASSUME Reader!ConstantsOK, ReaderInv, TimesInv, InOrdinaryYears', NEW s, JoinsInTime(s)
  PROVE  TimesInv'
<1> DEFINE n == Len(block)
           t == log.time
           u == log'.time
           h == HandedIn(delivered)
           type == block[n].type
<1>1. /\ step = "sequence" /\ step' = "sequence" /\ status' = status /\ Reader!IsData(type)
      /\ Alike(block, s) /\ Reader!Match(s)
      /\ seq' = [start |-> seq'.start, stop |-> seq'.stop, scanning |-> seq'.scanning, blocks |-> seq'.blocks]
      /\ TellsTrue(delivered', t) /\ HandedIn(delivered') \subseteq 1 .. n
  BY DEF JoinsInTime
<1>2. seq'.start # -1 \/ seq'.scanning # TRUE => seq'.stop = t[n] + TicksPerBlock
  BY DEF JoinsInTime
<1>3. seq'.scanning = TRUE /\ type = "broken" =>
        /\ seq.scanning = TRUE /\ seq'.start = seq.start /\ seq'.blocks = Append(seq.blocks, n)
        /\ delivered' = delivered
        /\ \A b \in 1 .. n : s[b].ticks = block[b].ticks
  BY DEF JoinsInTime
<1>4. /\ n \in Nat \ {0, 1} /\ IsFile(block) /\ IsReading(seq)
      /\ \A k \in 1 .. n : t[k] \in Int
      /\ TicksPerBlock \in Int /\ log.now = t[n] + TicksPerBlock
      /\ block[n].ticks = Shown(type, t[n])
      /\ Timed(block, log) /\ log.last = type /\ status # -1
      /\ KnowsTime(block, t, seq, h)
  BY <1>1, AtItsTime
<1>5. Told(s)
  BY <1>1, <1>4, MatchTells
<1>6. /\ Grows(block, block') /\ Timed(block', log')
      /\ \A b \in 1 .. n : block'[b].ticks = s[b].ticks
      /\ \A k \in 1 .. n : u[k] = t[k]
      /\ log'.last = block'[Len(block')].type /\ log'.last \in Kinds
      /\ log'.last = "invalid" => log'.good = FALSE
      /\ Reader!IsData(log'.last) =>
           log.last \in {"header", log'.last} /\ u[Len(block')] - log.now \in -1 .. 1
  BY <1>5 DEF Told
<1>7. Len(block') = n + 1 /\ \A b \in 1 .. n : block'[b].type = block[b].type
  BY <1>4, <1>6 DEF Grows
<1>8. TellsTrue(delivered', u)
  BY <1>1, <1>6, TellsStill
<1>9. n \in 1 .. n /\ n + 1 >= 2 /\ (n + 1) - 1 = n
  BY <1>4
<1>10. ASSUME Reader!IsData(log'.last)
       PROVE  KnowsTime(block', u, seq', HandedIn(delivered'))
  <2>1. log'.last = type /\ u[n + 1] - (t[n] + TicksPerBlock) \in -1 .. 1
    BY <1>1, <1>4, <1>6, <1>7, <1>10 DEF Reader!IsData
  <2>2. OnTime(u, n)
    BY <1>6, <1>9, <2>1 DEF OnTime
  <2>3. /\ Len(block') >= 2 /\ Len(block') - 1 = n
        /\ block'[Len(block') - 1].type = block'[Len(block')].type
        /\ Reader!IsData(block'[Len(block') - 1].type) /\ OnTime(u, Len(block') - 1)
    <3>1. Len(block') >= 2 /\ Len(block') - 1 = n
      BY <1>7, <1>9
    <3>2. block'[n].type = type
      BY <1>7, <1>9
    <3> QED
      BY <1>1, <1>6, <2>1, <2>2, <3>1, <3>2
  <2>4. seq'.start # -1 \/ seq'.scanning # TRUE => seq'.stop = u[Len(block') - 1] + TicksPerBlock
    BY <1>2, <1>6, <1>9, <2>3
  <2>5. ASSUME seq'.scanning = TRUE, block'[Len(block')].type = "broken"
        PROVE  seq'.start = -1 /\ HoldsLast(block', u, seq'.blocks, Len(seq'.blocks), HandedIn(delivered'))
    <3> DEFINE a == seq.blocks
               l == Len(a)
               c == Append(a, n)
    <3>1. type = "broken"
      BY <1>6, <2>1, <2>5
    <3>2. /\ seq.scanning = TRUE /\ seq'.start = seq.start /\ seq'.blocks = c
          /\ delivered' = delivered /\ \A b \in 1 .. n : s[b].ticks = block[b].ticks
      BY <1>3, <2>5, <3>1
    <3>3. seq.start = -1 /\ HoldsLast(block, t, a, l, h)
      BY <1>4, <3>1, <3>2 DEF KnowsTime
    <3>4. /\ l \in Nat /\ l < n /\ a = [i \in 1 .. l |-> n - 1 - l + i]
          /\ \A k \in n - l .. n - 1 :
               block[k].type = "broken" /\ block[k].ticks = Reader!convert_ticks(t[k]) /\ OnTime(t, k)
          /\ \A b \in h : b < n - l
      BY <3>3 DEF HoldsLast
    <3>5. IsSequence(a)
      BY <1>4 DEF IsReading
    <3>6. /\ IsSequence(c) /\ Len(c) = l + 1
          /\ \A k \in 1 .. l : c[k] = a[k]
          /\ c[l + 1] = n
      BY <3>5, Appended
    <3>7. DOMAIN c = 1 .. l + 1 /\ c = [i \in 1 .. l + 1 |-> c[i]]
      BY <3>6, SequenceIs
    <3> HIDE DEF a, l, c, h
    <3>8. \A i \in 1 .. l + 1 : c[i] = (n + 1) - 1 - (l + 1) + i
      <4>1. ASSUME NEW i \in 1 .. l + 1 PROVE c[i] = (n + 1) - 1 - (l + 1) + i
        <5>1. CASE i = l + 1
          BY <1>4, <3>4, <3>6, <5>1
        <5>2. CASE i # l + 1
          <6>1. i \in 1 .. l
            BY <3>4, <5>2
          <6>2. a[i] = n - 1 - l + i
            BY <3>4, <6>1
          <6> QED
            BY <1>4, <3>4, <3>6, <6>1, <6>2
        <5> QED
          BY <5>1, <5>2
      <4> QED
        BY <4>1
    <3>9. c = [i \in 1 .. l + 1 |-> (n + 1) - 1 - (l + 1) + i]
      BY <3>7, <3>8
    <3>10. ASSUME NEW k \in (n + 1) - (l + 1) .. (n + 1) - 1
           PROVE  block'[k].type = "broken" /\ block'[k].ticks = Reader!convert_ticks(u[k]) /\ OnTime(u, k)
      <4>1. k \in 1 .. n
        BY <1>4, <3>4
      <4>2. block'[k].type = block[k].type /\ block'[k].ticks = block[k].ticks /\ u[k] = t[k]
        BY <1>6, <1>7, <3>2, <4>1
      <4>3. CASE k = n
        BY <1>4, <2>2, <3>1, <4>2, <4>3 DEF Shown
      <4>4. CASE k # n
        <5>1. k \in n - l .. n - 1 /\ k + 1 \in 1 .. n
          BY <1>4, <3>4, <4>1, <4>4
        <5>2. u[k + 1] = t[k + 1]
          BY <1>6, <5>1
        <5> QED
          BY <3>4, <4>2, <5>1, <5>2 DEF OnTime
      <4> QED
        BY <4>3, <4>4
    <3>11. \A b \in h : b < (n + 1) - (l + 1)
      <4>1. (n + 1) - (l + 1) = n - l
        BY <1>4, <3>4
      <4> QED
        BY <3>4, <4>1
    <3>12. l + 1 \in Nat /\ l + 1 < n + 1
      BY <1>4, <3>4
    <3>13. HandedIn(delivered') = h
      BY <3>2 DEF h
    <3>14. HoldsLast(block', u, c, l + 1, h)
      BY <1>7, <3>9, <3>10, <3>11, <3>12 DEF HoldsLast
    <3> QED
      BY <3>2, <3>3, <3>6, <3>13, <3>14
  <2> QED
    BY <2>3, <2>4, <2>5 DEF KnowsTime
<1> QED
  BY <1>1, <1>4, <1>6, <1>8, <1>10 DEF TimesInv

----------------------------------------------------------------------------
(* The calls of a step *)

LEMMA TellsAlso ==
  ASSUME NEW d, IsSequence(d), NEW e, IsSequence(e), NEW told, TellsTrue(d, told), TellsTrue(e, told),
         \A i \in DOMAIN d, j \in DOMAIN e : d[i].block < e[j].block
  PROVE  TellsTrue(d \o e, told)
<1> DEFINE c == d \o e
           l == Len(d)
<1>1. /\ l \in Nat /\ DOMAIN d = 1 .. l /\ Len(e) \in Nat /\ DOMAIN e = 1 .. Len(e)
      /\ IsSequence(c) /\ Len(c) = l + Len(e)
      /\ \A k \in 1 .. l + Len(e) : c[k] = IF k <= l THEN d[k] ELSE e[k - l]
  BY SequenceIs, Joined
<1> HIDE DEF c, l
<1>2. DOMAIN c = 1 .. l + Len(e)
  BY <1>1, SequenceIs
<1>3. ASSUME NEW i \in DOMAIN c
      PROVE  \/ i \in DOMAIN d /\ c[i] = d[i]
             \/ i > l /\ i - l \in DOMAIN e /\ c[i] = e[i - l]
  BY <1>1, <1>2
<1>4. ASSUME NEW i \in DOMAIN c PROVE c[i].ticks = told[c[i].block]
  BY <1>3 DEF TellsTrue
<1>5. ASSUME NEW i \in DOMAIN c, NEW j \in DOMAIN c, i < j PROVE c[i].block < c[j].block
  <2>1. CASE i \in DOMAIN d /\ c[i] = d[i] /\ j \in DOMAIN d /\ c[j] = d[j]
    BY <1>5, <2>1 DEF TellsTrue
  <2>2. CASE i \in DOMAIN d /\ c[i] = d[i] /\ j > l /\ j - l \in DOMAIN e /\ c[j] = e[j - l]
    BY <2>2
  <2>3. CASE i > l /\ j \in DOMAIN d
    BY <1>1, <1>2, <1>5, <2>3
  <2>4. CASE i > l /\ i - l \in DOMAIN e /\ c[i] = e[i - l] /\ j > l /\ j - l \in DOMAIN e /\ c[j] = e[j - l]
    <3>1. i - l < j - l
      BY <1>1, <1>2, <1>5
    <3> QED
      BY <2>4, <3>1 DEF TellsTrue
  <2> QED
    BY <1>3, <2>1, <2>2, <2>3, <2>4
<1> QED
  BY <1>4, <1>5 DEF TellsTrue, c

LEMMA TellsOneMore ==
  ASSUME NEW d, IsSequence(d), NEW e, NEW told, NEW n \in Nat \ {0}, TellsTrue(d, told),
         HandedIn(d) \subseteq 1 .. n - 1, e.block = n, e.ticks = told[n]
  PROVE  /\ TellsTrue(Append(d, e), told) /\ HandedIn(Append(d, e)) \subseteq 1 .. n
<1> DEFINE c == Append(d, e)
           l == Len(d)
<1>1. /\ l \in Nat /\ DOMAIN d = 1 .. l /\ IsSequence(c) /\ Len(c) = l + 1
      /\ \A k \in 1 .. l : c[k] = d[k]
      /\ c[l + 1] = e
  BY SequenceIs, Appended
<1>2. HandedIn(c) = HandedIn(d) \cup {e.block}
  BY HandedOneMore
<1> HIDE DEF c, l
<1>3. DOMAIN c = 1 .. l + 1
  BY <1>1, SequenceIs
<1>4. ASSUME NEW i \in DOMAIN c PROVE (i \in DOMAIN d /\ c[i] = d[i]) \/ (i = l + 1 /\ c[i] = e)
  <2>1. i \in 1 .. l \/ i = l + 1
    BY <1>1, <1>3
  <2>2. CASE i \in 1 .. l
    <3>1. i \in DOMAIN d
      BY <1>1, <2>2
    <3>2. c[i] = d[i]
      BY <1>1, <2>2
    <3> QED
      BY <3>1, <3>2
  <2>3. CASE i = l + 1
    BY <1>1, <2>3
  <2> QED
    BY <2>1, <2>2, <2>3
<1>5. ASSUME NEW i \in DOMAIN d PROVE d[i].block \in 1 .. n - 1
  BY DEF HandedIn
<1>6. \A i \in DOMAIN c : c[i].ticks = told[c[i].block]
  BY <1>4 DEF TellsTrue
<1>7. ASSUME NEW i \in DOMAIN c, NEW j \in DOMAIN c, i < j PROVE c[i].block < c[j].block
  <2>1. i \in DOMAIN d /\ c[i] = d[i]
    BY <1>1, <1>3, <1>4, <1>7
  <2>2. CASE j \in DOMAIN d /\ c[j] = d[j]
    BY <1>7, <2>1, <2>2 DEF TellsTrue
  <2>3. CASE j = l + 1 /\ c[j] = e
    BY <1>5, <2>1, <2>3
  <2> QED
    BY <1>4, <2>2, <2>3
<1>8. HandedIn(c) \subseteq 1 .. n
  <2>1. 1 .. n - 1 \subseteq 1 .. n /\ n \in 1 .. n
    OBVIOUS
  <2> QED
    BY <1>2, <2>1
<1> QED
  BY <1>6, <1>7, <1>8 DEF TellsTrue, c

LEMMA AddJoins ==
  ASSUME Reader!ConstantsOK, ReaderInv, TimesInv, Reader!add_block
  PROVE  \E s : JoinsInTime(s)
<1> DEFINE n == Len(block)
           e == Reader!Deliver(block, n)
           t == log.time
<1>1. step = "sequence" /\ block[n].type = "data" /\ Reader!IsData(block[n].type)
  BY DEF Reader!add_block, Reader!Current, Reader!IsData
<1>2. Reader!Contiguous
  BY <1>1, ContiguousIs
<1>3. /\ n \in Nat \ {0, 1} /\ IsFile(block) /\ IsSequence(delivered)
      /\ block[n].ticks = t[n] /\ HandedIn(delivered) \subseteq 1 .. n - 1 /\ TellsTrue(delivered, t)
      /\ seq = [start |-> seq.start, stop |-> seq.stop, scanning |-> seq.scanning, blocks |-> seq.blocks]
  BY <1>1, AtItsTime DEF Shown
<1>4. /\ delivered' = Append(delivered, e) /\ step' = step /\ status' = status /\ Reader!Match(block)
      /\ seq' = [seq EXCEPT !.start = IF @ = -1 THEN Reader!Current.ticks ELSE @, !.stop = Reader!Current.ticks + TicksPerBlock]
  BY <1>2 DEF Reader!add_block
<1>5. seq' = [start |-> seq'.start, stop |-> seq'.stop, scanning |-> seq'.scanning, blocks |-> seq'.blocks]
      /\ seq'.stop = t[n] + TicksPerBlock
  <2> DEFINE a == seq.start
             b == seq.stop
             c == seq.scanning
             d == seq.blocks
             f == IF seq.start = -1 THEN Reader!Current.ticks ELSE seq.start
             g == t[n] + TicksPerBlock
  <2>1. seq = [start |-> a, stop |-> b, scanning |-> c, blocks |-> d]
    BY <1>3
  <2>2. seq' = [seq EXCEPT !.start = f, !.stop = g]
    BY <1>3, <1>4 DEF Reader!Current
  <2> HIDE DEF a, b, c, d, f, g
  <2>3. seq' = [start |-> f, stop |-> g, scanning |-> c, blocks |-> d]
    BY <2>1, <2>2
  <2>4. seq'.start = f /\ seq'.stop = g /\ seq'.scanning = c /\ seq'.blocks = d
    BY <2>3
  <2> QED
    BY <2>3, <2>4 DEF g
<1>6. e.block = n /\ e.ticks = t[n]
  BY <1>3 DEF Reader!Deliver
<1> HIDE DEF e
<1>7. TellsTrue(delivered', t) /\ HandedIn(delivered') \subseteq 1 .. n
  BY <1>3, <1>4, <1>6, TellsOneMore
<1>8. Alike(block, block)
  BY <1>3 DEF Alike
<1>9. JoinsInTime(block)
  BY <1>1, <1>4, <1>5, <1>7, <1>8 DEF JoinsInTime
<1> QED
  BY <1>9

LEMMA ScanJoins ==
  ASSUME Reader!ConstantsOK, ReaderInv, TimesInv, Reader!Scan
  PROVE  \E s : JoinsInTime(s)
<1> DEFINE n == Len(block)
           s == [block EXCEPT ![n].references = @ + 1]
           t == log.time
<1>1. /\ step = "sequence" /\ block[n].type = "broken" /\ Reader!IsData(block[n].type) /\ seq.scanning = TRUE
      /\ step' = step /\ status' = status /\ delivered' = delivered
      /\ seq' = [seq EXCEPT !.blocks = Append(seq.blocks, n)] /\ Reader!Match(s)
  BY DEF Reader!Scan, Reader!Current, Reader!IsData
<1>2. /\ n \in Nat \ {0, 1} /\ IsFile(block)
      /\ HandedIn(delivered) \subseteq 1 .. n - 1 /\ TellsTrue(delivered, t)
      /\ KnowsTime(block, t, seq, HandedIn(delivered))
      /\ seq = [start |-> seq.start, stop |-> seq.stop, scanning |-> seq.scanning, blocks |-> seq.blocks]
  BY <1>1, AtItsTime
<1>3. /\ seq' = [start |-> seq'.start, stop |-> seq'.stop, scanning |-> seq'.scanning, blocks |-> seq'.blocks]
      /\ seq'.start = seq.start /\ seq'.scanning = TRUE /\ seq'.blocks = Append(seq.blocks, n)
  <2> DEFINE a == seq.start
             b == seq.stop
             c == seq.scanning
             d == seq.blocks
             f == Append(seq.blocks, n)
  <2>1. seq = [start |-> a, stop |-> b, scanning |-> c, blocks |-> d] /\ c = TRUE
    BY <1>1, <1>2
  <2>2. seq' = [seq EXCEPT !.blocks = f]
    BY <1>1
  <2> HIDE DEF a, b, c, d, f
  <2>3. seq' = [start |-> a, stop |-> b, scanning |-> c, blocks |-> f]
    BY <2>1, <2>2
  <2>4. seq'.start = a /\ seq'.stop = b /\ seq'.scanning = c /\ seq'.blocks = f
    BY <2>3
  <2> QED
    BY <2>1, <2>3, <2>4 DEF a, f
<1>4. seq.start = -1
  BY <1>1, <1>2 DEF KnowsTime
<1>5. Alike(block, s) /\ \A b \in 1 .. n : s[b].ticks = block[b].ticks
  <2>1. block = [b \in 1 .. n |-> block[b]] /\ \A b \in 1 .. n : IsEntry(block[b])
    BY <1>2, SequenceIs DEF IsFile
  <2> DEFINE e == block[n]
             m == block[n].references + 1
             f == [e EXCEPT !.references = m]
  <2>2. s = [block EXCEPT ![n] = f]
    OBVIOUS
  <2>3. s = [b \in 1 .. n |-> s[b]]
    BY <2>1, <2>2
  <2>4. \A b \in 1 .. n : s[b] = IF b = n THEN f ELSE block[b]
    BY <2>1, <2>2
  <2>5. IsEntry(e) /\ m \in Int
    BY <1>2, <2>1 DEF IsEntry
  <2> HIDE DEF s, e, m
  <2>6. IsEntry(f) /\ f = [type |-> e.type, references |-> m, ticks |-> e.ticks]
    BY <2>5, EntryIs
  <2> HIDE DEF f
  <2>7. f.type = e.type /\ f.ticks = e.ticks
    BY <2>6
  <2>8. \A b \in 1 .. n : IsEntry(s[b]) /\ s[b].type = block[b].type /\ s[b].ticks = block[b].ticks
    BY <2>1, <2>4, <2>6, <2>7 DEF e
  <2> QED
    BY <1>2, <2>3, <2>8, AlikeOf
<1> HIDE DEF s
<1>6. n \in 1 .. n /\ HandedIn(delivered') \subseteq 1 .. n
  BY <1>1, <1>2
<1>7. JoinsInTime(s)
  BY <1>1, <1>2, <1>3, <1>4, <1>5, <1>6 DEF JoinsInTime
<1> QED
  BY <1>7

LEMMA ContinueJoins ==
  ASSUME Reader!ConstantsOK, ReaderInv, TimesInv, Reader!Continue
  PROVE  \E s : JoinsInTime(s)
<1> DEFINE n == Len(block)
           t == log.time
           inverse == seq.stop + Reader!broken_ticks_difference(seq.stop, Reader!Current.ticks)
           s == [block EXCEPT ![n].ticks = inverse]
           e == Reader!Deliver(s, n)
<1>1. step = "sequence" /\ block[n].type = "broken" /\ Reader!IsData(block[n].type) /\ seq.scanning # TRUE
  BY DEF Reader!Continue, Reader!Current, Reader!IsData
<1>2. /\ n \in Nat \ {0, 1} /\ IsFile(block) /\ IsSequence(delivered)
      /\ block[n].ticks = Reader!convert_ticks(t[n]) /\ HandedIn(delivered) \subseteq 1 .. n - 1
      /\ TellsTrue(delivered, t)
      /\ seq = [start |-> seq.start, stop |-> seq.stop, scanning |-> seq.scanning, blocks |-> seq.blocks]
  BY <1>1, AtItsTime DEF Shown
<1>3. inverse = t[n] /\ Reader!convert_ticks(inverse) = Reader!Current.ticks
  <2>1. inverse = t[n]
    BY <1>1, ContiguousIs
  <2> QED
    BY <1>2, <2>1 DEF Reader!Current
<1>4. /\ delivered' = Append(delivered, e) /\ step' = step /\ status' = status /\ Reader!Match(s)
      /\ seq' = [seq EXCEPT !.stop = inverse + TicksPerBlock]
  BY <1>3, Zenon DEF Reader!Continue
<1>5. /\ seq' = [start |-> seq'.start, stop |-> seq'.stop, scanning |-> seq'.scanning, blocks |-> seq'.blocks]
      /\ seq'.stop = t[n] + TicksPerBlock /\ seq'.scanning # TRUE
  <2> DEFINE a == seq.start
             b == seq.stop
             c == seq.scanning
             d == seq.blocks
             g == t[n] + TicksPerBlock
  <2>1. seq = [start |-> a, stop |-> b, scanning |-> c, blocks |-> d] /\ c # TRUE
    BY <1>1, <1>2
  <2>2. seq' = [seq EXCEPT !.stop = g]
    <3> HIDE DEF inverse
    <3> QED
      BY <1>3, <1>4
  <2> HIDE DEF a, b, c, d, g
  <2>3. seq' = [start |-> a, stop |-> g, scanning |-> c, blocks |-> d]
    BY <2>1, <2>2
  <2>4. seq'.start = a /\ seq'.stop = g /\ seq'.scanning = c /\ seq'.blocks = d
    BY <2>3
  <2> QED
    BY <2>1, <2>3, <2>4 DEF g
<1>6. Alike(block, s) /\ s[n].ticks = t[n]
  <2> DEFINE k == inverse
             e1 == block[n]
             f == [e1 EXCEPT !.ticks = k]
  <2>1. s = [block EXCEPT ![n] = f]
    OBVIOUS
  <2>2. block = [b \in 1 .. n |-> block[b]] /\ \A b \in 1 .. n : IsEntry(block[b])
    BY <1>2, SequenceIs DEF IsFile
  <2>3. s = [b \in 1 .. n |-> s[b]]
    BY <2>1, <2>2
  <2>4. \A b \in 1 .. n : s[b] = IF b = n THEN f ELSE block[b]
    BY <2>1, <2>2
  <2>5. IsEntry(e1) /\ e1.references \in Int /\ k = t[n]
    BY <1>2, <1>3, <2>2 DEF IsEntry
  <2> HIDE DEF s, e1, k, inverse
  <2>6. IsEntry(f) /\ f = [type |-> e1.type, references |-> e1.references, ticks |-> k]
    BY <2>5, EntryIs
  <2> HIDE DEF f
  <2>7. f.type = e1.type /\ f.ticks = k
    BY <2>6
  <2>8. \A b \in 1 .. n : IsEntry(s[b]) /\ s[b].type = block[b].type
    BY <2>2, <2>4, <2>6, <2>7 DEF e1
  <2>9. Alike(block, s)
    BY <1>2, <2>3, <2>8, AlikeOf
  <2>10. n \in 1 .. n
    BY <1>2
  <2> QED
    BY <2>4, <2>5, <2>7, <2>9, <2>10
<1> HIDE DEF s
<1>7. e.block = n /\ e.ticks = t[n]
  BY <1>6 DEF Reader!Deliver
<1> HIDE DEF e, inverse
<1>8. TellsTrue(delivered', t) /\ HandedIn(delivered') \subseteq 1 .. n
  BY <1>2, <1>4, <1>7, TellsOneMore
<1>9. JoinsInTime(s)
  BY <1>1, <1>4, <1>5, <1>6, <1>8 DEF JoinsInTime
<1> QED
  BY <1>9

\* The blocks held back and the one that tells the hour get their times back.
LEMMA RepairedIs ==
  ASSUME Reader!ConstantsOK, ReaderInv, TimesInv, step = "sequence", block[Len(block)].type = "broken", seq.scanning = TRUE,
         Reader!Hour(block[Len(block)].ticks) \in Reader!hour_invertable,
         NEW l, l = Len(seq.blocks), NEW scanned, scanned = Append(seq.blocks, Len(block))
  PROVE  /\ l \in Nat /\ l + 1 <= Len(block)
         /\ scanned = [i \in 1 .. l + 1 |-> Len(block) - (l + 1) + i] /\ DOMAIN scanned = 1 .. l + 1
         /\ Len(scanned) = l + 1
         /\ Reader!Repaired(scanned) = [i \in 1 .. l + 1 |-> log.time[scanned[i]]]
         /\ \A i \in 1 .. l + 1 : block[scanned[i]].ticks = Reader!convert_ticks(log.time[scanned[i]])
         /\ \A b \in HandedIn(delivered) : b < Len(block) - l
         /\ Reader!invert_ticks(Reader!Current.ticks) = log.time[Len(block)]
<1> DEFINE n == Len(block)
           t == log.time
           h == HandedIn(delivered)
           a == seq.blocks
           m == l + 1
           f == [i \in 1 .. m |-> t[scanned[i]]]
<1>1. /\ n \in Nat \ {0, 1} /\ IsReading(seq)
      /\ \A k \in 1 .. n : t[k] \in Int
      /\ TicksPerBlock \in Int /\ block[n].ticks = Reader!convert_ticks(t[n])
      /\ KnowsTime(block, t, seq, h)
  BY AtItsTime DEF Reader!IsData, Shown
<1>2. HoldsLast(block, t, a, l, h)
  BY <1>1 DEF KnowsTime
<1>3. /\ l \in Nat /\ l < n /\ a = [i \in 1 .. l |-> n - 1 - l + i]
      /\ \A k \in n - l .. n - 1 :
           block[k].type = "broken" /\ block[k].ticks = Reader!convert_ticks(t[k]) /\ OnTime(t, k)
      /\ \A b \in h : b < n - l
  BY <1>2 DEF HoldsLast
<1>4. IsSequence(a)
  BY <1>1 DEF IsReading
<1>5. /\ IsSequence(scanned) /\ Len(scanned) = m
      /\ \A k \in 1 .. l : scanned[k] = a[k]
      /\ scanned[m] = n
  BY <1>4, Appended
<1>6. DOMAIN scanned = 1 .. m /\ scanned = [i \in 1 .. m |-> scanned[i]]
  BY <1>5, SequenceIs
<1> HIDE DEF n, t, h, a
<1>16. n \in Nat /\ l \in Nat /\ l < n /\ TicksPerBlock \in Int
  BY <1>1, <1>3
<1>7. ASSUME NEW i \in 1 .. m PROVE scanned[i] = n - m + i
  <2>1. CASE i = m
    BY <1>1, <1>3, <1>5, <2>1
  <2>2. CASE i # m
    <3>1. i \in 1 .. l
      BY <1>3, <2>2
    <3>2. a[i] = n - 1 - l + i
      BY <1>3, <3>1
    <3>3. scanned[i] = a[i]
      BY <1>5, <3>1
    <3> QED
      BY <1>16, <3>1, <3>2, <3>3
  <2> QED
    BY <2>1, <2>2
<1>8. scanned = [i \in 1 .. m |-> n - m + i]
  BY <1>6, <1>7
<1>9. ASSUME NEW i \in 1 .. m
      PROVE  scanned[i] \in 1 .. n /\ block[scanned[i]].ticks = Reader!convert_ticks(t[scanned[i]])
  <2>1. CASE i = m
    BY <1>1, <1>5, <2>1
  <2>2. CASE i # m
    <3>1. scanned[i] \in n - l .. n - 1
      <4>1. scanned[i] = n - m + i
        BY <1>7
      <4> DEFINE v == scanned[i]
      <4>2. i \in 1 .. l
        BY <1>16, <2>2
      <4>3. v = n - (l + 1) + i
        BY <4>1
      <4> HIDE DEF v
      <4>4. v \in n - l .. n - 1
        BY <1>16, <4>2, <4>3
      <4> QED
        BY <4>4 DEF v
    <3>2. block[scanned[i]].ticks = Reader!convert_ticks(t[scanned[i]])
      BY <1>3, <3>1
    <3>3. scanned[i] \in 1 .. n
      BY <1>16, <3>1
    <3> QED
      BY <3>2, <3>3
  <2> QED
    BY <2>1, <2>2
<1>10. Reader!invert_ticks(Reader!Current.ticks) = t[n]
  <2>1. n \in 1 .. n
    BY <1>1
  <2>2. t[n] \in Int /\ Reader!Hour(Reader!convert_ticks(t[n])) \in Reader!hour_invertable
    BY <1>1, <2>1 DEF n
  <2>3. Reader!Current.ticks = Reader!convert_ticks(t[n])
    BY <1>1 DEF Reader!Current, n
  <2> QED
    BY <2>2, <2>3, ShownIs
<1>11. ASSUME NEW i \in 1 .. m
       PROVE  LET before == IF i = m THEN Reader!invert_ticks(Reader!Current.ticks) ELSE f[i + 1] - TicksPerBlock
              IN before + Reader!broken_ticks_difference(before, block[scanned[i]].ticks) = f[i]
  <2> DEFINE before == IF i = m THEN Reader!invert_ticks(Reader!Current.ticks) ELSE f[i + 1] - TicksPerBlock
             y == t[scanned[i]]
             c == block[scanned[i]].ticks
  <2>1. y \in Int /\ c = Reader!convert_ticks(y) /\ f[i] = y
    BY <1>1, <1>9
  <2>2. before \in Int /\ y - before \in -1 .. 1
    <3>1. CASE i = m
      <4>1. before = y
        BY <1>5, <1>10, <3>1
      <4> HIDE DEF before, y
      <4> QED
        BY <2>1, <4>1
    <3>2. CASE i # m
      <4>1. i + 1 \in 1 .. m /\ scanned[i] \in n - l .. n - 1 /\ scanned[i + 1] = scanned[i] + 1
        <5>1. i + 1 \in 1 .. m
          BY <1>3, <3>2
        <5>2. scanned[i] = n - m + i /\ scanned[i + 1] = n - m + (i + 1)
          BY <1>7, <5>1
        <5> QED
          BY <1>1, <1>3, <3>2, <5>1, <5>2
      <4>2. OnTime(t, scanned[i])
        BY <1>3, <4>1
      <4>3. t[scanned[i + 1]] \in Int
        BY <1>1, <1>9, <4>1
      <4>4. before = t[scanned[i + 1]] - TicksPerBlock
        BY <3>2, <4>1
      <4>5. t[scanned[i + 1]] - (y + TicksPerBlock) \in -1 .. 1
        BY <4>1, <4>2 DEF OnTime
      <4> DEFINE z == t[scanned[i + 1]]
      <4>6. z \in Int /\ before = z - TicksPerBlock /\ z - (y + TicksPerBlock) \in -1 .. 1
        BY <4>3, <4>4, <4>5
      <4> HIDE DEF before, y, z
      <4> QED
        BY <1>16, <2>1, <4>6
    <3> QED
      BY <3>1, <3>2
  <2> HIDE DEF before, y, c, f
  <2>3. c % TicksPerHour = y % TicksPerHour
    BY <2>1, ShownIs
  <2>4. Reader!broken_ticks_difference(before, c) = y - before
    BY <2>1, <2>2, <2>3, DifferenceIs
  <2>5. before + Reader!broken_ticks_difference(before, c) = f[i]
    BY <2>1, <2>2, <2>4
  <2> QED
    BY <2>5 DEF before, c
<1>12. IsRepair(scanned, f)
  <2> DEFINE B(i) == IF i = Len(scanned) THEN Reader!invert_ticks(Reader!Current.ticks) ELSE f[i + 1] - TicksPerBlock
             W(i) == B(i) + Reader!broken_ticks_difference(B(i), block[scanned[i]].ticks)
  <2>1. ASSUME NEW i \in 1 .. m PROVE W(i) = f[i]
    <3> HIDE DEF f, m
    <3>1. m = Len(scanned)
      BY <1>5
    <3>2. W(i) = LET before == IF i = m THEN Reader!invert_ticks(Reader!Current.ticks) ELSE f[i + 1] - TicksPerBlock
                 IN before + Reader!broken_ticks_difference(before, block[scanned[i]].ticks)
      BY <3>1, Zenon
    <3> HIDE DEF W
    <3> QED
      BY <1>11, <3>2, Zenon
  <2>2. f = [i \in 1 .. m |-> W(i)]
    <3>1. f = [i \in 1 .. m |-> f[i]]
      OBVIOUS
    <3> HIDE DEF W, f
    <3> QED
      BY <2>1, <3>1
  <2> HIDE DEF f
  <2>3. f = [i \in 1 .. Len(scanned) |-> W(i)]
    BY <1>5, <2>2
  <2> QED
    BY <2>3 DEF IsRepair
<1>13. Reader!Repaired(scanned) = f
  <2> HIDE DEF f
  <2>1. IsRepair(scanned, Reader!Repaired(scanned))
    BY <1>12, RepairIs
  <2>2. Len(scanned) \in Nat
    BY <1>3, <1>5
  <2> QED
    BY <1>12, <2>1, <2>2, RepairsAgree
<1>14. l + 1 <= n
  BY <1>1, <1>3
<1>15. \A b \in h : b < n - l
  BY <1>3
<1> QED
  BY <1>3, <1>5, <1>6, <1>8, <1>9, <1>10, <1>13, <1>14, <1>15 DEF n, t, h, f, m

LEMMA ResolveJoins ==
  ASSUME Reader!ConstantsOK, ReaderInv, TimesInv, Reader!Resolve
  PROVE  \E s : JoinsInTime(s)
<1> DEFINE n == Len(block)
           t == log.time
           h == HandedIn(delivered)
           l == Len(seq.blocks)
           m == l + 1
           scanned == Append(seq.blocks, n)
           g == Reader!ToSet(scanned)
           times == Reader!Repaired(scanned)
<1>1. /\ step = "sequence" /\ block[n].type = "broken" /\ Reader!IsData(block[n].type) /\ seq.scanning = TRUE
      /\ Reader!Hour(block[n].ticks) \in Reader!hour_invertable
      /\ Reader!Sound(scanned, times) => \E s, instant, reference : ResolvedAs(s, scanned, times, instant, reference)
  BY ResolveIs
<1>2. /\ n \in Nat \ {0, 1} /\ IsFile(block) /\ IsSequence(delivered)
      /\ \A k \in 1 .. n : t[k] \in Int
      /\ h \subseteq 1 .. n - 1 /\ TellsTrue(delivered, t)
  BY <1>1, AtItsTime
<1>3. /\ l \in Nat /\ m <= n
      /\ scanned = [i \in 1 .. m |-> n - m + i] /\ DOMAIN scanned = 1 .. m
      /\ Len(scanned) = m
      /\ times = [i \in 1 .. m |-> t[scanned[i]]]
      /\ \A i \in 1 .. m : block[scanned[i]].ticks = Reader!convert_ticks(t[scanned[i]])
      /\ \A b \in h : b < n - l
      /\ Reader!invert_ticks(Reader!Current.ticks) = t[n]
  BY <1>1, RepairedIs
<1>4. \A b \in 1 .. n : block[b].references \in Int
  BY <1>2 DEF IsFile, IsEntry
<1>5. g = {scanned[i] : i \in DOMAIN scanned}
  BY DEF Reader!ToSet
<1> HIDE DEF scanned, times, g, l, n, t, h
<1>6. Reader!Sound(scanned, times)
  <2>1. \A i \in 1 .. m : times[i] = t[scanned[i]]
    BY <1>3
  <2>2. \A i \in DOMAIN scanned : Reader!convert_ticks(times[i]) = block[scanned[i]].ticks
    BY <1>3, <2>1
  <2> QED
    BY <2>2 DEF Reader!Sound
<1>7. PICK s, instant, reference : ResolvedAs(s, scanned, times, instant, reference)
  BY <1>1, <1>6
<1> DEFINE e == [i \in DOMAIN scanned |-> Reader!Deliver(s, scanned[i])]
<1>8. /\ AllRetimed(block, s, g, instant, reference)
      /\ \A b \in DOMAIN block :
           /\ instant[b] = times[CHOOSE i \in DOMAIN scanned : scanned[i] = b]
           /\ reference[b] = IF b = n THEN block[b].references ELSE block[b].references - 1
      /\ delivered' = delivered \o e
      /\ seq' = [start |-> times[1], stop |-> Reader!invert_ticks(Reader!Current.ticks) + TicksPerBlock,
                 scanning |-> FALSE, blocks |-> scanned]
      /\ Reader!Match(s) /\ step' = step /\ status' = status
  BY <1>7, Zenon DEF ResolvedAs, n, g
<1>9. /\ seq' = [start |-> seq'.start, stop |-> seq'.stop, scanning |-> seq'.scanning, blocks |-> seq'.blocks]
      /\ seq'.stop = t[n] + TicksPerBlock /\ seq'.scanning # TRUE
  <2> DEFINE a == times[1]
             b == t[n] + TicksPerBlock
  <2>1. seq' = [start |-> a, stop |-> b, scanning |-> FALSE, blocks |-> scanned]
    BY <1>3, <1>8
  <2> HIDE DEF a, b
  <2>2. seq'.start = a /\ seq'.stop = b /\ seq'.scanning = FALSE /\ seq'.blocks = scanned
    BY <2>1
  <2> QED
    BY <2>1, <2>2 DEF b
<1>10. n \in Nat /\ l \in Nat /\ m <= n /\ DOMAIN block = 1 .. n
  BY <1>2, <1>3, FileIs DEF n
<1>11. ASSUME NEW i \in 1 .. m PROVE scanned[i] \in 1 .. n /\ scanned[i] = n - m + i
  <2>1. scanned[i] = n - m + i
    BY <1>3
  <2> DEFINE v == scanned[i]
  <2> HIDE DEF v
  <2>2. v = n - (l + 1) + i
    BY <2>1 DEF v
  <2>3. v \in 1 .. n
    BY <1>10, <2>2
  <2> QED
    BY <2>1, <2>3 DEF v
<1>12. g \subseteq 1 .. n
  BY <1>3, <1>5, <1>11
<1>13. \A b \in 1 .. n : reference[b] = IF b = n THEN block[b].references ELSE block[b].references - 1
  BY <1>8, <1>10
<1>14. \A b \in g : reference[b] \in Int
  <2>1. ASSUME NEW b \in 1 .. n PROVE reference[b] \in Int
    <3> DEFINE r == block[b].references
    <3>1. r \in Int /\ reference[b] = IF b = n THEN r ELSE r - 1
      BY <1>4, <1>13 DEF n
    <3> HIDE DEF r
    <3> QED
      BY <3>1
  <2> QED
    BY <1>12, <2>1
<1>15. /\ Alike(block, s)
       /\ \A b \in 1 .. n : s[b].ticks = IF b \in g THEN instant[b] ELSE block[b].ticks
  <2>1. /\ Alike(block, s)
        /\ \A b \in 1 .. Len(block) : s[b].ticks = IF b \in g THEN instant[b] ELSE block[b].ticks
    BY <1>2, <1>8, <1>14, RetimedIs
  <2> QED
    BY <2>1 DEF n
<1>16. ASSUME NEW i \in 1 .. m PROVE s[scanned[i]].ticks = t[scanned[i]]
  <2> DEFINE b == scanned[i]
             j == CHOOSE k \in DOMAIN scanned : scanned[k] = b
  <2>1. b \in g /\ b \in 1 .. n /\ instant[b] = times[j]
    <3>1. b \in g
      BY <1>3, <1>5
    <3>2. b \in 1 .. n
      BY <1>11
    <3> HIDE DEF b
    <3>3. instant[b] = times[j]
      BY <1>8, <1>10, <3>2
    <3> QED
      BY <3>1, <3>2, <3>3
  <2>2. j \in 1 .. m /\ scanned[j] = b
    BY <1>3
  <2> HIDE DEF b, j
  <2>3. times[j] = t[b]
    BY <1>3, <2>2
  <2> QED
    BY <1>15, <2>1, <2>3 DEF b
<1>17. IsSequence(e) /\ DOMAIN e = 1 .. m
  <2>1. e = [i \in 1 .. m |-> e[i]] /\ DOMAIN e = 1 .. m
    BY <1>3
  <2>2. m \in Nat
    BY <1>10
  <2> HIDE DEF e, m
  <2> QED
    BY <2>1, <2>2, SequenceOf
<1>18. ASSUME NEW i \in 1 .. m PROVE e[i].block = scanned[i] /\ e[i].ticks = t[scanned[i]]
  BY <1>3, <1>16 DEF Reader!Deliver
<1> HIDE DEF e
<1>19. TellsTrue(e, t)
  <2>1. ASSUME NEW i \in 1 .. m, NEW j \in 1 .. m, i < j PROVE e[i].block < e[j].block
    <3>1. e[i].block = n - m + i /\ e[j].block = n - m + j
      BY <1>11, <1>18
    <3> QED
      BY <1>10, <2>1, <3>1
  <2> QED
    BY <1>17, <1>18, <2>1 DEF TellsTrue
<1>20. ASSUME NEW i \in DOMAIN delivered, NEW j \in DOMAIN e PROVE delivered[i].block < e[j].block
  <2>1. delivered[i].block \in h
    BY DEF HandedIn, h
  <2>2. delivered[i].block \in 1 .. n - 1 /\ delivered[i].block < n - l
    BY <1>2, <1>3, <2>1
  <2>3. j \in 1 .. m /\ e[j].block = n - m + j
    BY <1>11, <1>17, <1>18
  <2> DEFINE v == delivered[i].block
             w == e[j].block
  <2>4. v \in 1 .. n - 1 /\ v < n - l /\ w = n - (l + 1) + j /\ j >= 1 /\ j \in Int
    BY <1>10, <2>2, <2>3
  <2> HIDE DEF v, w
  <2>5. v < w
    BY <1>10, <2>4
  <2> QED
    BY <2>5 DEF v, w
<1>21. TellsTrue(delivered', t)
  BY <1>2, <1>8, <1>17, <1>19, <1>20, TellsAlso
<1>22. HandedIn(delivered') \subseteq 1 .. n
  <2>1. HandedIn(delivered') = h \cup HandedIn(e)
    BY <1>2, <1>8, <1>17, HandedAlso DEF h
  <2>2. HandedIn(e) \subseteq 1 .. n
    BY <1>11, <1>17, <1>18 DEF HandedIn
  <2>3. 1 .. n - 1 \subseteq 1 .. n
    BY <1>10
  <2> QED
    BY <1>2, <2>1, <2>2, <2>3
<1>23. JoinsInTime(s)
  BY <1>1, <1>8, <1>9, <1>15, <1>21, <1>22 DEF JoinsInTime, n, t
<1> QED
  BY <1>23

\* The steps that read nothing, and those that let go of what is none of a sequence.
LEMMA OthersTell ==
  ASSUME Reader!ConstantsOK, ReaderInv, TimesInv, InOrdinaryYears',
         \/ Reader!Start \/ Reader!Exit \/ Reader!Finish \/ Reader!EndSequence
         \/ Reader!Mismatch \/ Reader!NotContiguous
         \/ Reader!Open \/ Reader!SkipEmpty \/ Reader!BeginSequence
  PROVE  TimesInv'
<1>1. /\ Timed(block, log)
      /\ seq = [start |-> seq.start, stop |-> seq.stop, scanning |-> seq.scanning, blocks |-> seq.blocks]
      /\ step \in {"main", "open"} => log.last = "empty"
      /\ step \in {"between", "sequence"} =>
           /\ log.last = block[Len(block)].type /\ log.last \in Kinds
           /\ log.last = "invalid" => log.good = FALSE
      /\ step = "between" => ~ Reader!IsData(block[Len(block)].type)
      /\ step = "failed" => log.good = FALSE
      /\ status = -1 => step = "failed"
  BY DEF TimesInv
<1>2. CASE Reader!Start
  <2> DEFINE g == log.good /\ step' = "open"
  <2>1. /\ step = "main" /\ step' \in {"open", "failed"} /\ log' = [log EXCEPT !.good = g]
        /\ UNCHANGED <<status, block, seq, delivered>>
    BY <1>2 DEF Reader!Start
  <2>2. log.good \in BOOLEAN
    BY <1>1 DEF Timed
  <2>3. g \in BOOLEAN /\ (step' = "failed" => g = FALSE)
    BY <2>2
  <2>4. log'.good = g
    <3> DEFINE a == log.last
               b == log.now
               c == log.slips
               d == log.good
               u == log.time
    <3>1. log = [last |-> a, now |-> b, slips |-> c, good |-> d, time |-> u]
      BY <1>1 DEF Timed
    <3> HIDE DEF a, b, c, d, u, g
    <3> QED
      BY <2>1, <3>1
  <2> HIDE DEF g
  <2> QED
    BY <1>1, <2>1, <2>3, <2>4, RestTells
<1>3. CASE Reader!Exit
  <2>1. step' = step /\ UNCHANGED <<block, delivered, seq, log>> /\ step \in {"done", "failed"}
        /\ status' = IF step = "done" THEN 0 ELSE -1
    BY <1>3 DEF Reader!Exit
  <2>2. status' = -1 => step' = "failed"
    BY <2>1
  <2>3. step' \notin {"main", "open", "between", "sequence"} /\ (step' = "failed" => log'.good = FALSE)
    BY <1>1, <2>1
  <2> QED
    BY <2>1, <2>2, <2>3, RestTells
<1>4. CASE Reader!Finish
  <2>1. step' = "done" /\ step = "between" /\ UNCHANGED <<status, block, delivered, seq, log>>
    BY <1>4 DEF Reader!Finish, Reader!Stop
  <2> QED
    BY <1>1, <2>1, RestTells
<1>5. CASE Reader!EndSequence
  <2>1. step' = "between" /\ step = "sequence" /\ ~ Reader!IsData(block[Len(block)].type)
        /\ UNCHANGED <<status, block, delivered, seq, log>>
    BY <1>5 DEF Reader!EndSequence, Reader!Stop, Reader!Current
  <2> QED
    BY <1>1, <2>1, RestTells
<1>6. CASE Reader!Mismatch
  <2>1. step' = "failed" /\ step = "between" /\ block[Len(block)].type \notin {"empty", "eof", "header"}
        /\ UNCHANGED <<status, block, delivered, seq, log>>
    BY <1>6 DEF Reader!Mismatch, Reader!Stop, Reader!Current
  <2>2. log.last = "invalid"
    BY <1>1, <2>1 DEF Kinds, Reader!IsData
  <2> QED
    BY <1>1, <2>1, <2>2, RestTells
<1>7. CASE Reader!NotContiguous
  <2>1. step = "sequence" /\ block[Len(block)].type = "broken" /\ ~ Reader!Contiguous
    BY <1>7 DEF Reader!NotContiguous, Reader!Current
  <2> QED
    BY <2>1, ContiguousIs DEF Reader!IsData
<1>8. CASE Reader!Open
  <2>1. /\ step = "open" /\ Reader!Match(block) /\ step' = "between" /\ seq' = seq /\ delivered' = delivered
        /\ status' = status
    BY <1>8 DEF Reader!Open
  <2>2. ~ Reader!IsData(block[Len(block)].type)
    BY <2>1 DEF ReaderInv
  <2> QED
    BY <1>1, <2>1, <2>2, SkipTells
<1>9. CASE Reader!SkipEmpty
  <2>1. /\ step = "between" /\ block[Len(block)].type = "empty" /\ Reader!Match(block) /\ step' = step
        /\ seq' = seq /\ delivered' = delivered /\ status' = status
    BY <1>9 DEF Reader!SkipEmpty, Reader!Current
  <2> QED
    BY <1>1, <2>1, SkipTells
<1>10. CASE Reader!BeginSequence
  <2>1. /\ block[Len(block)].type = "header" /\ Reader!Match(block) /\ step = "between" /\ step' = "sequence"
        /\ seq' = Reader!NoSequence /\ delivered' = delivered /\ status' = status
    BY <1>10 DEF Reader!BeginSequence, Reader!Current
  <2>2. seq' = [start |-> seq'.start, stop |-> seq'.stop, scanning |-> seq'.scanning, blocks |-> seq'.blocks]
    BY <2>1 DEF Reader!NoSequence
  <2> QED
    BY <1>1, <2>1, <2>2, SkipTells
<1> QED
  BY <1>2, <1>3, <1>4, <1>5, <1>6, <1>7, <1>8, <1>9, <1>10

LEMMA InitTimes == Reader!Init /\ (Reader!Starts \subseteq Int) => TimesInv
<1> SUFFICES ASSUME Reader!Init, Reader!Starts \subseteq Int PROVE TimesInv
  OBVIOUS
<1>1. PICK now \in Reader!Starts : log = [last |-> "empty", now |-> now, slips |-> 0, good |-> TRUE, time |-> <<now>>]
  BY DEF Reader!Init
<1>2. /\ step = "main" /\ status = Reader!Running /\ seq = Reader!NoSequence /\ delivered = <<>>
      /\ block = << [type |-> "invalid", ticks |-> 0, references |-> 1] >>
  BY DEF Reader!Init
<1>3. Len(block) = 1 /\ ~ Reader!IsData(block[1].type)
  BY <1>2 DEF Reader!IsData
<1>4. now \in Int
  BY <1>1
<1>5. IsSequence(<<now>>) /\ Len(<<now>>) = 1 /\ \A k \in 1 .. 1 : <<now>>[k] \in Int
  <2>1. <<now>> = [k \in 1 .. 1 |-> <<now>>[k]]
    OBVIOUS
  <2>2. IsSequence(<<now>>) /\ Len(<<now>>) = 1
    BY <2>1, SequenceOf
  <2> QED
    BY <1>4, <2>2
<1>6. Timed(block, log)
  BY <1>1, <1>3, <1>4, <1>5 DEF Timed
<1>7. TellsTrue(delivered, log.time)
  BY <1>2, NoBlocks DEF TellsTrue
<1> QED
  BY <1>1, <1>2, <1>6, <1>7 DEF TimesInv, Reader!NoSequence, Reader!Running

LEMMA TimesKept == Reader!ConstantsOK /\ ReaderInv /\ TimesInv /\ InOrdinaryYears' /\ [Reader!Next]_Reader!vars => TimesInv'
<1>1. ASSUME Reader!ConstantsOK, ReaderInv, TimesInv, InOrdinaryYears', Reader!Next PROVE TimesInv'
  BY <1>1, OthersTell, JoinTells, AddJoins, ScanJoins, ResolveJoins, ContinueJoins DEF Reader!Next
<1>2. ASSUME TimesInv, UNCHANGED Reader!vars PROVE TimesInv'
  BY <1>2 DEF Reader!vars, TimesInv
<1> QED
  BY <1>1, <1>2

----------------------------------------------------------------------------
(* Recordings that stay clear of the leap years *)

\* The time since the recording began, and the blocks since then.
SpanInv ==
  /\ IsSequence(log.time) /\ Len(log.time) = Len(block)
  /\ \E start \in Reader!Starts :
       /\ log.now \in start - Len(block) .. start + Len(block) * (TicksPerBlock + 1)
       /\ \A k \in 1 .. Len(block) :
            log.time[k] \in start - Len(block) .. start + Len(block) * (TicksPerBlock + 1)
  /\ \/ Len(block) <= LogBlocks
     \/ Len(block) = LogBlocks + 1 /\ block[Len(block)].type \in {"eof", "invalid"}
  /\ step \in {"main", "open"} => Len(block) = 1

LEMMA ProductGrows ==
  ASSUME NEW d \in Nat, NEW a \in Int, NEW b \in Int, a <= b
  PROVE  a * d <= b * d /\ a * d \in Int /\ b * d \in Int
<1>1. b - a \in Nat
  OBVIOUS
<1> DEFINE k == b - a
<1>2. b * d = a * d + k * d
  OBVIOUS
<1>3. \A i \in Nat : i * d >= 0
  OBVIOUS
<1>4. a * d \in Int /\ b * d \in Int
  OBVIOUS
<1> DEFINE p == a * d
           q == b * d
           r == k * d
<1>5. r >= 0 /\ r \in Int
  BY <1>1, <1>3
<1>6. p \in Int /\ q = p + r
  BY <1>2, <1>4
<1> HIDE DEF p, q, r
<1>7. p <= q
  BY <1>5, <1>6
<1> QED
  BY <1>4, <1>7 DEF p, q

LEMMA YearsAreLong ==
  ASSUME Reader!ConstantsOK, NEW a \in Nat, NEW b \in Nat, a <= b
  PROVE  /\ Reader!YearStart(a) \in Int /\ Reader!YearStart(b) \in Int /\ Reader!YearStart(a) <= Reader!YearStart(b)
         /\ Reader!YearStart(a + 1) \in Int /\ Reader!YearStart(a + 1) >= Reader!YearStart(a) + DaysPerYear * Reader!ticks_per_day
<1> DEFINE D == Reader!ticks_per_day
           N == DaysPerYear
           Days(y) == N * y + (y + 3) \div 4
<1>1. D \in Nat /\ N \in Nat
  BY DEF Reader!ConstantsOK, Reader!ticks_per_day
<1>2. \A y : Reader!YearStart(y) = Days(y) * D
  BY DEF Reader!YearStart
<1> HIDE DEF D, N
<1>3. Days(a) \in Int /\ Days(b) \in Int /\ Days(a + 1) \in Int
  BY <1>1
<1>4. Days(a) <= Days(b)
  <2>1. a * N <= b * N
    BY <1>1, ProductGrows
  <2>2. N * a = a * N /\ N * b = b * N
    BY <1>1
  <2>3. (a + 3) \div 4 <= (b + 3) \div 4
    OBVIOUS
  <2> DEFINE p == N * a
             q == N * b
             v == (a + 3) \div 4
             w == (b + 3) \div 4
  <2>4. p \in Int /\ q \in Int /\ p <= q /\ v \in Int /\ w \in Int /\ v <= w
    BY <1>1, <2>1, <2>2, <2>3
  <2> HIDE DEF p, q, v, w
  <2>5. p + v <= q + w
    BY <2>4
  <2> QED
    BY <2>5 DEF p, q, v, w
<1>5. Days(a) + N <= Days(a + 1)
  <2>1. N * (a + 1) = N * a + N
    BY <1>1
  <2>2. (a + 3) \div 4 <= (a + 1 + 3) \div 4
    OBVIOUS
  <2> DEFINE p == N * a
             q == N * (a + 1)
             v == (a + 3) \div 4
             w == (a + 1 + 3) \div 4
  <2>3. p \in Int /\ q = p + N /\ v \in Int /\ w \in Int /\ v <= w
    BY <1>1, <2>1, <2>2
  <2> HIDE DEF p, q, v, w
  <2>4. p + v + N <= q + w
    BY <1>1, <2>3
  <2> QED
    BY <2>4 DEF p, q, v, w
<1> DEFINE u == Days(a)
           v == Days(b)
           w == Days(a + 1)
<1>6. u \in Int /\ v \in Int /\ w \in Int /\ u <= v /\ u + N <= w /\ u + N \in Int
  BY <1>1, <1>3, <1>4, <1>5
<1>7. Reader!YearStart(a) = u * D /\ Reader!YearStart(b) = v * D /\ Reader!YearStart(a + 1) = w * D
  BY <1>2
<1> HIDE DEF u, v, w, Days
<1>8. u * D <= v * D /\ u * D \in Int /\ v * D \in Int
  BY <1>1, <1>6, ProductGrows
<1>9. (u + N) * D <= w * D /\ w * D \in Int
  BY <1>1, <1>6, ProductGrows
<1>10. (u + N) * D = u * D + N * D
  BY <1>1, <1>6
<1>11. N * D \in Int
  BY <1>1
<1>12. w * D >= u * D + N * D
  BY <1>8, <1>9, <1>10, <1>11
<1> QED
  BY <1>7, <1>8, <1>9, <1>12 DEF D, N

LEMMA YearIs ==
  ASSUME Reader!ConstantsOK, NEW t \in Int, NEW y \in 0 .. 99, Reader!YearStart(y) <= t, t < Reader!YearStart(y + 1)
  PROVE  Reader!YearOf(t) = y
<1> DEFINE v == Reader!YearOf(t)
<1>1. v \in 0 .. 99 /\ Reader!YearStart(v) <= t /\ t < Reader!YearStart(v + 1)
  BY Zenon DEF Reader!YearOf
<1> HIDE DEF v
<1>2. ~ (v < y)
  <2>1. ASSUME v < y PROVE Reader!YearStart(v + 1) \in Int /\ Reader!YearStart(y) \in Int /\ Reader!YearStart(v + 1) <= Reader!YearStart(y)
    <3>1. v + 1 \in Nat /\ y \in Nat /\ v + 1 <= y
      BY <1>1, <2>1
    <3> QED
      BY <3>1, YearsAreLong
  <2> QED
    BY <1>1, <2>1
<1>3. ~ (y < v)
  <2>1. ASSUME y < v PROVE Reader!YearStart(y + 1) \in Int /\ Reader!YearStart(v) \in Int /\ Reader!YearStart(y + 1) <= Reader!YearStart(v)
    <3>1. y + 1 \in Nat /\ v \in Nat /\ y + 1 <= v
      BY <1>1, <2>1
    <3> QED
      BY <3>1, YearsAreLong
  <2> QED
    BY <1>1, <2>1
<1> QED
  BY <1>1, <1>2, <1>3 DEF v

LEMMA StartsAre ==
  ASSUME Reader!ConstantsOK, NEW start \in Reader!Starts
  PROVE  /\ start \in Int
         /\ \E year \in StartYears :
              /\ Reader!YearStart(year + 1) - Reader!ticks_per_day <= start /\ start < Reader!YearStart(year + 1)
              /\ Reader!YearStart(year + 1) \in Int
<1>1. PICK year \in StartYears, hour \in StartHours : start = Reader!YearStart(year + 1) - (24 - hour) * TicksPerHour
  BY DEF Reader!Starts
<1> DEFINE H == TicksPerHour
           s == Reader!YearStart(year + 1)
           left == 24 - hour
           p == left * H
<1>2. year \in Nat /\ year + 1 \in Nat /\ left \in 1 .. 24 /\ H \in Nat /\ H >= 1
  BY DEF Reader!ConstantsOK
<1>3. s \in Int
  BY <1>2, YearsAreLong
<1> HIDE DEF left
<1>4. 1 * H <= p /\ p <= 24 * H /\ p \in Int
  BY <1>2, ProductGrows
<1>5. Reader!ticks_per_day = 24 * H /\ start = s - p
  BY <1>1 DEF Reader!ticks_per_day, left
<1> HIDE DEF H, s, p
<1>6. start \in Int /\ s - Reader!ticks_per_day <= start /\ start < s
  BY <1>2, <1>3, <1>4, <1>5
<1> QED
  BY <1>3, <1>6 DEF s

LEMMA InitSpan == Reader!ConstantsOK /\ Reader!Init => SpanInv
<1> SUFFICES ASSUME Reader!ConstantsOK, Reader!Init PROVE SpanInv
  OBVIOUS
<1>1. PICK now \in Reader!Starts : log = [last |-> "empty", now |-> now, slips |-> 0, good |-> TRUE, time |-> <<now>>]
  BY DEF Reader!Init
<1>2. Len(block) = 1
  BY DEF Reader!Init
<1>3. now \in Int /\ TicksPerBlock \in Nat /\ LogBlocks \in Nat \ {0}
  BY StartsAre DEF Reader!ConstantsOK
<1>4. log.now = now /\ log.time[1] = now
  BY <1>1
<1>5. now \in now - 1 .. now + 1 * (TicksPerBlock + 1)
  BY <1>3
<1>7. IsSequence(log.time) /\ Len(log.time) = 1
  <2>1. <<now>> = [k \in 1 .. 1 |-> <<now>>[k]]
    OBVIOUS
  <2> QED
    BY <1>1, <2>1, SequenceOf
<1>6. /\ log.now \in now - Len(block) .. now + Len(block) * (TicksPerBlock + 1)
      /\ \A k \in 1 .. Len(block) : log.time[k] \in now - Len(block) .. now + Len(block) * (TicksPerBlock + 1)
  BY <1>2, <1>4, <1>5
<1> QED
  BY <1>2, <1>3, <1>6, <1>7 DEF SpanInv

\* A read that goes no further than it may.
LEMMA MatchSpans ==
  ASSUME Reader!ConstantsOK, IsFile(block), Timed(block, log), NEW s, Alike(block, s), Reader!Match(s), SpanInv,
         block[Len(block)].type \notin {"eof", "invalid"} \/ Len(block) = 1, step' \notin {"main", "open"}
  PROVE  SpanInv'
<1> DEFINE n == Len(block)
           u == Reader!Released(s, Len(s))
           W == TicksPerBlock + 1
<1>1. Reader!Read(u)
  BY DEF Reader!Match
<1>2. n \in Nat \ {0}
  BY FileIs
<1>3. IsSequence(u) /\ Len(u) = n
  <2>1. Len(s) = n /\ IsFile(s)
    BY DEF Alike
  <2>2. Len(s) \in 1 .. Len(s)
    BY <1>2, <2>1
  <2> QED
    BY <2>1, <2>2, ReleasedIs DEF Alike, IsFile
<1> HIDE DEF u
<1>4. PICK type \in {"header", "data", "broken", "empty", "invalid", "eof"}, slip \in {-1, 0, 1} :
        LET instant == log.now + slip
            last == Len(u) + 1
        IN /\ last > LogBlocks \/ (~Reader!IsData(type) /\ Reader!Others = MaxOthers)
                => type \in {"eof", "invalid"}
           /\ ~Reader!IsData(type) => slip = 0
           /\ Reader!Follows(type, instant)
           /\ block' = Append(u,
                [type |-> type, references |-> 1,
                 ticks |-> IF Reader!IsData(type) THEN Reader!Stamp(type, instant) ELSE 0])
           /\ log' = [log EXCEPT
                !.last = type,
                !.good = @ /\ type # "invalid",
                !.slips = IF slip = 0 THEN @ ELSE @ + 1,
                !.now = IF Reader!IsData(type) THEN instant + TicksPerBlock ELSE @,
                !.time = Append(@, instant)]
  BY <1>1, Zenon DEF Reader!Read
<1> DEFINE t == log.now + slip
           e == [type |-> type, references |-> 1, ticks |-> IF Reader!IsData(type) THEN Reader!Stamp(type, t) ELSE 0]
           now == IF Reader!IsData(type) THEN t + TicksPerBlock ELSE log.now
           good == log.good /\ type # "invalid"
           slips == IF slip = 0 THEN log.slips ELSE log.slips + 1
           told == Append(log.time, t)
<1>5. log'.now = now /\ log'.time = told
  <2> DEFINE a == log.last
             b == log.now
             c == log.slips
             d == log.good
             l == log.time
  <2>1. log = [last |-> a, now |-> b, slips |-> c, good |-> d, time |-> l]
    BY DEF Timed
  <2>2. log' = [log EXCEPT !.last = type, !.good = good, !.slips = slips, !.now = now, !.time = told]
    BY <1>4
  <2> HIDE DEF a, b, c, d, l, good, slips, now, told
  <2> QED
    BY <2>1, <2>2
<1>6. block' = Append(u, e) /\ e.type = type /\ (n + 1 > LogBlocks => type \in {"eof", "invalid"})
  BY <1>3, <1>4
<1> HIDE DEF e, told
<1>7. Len(block') = n + 1 /\ block'[n + 1] = e
  BY <1>3, <1>6, Appended
<1>8. IsSequence(log.time) /\ Len(log.time) = n /\ log.now \in Int /\ \A k \in 1 .. n : log.time[k] \in Int
  BY DEF Timed
<1>9. /\ IsSequence(told) /\ Len(told) = n + 1
      /\ \A k \in 1 .. n : told[k] = log.time[k]
      /\ told[n + 1] = t
  BY <1>8, Appended DEF told
<1>10. PICK start \in Reader!Starts :
         /\ log.now \in start - n .. start + n * W
         /\ \A k \in 1 .. n : log.time[k] \in start - n .. start + n * W
  BY DEF SpanInv
<1>11. start \in Int /\ W \in Nat /\ W >= 1 /\ TicksPerBlock \in Int /\ W = TicksPerBlock + 1
  BY StartsAre DEF Reader!ConstantsOK
<1> DEFINE p == n * W
           q == (n + 1) * W
<1>12. p \in Int /\ q = p + W
  BY <1>2, <1>11
<1> HIDE DEF W, p, q
<1>13. t \in Int /\ t - log.now \in -1 .. 1
  BY <1>8
<1> HIDE DEF t
<1>14. t \in start - (n + 1) .. start + q
  <2> DEFINE m == log.now
  <2>1. m \in start - n .. start + p /\ m \in Int /\ t - m \in -1 .. 1
    BY <1>8, <1>10, <1>13 DEF p
  <2> HIDE DEF m
  <2> QED
    BY <1>2, <1>11, <1>12, <1>13, <2>1
<1>15. now \in start - (n + 1) .. start + q
  <2> DEFINE m == log.now
  <2>1. m \in start - n .. start + p /\ m \in Int /\ t - m \in -1 .. 1
    BY <1>8, <1>10, <1>13 DEF p
  <2>2. now = t + TicksPerBlock \/ now = m
    OBVIOUS
  <2> HIDE DEF m, now
  <2>3. t + TicksPerBlock \in start - (n + 1) .. start + q
    BY <1>2, <1>11, <1>12, <1>13, <2>1 DEF W
  <2>4. m \in start - (n + 1) .. start + q
    BY <1>2, <1>11, <1>12, <2>1
  <2> QED
    BY <2>2, <2>3, <2>4
<1>16. ASSUME NEW k \in 1 .. n + 1 PROVE told[k] \in start - (n + 1) .. start + q
  <2>1. CASE k = n + 1
    BY <1>9, <1>14, <2>1
  <2>2. CASE k # n + 1
    <3>1. k \in 1 .. n
      BY <1>2, <2>2
    <3> DEFINE m == log.time[k]
    <3>2. m \in start - n .. start + p /\ m \in Int /\ told[k] = m
      BY <1>8, <1>9, <1>10, <3>1 DEF p
    <3> HIDE DEF m
    <3> QED
      BY <1>2, <1>11, <1>12, <3>2
  <2> QED
    BY <2>1, <2>2
<1>17. /\ log'.now \in start - Len(block') .. start + Len(block') * (TicksPerBlock + 1)
       /\ \A k \in 1 .. Len(block') : log'.time[k] \in start - Len(block') .. start + Len(block') * (TicksPerBlock + 1)
  <2> HIDE DEF now
  <2> QED
    BY <1>5, <1>7, <1>15, <1>16 DEF q, W
<1>18. \/ Len(block') <= LogBlocks
       \/ Len(block') = LogBlocks + 1 /\ block'[Len(block')].type \in {"eof", "invalid"}
  <2>1. n <= LogBlocks /\ LogBlocks \in Nat
    BY DEF SpanInv, Reader!ConstantsOK
  <2>2. n + 1 <= LogBlocks \/ (n + 1 = LogBlocks + 1 /\ n + 1 > LogBlocks)
    BY <1>2, <2>1
  <2> QED
    BY <1>6, <1>7, <2>2
<1>19. \E z \in Reader!Starts :
         /\ log'.now \in z - Len(block') .. z + Len(block') * (TicksPerBlock + 1)
         /\ \A k \in 1 .. Len(block') : log'.time[k] \in z - Len(block') .. z + Len(block') * (TicksPerBlock + 1)
  BY <1>17
<1> QED
  BY <1>5, <1>7, <1>9, <1>18, <1>19 DEF SpanInv

LEMMA SpanKept ==
  ASSUME Reader!ConstantsOK, ReaderInv, TimesInv, SpanInv, [Reader!Next]_Reader!vars
  PROVE  SpanInv'
<1> DEFINE n == Len(block)
<1>1. /\ IsFile(block) /\ Timed(block, log) /\ (step \in {"main", "open"} => n = 1)
  BY DEF ReaderInv, TimesInv, SpanInv
<1>2. ASSUME block' = block, log'.now = log.now, log'.time = log.time,
             step' \in {"main", "open"} => step \in {"main", "open"}
      PROVE  SpanInv'
  BY <1>2 DEF SpanInv
<1>3. Alike(block, block)
  BY <1>1 DEF Alike
<1>4. CASE UNCHANGED Reader!vars
  BY <1>2, <1>4 DEF Reader!vars
<1>5. CASE Reader!Start
  <2> DEFINE g == log.good /\ step' = "open"
             a == log.last
             b == log.now
             c == log.slips
             d == log.good
             l == log.time
  <2>1. step = "main" /\ log' = [log EXCEPT !.good = g] /\ block' = block
    BY <1>5 DEF Reader!Start
  <2>2. log = [last |-> a, now |-> b, slips |-> c, good |-> d, time |-> l]
    BY <1>1 DEF Timed
  <2> HIDE DEF a, b, c, d, l, g
  <2>3. log'.now = b /\ log'.time = l
    BY <2>1, <2>2
  <2> QED
    BY <1>2, <2>1, <2>3 DEF b, l
<1>6. CASE Reader!Exit \/ Reader!Finish \/ Reader!EndSequence \/ Reader!Mismatch \/ Reader!NotContiguous
  <2>1. block' = block /\ log' = log /\ step' \notin {"main", "open"}
    BY <1>6 DEF Reader!Exit, Reader!Finish, Reader!EndSequence, Reader!Mismatch, Reader!NotContiguous,
       Reader!Refuse, Reader!Stop
  <2> QED
    BY <1>2, <2>1
<1>7. CASE Reader!Open \/ Reader!SkipEmpty \/ Reader!BeginSequence
  <2>1. Reader!Match(block) /\ step' \notin {"main", "open"} /\ (n = 1 \/ block[n].type \in {"empty", "header"})
    BY <1>1, <1>7 DEF Reader!Open, Reader!SkipEmpty, Reader!BeginSequence, Reader!Current
  <2> QED
    BY <1>1, <1>3, <2>1, MatchSpans
<1>8. CASE Reader!add_block \/ Reader!Scan \/ Reader!Resolve \/ Reader!Continue
  <2>1. PICK s : JoinsInTime(s)
    BY <1>8, AddJoins, ScanJoins, ResolveJoins, ContinueJoins
  <2>2. Alike(block, s) /\ Reader!Match(s) /\ step' = "sequence" /\ Reader!IsData(block[n].type)
    BY <2>1 DEF JoinsInTime
  <2> QED
    BY <1>1, <2>2, MatchSpans DEF Reader!IsData
<1> QED
  BY <1>4, <1>5, <1>6, <1>7, <1>8 DEF Reader!Next

LEMMA SpanIsOrdinary ==
  ASSUME Reader!ConstantsOK, Reader!ClearOfLeapYears
  PROVE  ReaderInv /\ SpanInv => InOrdinaryYears
<1> SUFFICES ASSUME ReaderInv, SpanInv PROVE InOrdinaryYears
  OBVIOUS
<1> DEFINE n == Len(block)
           W == TicksPerBlock + 1
           L == LogBlocks + 1
           D == Reader!ticks_per_day
           Y == DaysPerYear * D
<1>1. PICK start \in Reader!Starts : \A k \in 1 .. n : log.time[k] \in start - n .. start + n * W
  BY DEF SpanInv
<1>2. n <= L /\ n \in Nat /\ L \in Nat /\ W \in Nat /\ D \in Nat
  BY FileIs DEF ReaderInv, SpanInv, Reader!ConstantsOK, Reader!ticks_per_day
<1>3. start \in Int
  BY StartsAre
<1>4. PICK year \in StartYears :
        Reader!YearStart(year + 1) - D <= start /\ start < Reader!YearStart(year + 1) /\ Reader!YearStart(year + 1) \in Int
  BY StartsAre
<1>5. year \in 0 .. 98 /\ year % 4 \in {1, 2} /\ L * W <= Y /\ D + L <= Y
  BY <1>2 DEF Reader!ConstantsOK, Reader!ClearOfLeapYears
<1>6. n * W <= L * W /\ n * W \in Int /\ L * W \in Int
  BY <1>2, ProductGrows
<1>7. Y \in Int
  BY <1>2 DEF Reader!ConstantsOK
<1> DEFINE a == Reader!YearStart(year)
           b == Reader!YearStart(year + 1)
           c == Reader!YearStart(year + 2)
<1>8. a \in Int /\ b >= a + Y /\ b \in Int
  <2>1. year \in Nat
    BY <1>5
  <2> QED
    BY <2>1, YearsAreLong
<1>9. c \in Int /\ c >= b + Y
  <2> DEFINE next == year + 1
  <2>1. next \in Nat
    BY <1>5
  <2>2. next + 1 = year + 2
    BY <1>5
  <2> HIDE DEF next
  <2>3. Reader!YearStart(next + 1) \in Int /\ Reader!YearStart(next + 1) >= Reader!YearStart(next) + DaysPerYear * Reader!ticks_per_day
    BY <2>1, YearsAreLong
  <2> QED
    BY <2>2, <2>3 DEF next
<1>10. IsSequence(log.time) /\ Len(log.time) = n
  BY DEF SpanInv
<1>11. DOMAIN log.time = 1 .. n
  BY <1>10, SequenceIs
<1> DEFINE p == n * W
           q == L * W
<1>12. /\ p \in Int /\ q \in Int /\ p <= q /\ q <= Y /\ D + L <= Y
       /\ b - D <= start /\ start < b
  BY <1>4, <1>5, <1>6
<1>13. \A k \in 1 .. n : log.time[k] \in start - n .. start + p
  BY <1>1
<1> HIDE DEF a, b, c, p, q, n, L, W, D, Y
<1>14. ASSUME NEW k \in 1 .. n
       PROVE  Reader!YearOf(log.time[k]) \in 0 .. 99 /\ Reader!YearOf(log.time[k]) % 4 # 0
  <2> DEFINE t == log.time[k]
  <2>1. t \in start - n .. start + p
    BY <1>13
  <2> HIDE DEF t
  <2>2. t \in Int /\ a <= t /\ t < c
    BY <1>2, <1>3, <1>7, <1>8, <1>9, <1>12, <2>1
  <2>3. CASE t < b
    <3>1. year \in 0 .. 99 /\ Reader!YearStart(year) <= t /\ t < Reader!YearStart(year + 1)
      BY <1>5, <2>2, <2>3 DEF a, b
    <3>2. Reader!YearOf(t) = year
      BY <2>2, <3>1, YearIs
    <3> QED
      BY <1>5, <3>2 DEF t
  <2>4. CASE ~ (t < b)
    <3> DEFINE next == year + 1
    <3>1. next \in 0 .. 99 /\ next + 1 = year + 2 /\ next % 4 # 0
      BY <1>5
    <3>2. Reader!YearStart(next) <= t /\ t < Reader!YearStart(next + 1)
      BY <1>8, <2>2, <2>4, <3>1 DEF b, c
    <3> HIDE DEF next
    <3>3. Reader!YearOf(t) = next
      BY <2>2, <3>1, <3>2, YearIs
    <3> QED
      BY <3>1, <3>3 DEF t
  <2> QED
    BY <2>3, <2>4
<1> QED
  BY <1>11, <1>14 DEF InOrdinaryYears, n

LEMMA ReaderTells == TimesInv => DeliveredTrue /\ GoodLogIsRead
BY DEF TimesInv, TellsTrue, DeliveredTrue, GoodLogIsRead, Reader!DeliveredTrue, Reader!GoodLogIsRead

\* Of a recording with no block in a leap year every block is handed on once, in order and with its time, and none
\* is refused, for any length of an hour, a block and a year, and any hours and slips (sequence.cpp:139-240,
\* block.cpp:93-158).
THEOREM OrdinaryYearsAreTold ==
  ASSUME Reader!ConstantsOK
  PROVE  Reader!Spec /\ []InOrdinaryYears => [](DeliveredTrue /\ GoodLogIsRead)
<1>1. Reader!Init => TimesInv
  BY StartsAre, InitTimes
<1>2. TimesInv /\ ReaderInv /\ InOrdinaryYears' /\ [Reader!Next]_Reader!vars => TimesInv'
  BY TimesKept
<1> QED
  BY <1>1, <1>2, InitReader, ReaderKeeps, ReaderTells, PTL DEF Reader!Spec

\* No block of a recording that begins a year or more ahead of a leap year and is over within a year lies in one:
\* it is told as it was made (block.cpp:93).
THEOREM ClearRecordingsAreTold ==
  ASSUME Reader!ConstantsOK, Reader!ClearOfLeapYears
  PROVE  Reader!Spec => [](DeliveredTrue /\ GoodLogIsRead)
<1>1. Reader!Init => ReaderInv /\ TimesInv /\ SpanInv
  BY InitReader, StartsAre, InitTimes, InitSpan
<1>2. ReaderInv /\ TimesInv /\ SpanInv /\ [Reader!Next]_Reader!vars => SpanInv'
  BY SpanKept
<1>3. ReaderInv /\ SpanInv => InOrdinaryYears
  BY SpanIsOrdinary
<1>4. TimesInv /\ ReaderInv /\ InOrdinaryYears' /\ [Reader!Next]_Reader!vars => TimesInv'
  BY TimesKept
<1> QED
  BY <1>1, <1>2, <1>3, <1>4, ReaderKeeps, ReaderTells, PTL DEF Reader!Spec

----------------------------------------------------------------------------
(* Strings: the inductive invariant *)

StringTypes ==
  /\ heap \in [Strings!Address -> Strings!Contents \cup {None}] /\ heap[Strings!Empty] # None
  /\ heap[Strings!Empty]._data = <<>>
  /\ _contents \in [Variable -> Strings!Address \cup {None}]
  /\ meaning \in [Variable -> Seq(Strings!Chars)]

StringsInv == StringTypes /\ Strings!StringsKeepTheirText

\* v is given the text t, and by the words of string.h the text m.
GivenText(v, m, t) ==
  /\ meaning' = [meaning EXCEPT ![v] = m]
  /\ displaced' \in {displaced \cup {v}, displaced \ {v}}
  /\ v \in displaced' \/ t = m

LEMMA GivenIs ==
  ASSUME NEW v, NEW m, NEW t, NEW spoilt, Strings!Given(v, m, spoilt), spoilt \/ t = m
  PROVE  GivenText(v, m, t)
<1>1. CASE spoilt
  BY <1>1 DEF Strings!Given, GivenText
<1>2. CASE ~ spoilt
  BY <1>2 DEF Strings!Given, GivenText
<1> QED
  BY <1>1, <1>2

----------------------------------------------------------------------------

\* The module of the strings counts as this one does.
LEMMA SameCount ==
  \A S : (Strings!IsFiniteSet(S) <=> IsFiniteSet(S)) /\ Strings!Cardinality(S) = Cardinality(S)
<1>1. \A S : Strings!IsFiniteSet(S) <=> IsFiniteSet(S)
  BY DEF Strings!IsFiniteSet, IsFiniteSet
<1>2. \A S : Strings!Cardinality(S) = Cardinality(S)
  BY DEF Strings!Cardinality, Cardinality
<1> QED
  BY <1>1, <1>2

LEMMA ConstantsAre ==
  /\ IsFiniteSet(Variable) /\ Addresses \in Nat /\ Addresses > Cardinality(Variable)
  /\ None \notin Strings!Address /\ None \notin Strings!Contents
BY StringsAssumption, SameCount DEF Strings!ConstantsOK

LEMMA NamedCounts ==
  ASSUME NEW a
  PROVE  /\ IsFiniteSet(Strings!Named(a)) /\ Cardinality(Strings!Named(a)) \in Nat
         /\ (Cardinality(Strings!Named(a)) = 0 <=> Strings!Named(a) = {})
<1>1. Strings!Named(a) \subseteq Variable /\ IsFiniteSet(Variable)
  BY ConstantsAre DEF Strings!Named
<1> QED
  BY <1>1, FS_Subset, FS_CardinalityType, FS_EmptySet

\* There are contents left for a new String.
LEMMA FreshIsFree ==
  ASSUME StringsInv
  PROVE  Strings!Fresh \in Strings!Address \ {Strings!Empty} /\ heap[Strings!Fresh] = None
<1>1. \E a \in 1 .. Addresses : heap[a] = None
  <2> SUFFICES ASSUME \A a \in 1 .. Addresses : heap[a] # None
               PROVE  FALSE
    OBVIOUS
  <2>1. \A a \in 1 .. Addresses : a \in Strings!Address \ {Strings!Empty} /\ Strings!Named(a) # {}
    BY ConstantsAre DEF StringsInv, Strings!StringsKeepTheirText, Strings!Address, Strings!Empty
  <2> DEFINE f == [a \in 1 .. Addresses |-> CHOOSE v \in Variable : _contents[v] = a]
  <2>2. \A a \in 1 .. Addresses : f[a] \in Variable /\ _contents[f[a]] = a
    <3> TAKE a \in 1 .. Addresses
    <3>1. \E v \in Variable : _contents[v] = a
      BY <2>1 DEF Strings!Named
    <3>2. f[a] = CHOOSE v \in Variable : _contents[v] = a
      OBVIOUS
    <3> QED
      BY <3>1, <3>2
  <2>3. f \in [1 .. Addresses -> Variable]
    BY <2>2
  <2> HIDE DEF f
  <2>4. \A a, b \in 1 .. Addresses : f[a] = f[b] => a = b
    BY <2>2
  <2>5. f \in Injection(1 .. Addresses, Variable)
    BY <2>3, <2>4 DEF Injection, IsInjective
  <2>6. Cardinality(1 .. Addresses) <= Cardinality(Variable)
    BY <2>5, ConstantsAre, FS_Injection, FS_Interval
  <2>7. Cardinality(1 .. Addresses) = Addresses
    BY ConstantsAre, FS_Interval
  <2> QED
    BY <2>6, <2>7, ConstantsAre, FS_CardinalityType
<1> DEFINE T == {a \in Strings!Address : heap[a] = None}
<1>2. T \subseteq Nat /\ T # {}
  BY <1>1, ConstantsAre DEF Strings!Address
<1>3. PICK a \in T : \A b \in T : <<b, a>> \notin OpToRel(<, Nat)
  BY <1>2, NatLessThanWellFounded, WFMin
<1>4. \A b \in T : ~ (b < a)
  BY <1>2, <1>3, Zenon DEF OpToRel
<1>6. \A b \in T : a <= b
  BY <1>2, <1>4
<1>5. \E x \in Strings!Address : heap[x] = None /\ \A b \in Strings!Address : heap[b] = None => x <= b
  BY <1>6
<1>7. Strings!Fresh \in Strings!Address /\ heap[Strings!Fresh] = None
  BY <1>5 DEF Strings!Fresh
<1> QED
  BY <1>7 DEF StringsInv, StringTypes

LEMMA InitStrings == Strings!Init => StringsInv
<1> SUFFICES ASSUME Strings!Init PROVE StringsInv
  OBVIOUS
<1>1. PICK static \in 1 .. 2 :
        heap = [a \in Strings!Address |->
                  IF a = Strings!Empty THEN [Strings!NewContents(<<>>) EXCEPT !._references = static] ELSE None]
  BY DEF Strings!Init
<1>2. Strings!Empty \in Strings!Address
  BY ConstantsAre DEF Strings!Empty, Strings!Address
<1>3. [Strings!NewContents(<<>>) EXCEPT !._references = static] = [_references |-> static, _data |-> <<>>]
  BY DEF Strings!NewContents
<1>4. [_references |-> static, _data |-> <<>>] \in Strings!Contents
  BY EmptySeq DEF Strings!Contents
<1>5. heap[Strings!Empty] = [_references |-> static, _data |-> <<>>] /\ \A a \in Strings!Address \ {Strings!Empty} : heap[a] = None
  BY <1>1, <1>2, <1>3
<1>6. \A v \in Variable : _contents[v] = None
  BY DEF Strings!Init
<1>7. StringTypes
  <2>1. heap \in [Strings!Address -> Strings!Contents \cup {None}]
    BY <1>1, <1>3, <1>4
  <2>2. meaning \in [Variable -> Seq(Strings!Chars)] /\ _contents \in [Variable -> Strings!Address \cup {None}]
    BY EmptySeq DEF Strings!Init
  <2>3. heap[Strings!Empty] # None
    BY <1>4, <1>5, ConstantsAre
  <2> QED
    BY <1>5, <2>1, <2>2, <2>3 DEF StringTypes
<1>8. Strings!Named(Strings!Empty) = {}
  BY <1>2, <1>6, ConstantsAre DEF Strings!Named
<1>9. heap[Strings!Empty]._references - Cardinality(Strings!Named(Strings!Empty)) \in 1 .. 2
  BY <1>5, <1>8, FS_EmptySet
<1> QED
  BY <1>5, <1>6, <1>7, <1>9, SameCount DEF StringsInv, Strings!StringsKeepTheirText, Strings!InScope, StringTypes

----------------------------------------------------------------------------
Ref(references, data) == [_references |-> references, _data |-> data]
Store == [Strings!Address -> Strings!Contents \cup {None}]

LEMMA ContentsAre ==
  /\ \A c \in Strings!Contents : c._references \in Nat /\ c._data \in Seq(Strings!Chars) /\ c = Ref(c._references, c._data) /\ c # None
  /\ \A r \in Nat, d \in Seq(Strings!Chars) :
       Ref(r, d) \in Strings!Contents /\ Ref(r, d)._references = r /\ Ref(r, d)._data = d
<1>1. None \notin Strings!Contents
  BY ConstantsAre
<1> QED
  BY <1>1 DEF Strings!Contents, Ref

LEMMA AddRef ==
  ASSUME NEW store \in Store, NEW a \in Strings!Address, store[a] # None
  PROVE  /\ Strings!add_reference(store, a) = [store EXCEPT ![a] = Ref(store[a]._references + 1, store[a]._data)]
         /\ Strings!add_reference(store, a) \in Store
<1>1. store[a] \in Strings!Contents
  BY DEF Store
<1>2. [store[a] EXCEPT !._references = @ + 1] = Ref(store[a]._references + 1, store[a]._data)
  BY <1>1 DEF Strings!Contents, Ref
<1>3. Strings!add_reference(store, a) = [store EXCEPT ![a] = Ref(store[a]._references + 1, store[a]._data)]
  BY <1>2 DEF Strings!add_reference
<1>4. Ref(store[a]._references + 1, store[a]._data) \in Strings!Contents
  BY <1>1, ContentsAre
<1> QED
  BY <1>3, <1>4 DEF Store

LEMMA RemoveRef ==
  ASSUME NEW store \in Store, NEW a \in Strings!Address, store[a] # None, store[a]._references # 0
  PROVE  /\ Strings!remove_reference(store, a) =
              [store EXCEPT ![a] = IF store[a]._references = 1 THEN None
                                   ELSE Ref(store[a]._references - 1, store[a]._data)]
         /\ Strings!remove_reference(store, a) \in Store
<1>1. store[a] \in Strings!Contents
  BY DEF Store
<1>2. [store[a] EXCEPT !._references = @ - 1] = Ref(store[a]._references - 1, store[a]._data)
  BY <1>1 DEF Strings!Contents, Ref
<1>3. Strings!remove_reference(store, a) =
              [store EXCEPT ![a] = IF store[a]._references = 1 THEN None
                                   ELSE Ref(store[a]._references - 1, store[a]._data)]
  BY <1>2 DEF Strings!remove_reference
<1>4. Ref(store[a]._references - 1, store[a]._data) \in Strings!Contents
  <2>1. store[a]._references - 1 \in Nat /\ store[a]._data \in Seq(Strings!Chars)
    BY <1>1, ContentsAre
  <2> QED
    BY <2>1, ContentsAre
<1> QED
  BY <1>3, <1>4 DEF Store

----------------------------------------------------------------------------
\* Contents are counted at least once for each String that names them.
LEMMA Counted ==
  ASSUME StringsInv, NEW v \in Variable, Strings!InScope(v)
  PROVE  /\ _contents[v] \in Strings!Address /\ heap[_contents[v]] \in Strings!Contents
         /\ heap[_contents[v]]._references \in Nat \ {0}
         /\ _contents[v] = Strings!Empty => heap[_contents[v]]._references > 1
         /\ \A w \in Variable : w # v /\ _contents[w] = _contents[v] => heap[_contents[v]]._references > 1
<1> DEFINE c == _contents[v]
           N == Cardinality(Strings!Named(c))
<1>1. c \in Strings!Address /\ heap[c] # None /\ heap[c] \in Strings!Contents
  BY DEF StringsInv, StringTypes, Strings!StringsKeepTheirText, Strings!InScope
<1>2. v \in Strings!Named(c) /\ IsFiniteSet(Strings!Named(c)) /\ N \in Nat /\ N # 0
  BY NamedCounts DEF Strings!Named
<1>3. heap[c]._references \in Nat
  BY <1>1, ContentsAre
<1>4. ASSUME NEW w \in Variable, w # v, _contents[w] = c
      PROVE  N > 1
  <2>1. {v, w} \subseteq Strings!Named(c)
    BY <1>4 DEF Strings!Named
  <2>2. Cardinality({v, w}) = 2
    <3>1. Cardinality({v}) = 1 /\ IsFiniteSet({v}) /\ w \notin {v}
      BY <1>4, FS_Singleton
    <3>2. Cardinality({v} \cup {w}) = Cardinality({v}) + 1
      BY <3>1, FS_AddElement
    <3>3. {v} \cup {w} = {v, w}
      OBVIOUS
    <3> QED
      BY <3>1, <3>2, <3>3
  <2>3. Cardinality({v, w}) <= N
    BY <1>2, <2>1, FS_Subset
  <2> QED
    BY <1>2, <2>2, <2>3
<1>5. c # Strings!Empty => heap[c]._references = N
  BY <1>1, SameCount DEF StringsInv, Strings!StringsKeepTheirText
<1>6. c = Strings!Empty => heap[c]._references - N \in 1 .. 2
  BY SameCount DEF StringsInv, Strings!StringsKeepTheirText
<1> HIDE DEF N
<1> QED
  BY <1>1, <1>2, <1>3, <1>4, <1>5, <1>6

\* v comes to name a, which may have been made for it, instead of what it named.
Moved(store, v, a) ==
  LET c == _contents[v]
  IN  [x \in Strings!Address |->
         IF x = a THEN Ref(store[x]._references + 1, store[x]._data)
         ELSE IF x = c THEN IF store[x]._references = 1 THEN None
                            ELSE Ref(store[x]._references - 1, store[x]._data)
         ELSE store[x]]

LEMMA BothByOne ==
  ASSUME NEW n \in Nat, NEW m \in Nat, n - m \in 1 .. 2, NEW n1, NEW m1,
         (n1 = n + 1 /\ m1 = m + 1) \/ (n1 = n - 1 /\ m1 = m - 1)
  PROVE  n1 - m1 \in 1 .. 2
OBVIOUS

LEMMA MoveKeeps ==
  ASSUME StringsInv, NEW store \in Store, NEW v \in Variable, NEW a \in Strings!Address \cup {None}, NEW t \in Seq(Strings!Chars),
         NEW m \in Seq(Strings!Chars), a # _contents[v],
         \A x \in Strings!Address : x # a => store[x] = heap[x],
         a # None => /\ store[a] # None /\ store[a]._data = t
                     /\ store[a] = heap[a] \/ (a # Strings!Empty /\ heap[a] = None /\ store[a]._references = 0),
         heap' = Moved(store, v, a), _contents' = [_contents EXCEPT ![v] = a], GivenText(v, m, t)
  PROVE  StringsInv'
<1> DEFINE c == _contents[v]
<1>1. /\ heap \in Store /\ heap[Strings!Empty] # None /\ heap[Strings!Empty]._data = <<>>
      /\ _contents \in [Variable -> Strings!Address \cup {None}] /\ meaning \in [Variable -> Seq(Strings!Chars)]
      /\ c \in Strings!Address \cup {None} /\ Strings!Empty \in Strings!Address /\ None \notin Strings!Address
  BY ConstantsAre DEF StringsInv, StringTypes, Store, Strings!Address, Strings!Empty
<1>2. /\ _contents'[v] = a /\ \A w \in Variable : w # v => _contents'[w] = _contents[w]
      /\ meaning'[v] = m /\ \A w \in Variable : w # v => meaning'[w] = meaning[w]
      /\ v \in displaced' \/ t = m
      /\ \A w \in Variable : w # v => (w \in displaced' <=> w \in displaced)
      /\ _contents' \in [Variable -> Strings!Address \cup {None}] /\ meaning' \in [Variable -> Seq(Strings!Chars)]
  BY <1>1 DEF GivenText
<1>3. c # None => /\ c \in Strings!Address /\ heap[c] \in Strings!Contents /\ heap[c]._references \in Nat \ {0}
                  /\ c = Strings!Empty => heap[c]._references > 1
                  /\ \A w \in Variable : w # v /\ _contents[w] = c => heap[c]._references > 1
  BY Counted DEF Strings!InScope
<1>4. ASSUME NEW x \in Strings!Address
      PROVE  heap'[x] = IF x = a THEN Ref(store[a]._references + 1, store[a]._data)
                        ELSE IF x = c THEN IF heap[c]._references = 1 THEN None
                                           ELSE Ref(heap[c]._references - 1, heap[c]._data)
                        ELSE heap[x]
  BY DEF Moved
<1>5. a # None => /\ a \in Strings!Address /\ store[a] \in Strings!Contents /\ store[a]._references \in Nat
                  /\ Ref(store[a]._references + 1, store[a]._data) \in Strings!Contents
                  /\ heap'[a] \in Strings!Contents
                  /\ heap'[a]._references = store[a]._references + 1 /\ heap'[a]._data = t
  <2> SUFFICES ASSUME a # None PROVE /\ a \in Strings!Address /\ store[a] \in Strings!Contents /\ store[a]._references \in Nat
                  /\ Ref(store[a]._references + 1, store[a]._data) \in Strings!Contents
                  /\ heap'[a] \in Strings!Contents
                  /\ heap'[a]._references = store[a]._references + 1 /\ heap'[a]._data = t
    OBVIOUS
  <2>1. a \in Strings!Address /\ store[a] \in Strings!Contents
    BY DEF Store
  <2>2. store[a]._references \in Nat /\ store[a]._data = t
    BY <2>1, ContentsAre
  <2>3. store[a]._references + 1 \in Nat
    BY <2>2
  <2>4. heap'[a] = Ref(store[a]._references + 1, t)
    BY <2>1, <2>2, <1>4
  <2> QED
    BY <2>1, <2>2, <2>3, <2>4, ContentsAre
<1>6. c # None => IF heap[c]._references = 1 THEN heap'[c] = None
                  ELSE /\ heap'[c] \in Strings!Contents
                       /\ heap'[c]._references = heap[c]._references - 1 /\ heap'[c]._data = heap[c]._data
  <2> SUFFICES ASSUME c # None, heap[c]._references # 1
               PROVE /\ heap'[c] \in Strings!Contents
                     /\ heap'[c]._references = heap[c]._references - 1 /\ heap'[c]._data = heap[c]._data
    BY <1>3, <1>4
  <2>1. heap[c]._references - 1 \in Nat /\ heap[c]._data \in Seq(Strings!Chars)
    BY <1>3, ContentsAre
  <2>2. heap'[c] = Ref(heap[c]._references - 1, heap[c]._data)
    BY <1>3, <1>4
  <2> QED
    BY <2>1, <2>2, ContentsAre
<1> HIDE DEF c
<1>10. a # c
  BY DEF c
<1>7. \A x \in Strings!Address : x # a /\ x # c => heap'[x] = heap[x]
  BY <1>4
<1>8. heap' \in Store
  <2>1. \A x \in Strings!Address : heap'[x] \in Strings!Contents \cup {None}
    <3> TAKE x \in Strings!Address
    <3>1. CASE x = a
      BY <3>1, <1>1, <1>5
    <3>2. CASE x = c
      BY <3>2, <1>1, <1>6
    <3>3. CASE x # a /\ x # c
      BY <3>3, <1>1, <1>7 DEF Store
    <3> QED
      BY <3>1, <3>2, <3>3
  <2>2. heap' = [x \in Strings!Address |-> heap'[x]]
    BY DEF Moved
  <2> QED
    BY <2>1, <2>2 DEF Store
<1>9. StringTypes'
  <2>1. heap'[Strings!Empty] # None /\ heap'[Strings!Empty]._data = <<>>
    <3>1. CASE Strings!Empty = a
      <4>1. store[a] = heap[a]
        BY <3>1, <1>1
      <4>2. store[a]._data = t /\ a # None
        BY <3>1, <1>1
      <4> QED
        BY <3>1, <4>1, <4>2, <1>1, <1>5, ContentsAre
    <3>2. CASE Strings!Empty = c
      BY <3>2, <1>1, <1>3, <1>6, ContentsAre
    <3>3. CASE Strings!Empty # a /\ Strings!Empty # c
      BY <3>3, <1>1, <1>7
    <3> QED
      BY <3>1, <3>2, <3>3
  <2> QED
    BY <2>1, <1>2, <1>8 DEF StringTypes, Store
<1>11. ASSUME NEW w \in Variable, _contents'[w] # None
       PROVE  /\ heap'[_contents'[w]] # None
              /\ w \in displaced' \/ heap'[_contents'[w]]._data = meaning'[w]
  <2>1. CASE w = v
    BY <2>1, <1>2, <1>5, <1>11, ContentsAre
  <2>2. CASE w # v
    <3>1. _contents'[w] = _contents[w] /\ meaning'[w] = meaning[w] /\ (w \in displaced' <=> w \in displaced)
      BY <2>2, <1>2
    <3> DEFINE d == _contents[w]
    <3>2. /\ d # None /\ d \in Strings!Address /\ heap[d] # None
          /\ w \in displaced \/ heap[d]._data = meaning[w]
      BY <3>1, <1>1, <1>11 DEF StringsInv, Strings!StringsKeepTheirText, Strings!InScope, Strings!Text
    <3>3. CASE d = a
      <4>1. store[a] = heap[a] /\ heap'[a]._data = t /\ store[a]._data = t /\ a # None
        BY <3>2, <3>3, <1>5
      <4>2. heap'[d] # None /\ heap'[d]._data = heap[d]._data
        BY <3>3, <4>1, <1>5, ContentsAre
      <4> QED
        BY <3>1, <3>2, <4>2
    <3>4. CASE d = c
      <4>1. heap'[d] # None /\ heap'[d]._data = heap[d]._data
        BY <2>2, <3>1, <3>2, <3>4, <1>3, <1>6, ContentsAre
      <4> QED
        BY <3>1, <3>2, <4>1
    <3>5. CASE d # a /\ d # c
      <4>1. heap'[d] = heap[d]
        BY <3>2, <3>5, <1>7
      <4> QED
        BY <3>1, <3>2, <4>1
    <3> QED
      BY <3>3, <3>4, <3>5
  <2> QED
    BY <2>1, <2>2
<1> DEFINE Now(x) == {w \in Variable : _contents'[w] = x}
<1>12. ASSUME NEW x \in Strings!Address
       PROVE  /\ IsFiniteSet(Strings!Named(x)) /\ Cardinality(Strings!Named(x)) \in Nat
              /\ x = a => Cardinality(Now(x)) = Cardinality(Strings!Named(x)) + 1 /\ v \in Now(x)
              /\ x = c => Cardinality(Now(x)) = Cardinality(Strings!Named(x)) - 1 /\ Now(x) = Strings!Named(x) \ {v}
              /\ x # a /\ x # c => Now(x) = Strings!Named(x)
  <2>1. x = a => Now(x) = Strings!Named(x) \cup {v} /\ v \notin Strings!Named(x)
    BY <1>2, <1>10 DEF Strings!Named, c
  <2>2. x = c => Now(x) = Strings!Named(x) \ {v} /\ v \in Strings!Named(x)
    BY <1>2, <1>10 DEF Strings!Named, c
  <2>3. x # a /\ x # c => Now(x) = Strings!Named(x)
    BY <1>2 DEF Strings!Named, c
  <2>4. IsFiniteSet(Strings!Named(x)) /\ Cardinality(Strings!Named(x)) \in Nat
    BY NamedCounts
  <2> HIDE DEF Now
  <2>5. x = a => Cardinality(Now(x)) = Cardinality(Strings!Named(x)) + 1
    BY <2>1, <2>4, FS_AddElement
  <2>6. x = c => Cardinality(Now(x)) = Cardinality(Strings!Named(x)) - 1
    BY <2>2, <2>4, FS_RemoveElement
  <2>7. x = a => v \in Now(x)
    BY <2>1
  <2> QED
    BY <2>2, <2>3, <2>4, <2>5, <2>6, <2>7
<1> HIDE DEF Now
<1>13. ASSUME NEW x \in Strings!Address \ {Strings!Empty}, heap'[x] # None
       PROVE  Now(x) # {} /\ heap'[x]._references = Cardinality(Now(x))
  <2>1. heap[x] # None => Strings!Named(x) # {} /\ heap[x]._references = Cardinality(Strings!Named(x))
    BY SameCount DEF StringsInv, Strings!StringsKeepTheirText
  <2>2. CASE x = a
    <3>1. a # None /\ v \in Now(x)
      BY <2>2, <1>1, <1>12
    <3>2. store[a]._references = Cardinality(Strings!Named(x))
      <4>1. CASE store[a] = heap[a]
        <5>1. heap[x] # None
          BY <2>2, <3>1, <4>1
        <5> QED
          BY <2>1, <2>2, <4>1, <5>1
      <4>2. CASE heap[a] = None /\ store[a]._references = 0
        <5>1. Strings!Named(x) = {}
          <6>1. \A w \in Variable : _contents[w] # x
            BY <2>2, <4>2, <1>1 DEF StringsInv, Strings!StringsKeepTheirText, Strings!InScope
          <6> QED
            BY <6>1 DEF Strings!Named
        <5> QED
          BY <4>2, <5>1, FS_EmptySet
      <4> QED
        BY <3>1, <4>1, <4>2
    <3> QED
      BY <2>2, <3>1, <3>2, <1>5, <1>12
  <2>3. CASE x = c
    <3>1. c # None /\ heap[c]._references \in Nat \ {0} /\ heap[x] # None
      BY <2>3, <1>1, <1>3, ContentsAre
    <3>2. heap[c]._references # 1 /\ heap'[c]._references = heap[c]._references - 1
      BY <2>3, <3>1, <1>6, <1>13
    <3>3. Cardinality(Now(x)) = heap[c]._references - 1
      BY <2>1, <2>3, <3>1, <1>12
    <3>4. Now(x) # {}
      <4> SUFFICES ASSUME Now(x) = {} PROVE FALSE
        OBVIOUS
      <4>1. Cardinality(Now(x)) = 0
        BY FS_EmptySet
      <4> QED
        BY <3>1, <3>2, <3>3, <4>1
    <3> QED
      BY <2>3, <3>2, <3>3, <3>4
  <2>4. CASE x # a /\ x # c
    BY <2>1, <2>4, <1>7, <1>12, <1>13
  <2> QED
    BY <2>2, <2>3, <2>4
<1>14. heap'[Strings!Empty]._references - Cardinality(Now(Strings!Empty)) \in 1 .. 2
  <2>1. /\ heap[Strings!Empty]._references - Cardinality(Strings!Named(Strings!Empty)) \in 1 .. 2
        /\ heap[Strings!Empty]._references \in Nat /\ Cardinality(Strings!Named(Strings!Empty)) \in Nat
    <3>1. heap[Strings!Empty] \in Strings!Contents
      BY <1>1 DEF Store
    <3> QED
      BY <3>1, <1>1, <1>12, ContentsAre, SameCount DEF StringsInv, Strings!StringsKeepTheirText
  <2>2. CASE Strings!Empty = a
    <3>1. store[a] = heap[a] /\ a # None
      BY <2>2, <1>1
    <3>2. heap'[Strings!Empty]._references = heap[Strings!Empty]._references + 1
      BY <2>2, <3>1, <1>5
    <3>3. Cardinality(Now(Strings!Empty)) = Cardinality(Strings!Named(Strings!Empty)) + 1
      BY <2>2, <1>1, <1>12
    <3> QED
      BY <2>1, <3>2, <3>3, BothByOne
  <2>3. CASE Strings!Empty = c
    <3>1. heap'[Strings!Empty]._references = heap[Strings!Empty]._references - 1
      BY <2>3, <1>1, <1>3, <1>6
    <3>2. Cardinality(Now(Strings!Empty)) = Cardinality(Strings!Named(Strings!Empty)) - 1
      BY <2>3, <1>1, <1>12
    <3> QED
      BY <2>1, <3>1, <3>2, BothByOne
  <2>4. CASE Strings!Empty # a /\ Strings!Empty # c
    BY <2>1, <2>4, <1>1, <1>7, <1>12
  <2> QED
    BY <2>2, <2>3, <2>4
<1>15. Strings!StringsKeepTheirText'
  <2>1. heap'[Strings!Empty] # None
    BY <1>9 DEF StringTypes
  <2> QED
    BY <2>1, <1>11, <1>13, <1>14, SameCount
       DEF Strings!StringsKeepTheirText, Strings!InScope, Strings!Text, Strings!Named, Now
<1> QED
  BY <1>9, <1>15 DEF StringsInv

\* Nothing but the history is assigned, and that to what it is.
LEMMA StayKeeps ==
  ASSUME StringsInv, UNCHANGED <<heap, _contents, meaning, displaced>>
  PROVE  StringsInv'
<1>1. StringTypes'
  BY DEF StringsInv, StringTypes
<1>2. \A x : Strings!Named(x)' = Strings!Named(x)
  BY DEF Strings!Named
<1>3. Strings!StringsKeepTheirText'
  BY <1>2 DEF StringsInv, Strings!StringsKeepTheirText, Strings!InScope, Strings!Text
<1> QED
  BY <1>1, <1>3 DEF StringsInv

\* A variable that keeps its contents is given the text they have.
LEMMA SameTextKeeps ==
  ASSUME StringsInv, UNCHANGED <<heap, _contents>>, NEW v \in Variable, NEW m \in Seq(Strings!Chars), NEW t,
         GivenText(v, m, t), heap[_contents[v]]._data = t
  PROVE  StringsInv'
<1>1. /\ meaning \in [Variable -> Seq(Strings!Chars)] /\ meaning' = [meaning EXCEPT ![v] = m]
      /\ v \in displaced' \/ t = m
      /\ \A w \in Variable : w # v => (w \in displaced' <=> w \in displaced)
  BY DEF StringsInv, StringTypes, GivenText
<1>2. StringTypes'
  BY <1>1 DEF StringsInv, StringTypes
<1>3. \A x : Strings!Named(x)' = Strings!Named(x)
  BY DEF Strings!Named
<1>4. ASSUME NEW w \in Variable, _contents[w] # None
      PROVE  heap[_contents[w]] # None /\ (w \in displaced' \/ heap[_contents[w]]._data = meaning'[w])
  <2>1. heap[_contents[w]] # None /\ (w \in displaced \/ heap[_contents[w]]._data = meaning[w])
    BY <1>4 DEF StringsInv, Strings!StringsKeepTheirText, Strings!InScope, Strings!Text
  <2>2. CASE w = v
    BY <1>1, <2>1, <2>2
  <2>3. CASE w # v
    BY <1>1, <2>1, <2>3
  <2> QED
    BY <2>2, <2>3
<1>5. Strings!StringsKeepTheirText'
  BY <1>3, <1>4 DEF StringsInv, Strings!StringsKeepTheirText, Strings!InScope, Strings!Text
<1> QED
  BY <1>2, <1>5 DEF StringsInv

LEMMA HeapIs ==
  ASSUME StringsInv
  PROVE  /\ heap \in Store /\ Strings!Empty \in Strings!Address /\ heap[Strings!Empty] # None /\ heap[Strings!Empty]._data = <<>>
         /\ \A v \in Variable : _contents[v] \in Strings!Address \cup {None} /\ meaning[v] \in Seq(Strings!Chars)
         /\ None \notin Strings!Address
BY ConstantsAre DEF StringsInv, StringTypes, Store, Strings!Address, Strings!Empty

\* New contents on the heap.
LEMMA MadeIs ==
  ASSUME StringsInv, NEW text \in Seq(Strings!Chars)
  PROVE  /\ [heap EXCEPT ![Strings!Fresh] = Strings!NewContents(text)] \in Store
         /\ [heap EXCEPT ![Strings!Fresh] = Strings!NewContents(text)][Strings!Fresh] = Ref(0, text)
         /\ \A x \in Strings!Address : x # Strings!Fresh => [heap EXCEPT ![Strings!Fresh] = Strings!NewContents(text)][x] = heap[x]
         /\ Ref(0, text) \in Strings!Contents /\ Ref(0, text) # None /\ Ref(0, text)._data = text
         /\ Ref(0, text)._references = 0
<1>1. Strings!NewContents(text) = Ref(0, text)
  BY DEF Strings!NewContents, Ref
<1> QED
  BY <1>1, FreshIsFree, HeapIs, ContentsAre DEF Store

LEMMA NewStringKeeps ==
  ASSUME StringsInv, NEW store \in Store, NEW v \in Variable, NEW a \in Strings!Address, NEW t \in Seq(Strings!Chars),
         NEW m \in Seq(Strings!Chars), Strings!Construct(v, store, a), GivenText(v, m, t),
         \A x \in Strings!Address : x # a => store[x] = heap[x],
         store[a] # None, store[a]._data = t,
         store[a] = heap[a] \/ (a # Strings!Empty /\ heap[a] = None /\ store[a]._references = 0)
  PROVE  StringsInv'
<1>1. _contents[v] = None /\ heap' = Strings!add_reference(store, a) /\ _contents' = [_contents EXCEPT ![v] = a]
  BY DEF Strings!Construct, Strings!InScope
<1>2. None \notin Strings!Address /\ a # None
  BY HeapIs
<1>3. heap' = Moved(store, v, a)
  <2>1. heap' = [store EXCEPT ![a] = Ref(store[a]._references + 1, store[a]._data)]
    BY <1>1, AddRef
  <2> QED
    BY <2>1, <1>1, <1>2 DEF Moved, Store
<1>4. a # _contents[v] /\ a \in Strings!Address \cup {None}
  BY <1>1, <1>2
<1>5. /\ store[a] # None /\ store[a]._data = t
      /\ store[a] = heap[a] \/ (a # Strings!Empty /\ heap[a] = None /\ store[a]._references = 0)
  OBVIOUS
<1>6. \A x \in Strings!Address : x # a => store[x] = heap[x]
  OBVIOUS
<1>7. _contents' = [_contents EXCEPT ![v] = a] /\ GivenText(v, m, t)
  BY <1>1
<1> QED
  BY <1>3, <1>4, <1>5, <1>6, <1>7, MoveKeeps

LEMMA DestroyKeeps ==
  ASSUME StringsInv, NEW v \in Variable, Strings!Destroy(v)
  PROVE  StringsInv'
<1>1. Strings!InScope(v) /\ heap' = Strings!remove_reference(heap, _contents[v])
      /\ _contents' = [_contents EXCEPT ![v] = None] /\ GivenText(v, <<>>, <<>>)
  BY GivenIs DEF Strings!Destroy
<1>2. _contents[v] \in Strings!Address /\ heap[_contents[v]] \in Strings!Contents /\ heap[_contents[v]]._references \in Nat \ {0}
  BY <1>1, Counted
<1>3. heap[_contents[v]] # None /\ None \notin Strings!Address /\ heap \in Store
  BY <1>2, ContentsAre, HeapIs
<1>4. heap' = Moved(heap, v, None)
  <2> DEFINE c == _contents[v]
             gone == IF heap[c]._references = 1 THEN None ELSE Ref(heap[c]._references - 1, heap[c]._data)
  <2>1. heap' = [heap EXCEPT ![c] = gone]
    BY <1>1, <1>2, <1>3, RemoveRef
  <2>2. \A x \in Strings!Address : Moved(heap, v, None)[x] = IF x = c THEN gone ELSE heap[x]
    BY <1>3 DEF Moved
  <2>3. Moved(heap, v, None) = [x \in Strings!Address |-> Moved(heap, v, None)[x]]
    BY DEF Moved
  <2>4. heap' = [x \in Strings!Address |-> IF x = c THEN gone ELSE heap[x]]
    BY <2>1, <1>3 DEF Store
  <2> HIDE DEF gone, c
  <2> QED
    BY <2>2, <2>3, <2>4
<1>5. <<>> \in Seq(Strings!Chars)
  BY EmptySeq
<1>6. None # _contents[v]
  BY <1>2, <1>3
<1> QED
  BY <1>1, <1>3, <1>4, <1>5, <1>6, MoveKeeps

LEMMA AssignKeeps ==
  ASSUME StringsInv, NEW v \in Variable, NEW w \in Variable, Strings!Assign(v, w)
  PROVE  StringsInv'
<1> DEFINE c == _contents[v]
           b == _contents[w]
<1>1. /\ Strings!InScope(v) /\ Strings!InScope(w)
      /\ heap' = IF v = w THEN heap ELSE Strings!add_reference(Strings!remove_reference(heap, c), b)
      /\ _contents' = [_contents EXCEPT ![v] = b] /\ Strings!Given(v, meaning[w], w \in displaced)
  BY DEF Strings!Assign, Strings!assign
<1>2. /\ c \in Strings!Address /\ heap[c] \in Strings!Contents /\ heap[c]._references \in Nat \ {0}
      /\ b \in Strings!Address /\ heap[b] \in Strings!Contents /\ heap[b]._references \in Nat \ {0}
      /\ v # w /\ b = c => heap[c]._references > 1
  BY <1>1, Counted
<1>3. /\ heap[c] # None /\ heap[b] # None /\ heap \in Store /\ None \notin Strings!Address
      /\ heap[b]._data \in Seq(Strings!Chars) /\ meaning[w] \in Seq(Strings!Chars)
  BY <1>1, <1>2, ContentsAre, HeapIs
<1>given. GivenText(v, meaning[w], heap[b]._data)
  <2>1. w \in displaced \/ heap[b]._data = meaning[w]
    BY <1>1 DEF StringsInv, Strings!StringsKeepTheirText, Strings!InScope, Strings!Text
  <2> QED
    BY <1>1, <2>1, GivenIs
<1>4. _contents \in [Variable -> Strings!Address \cup {None}] /\ meaning \in [Variable -> Seq(Strings!Chars)]
  BY DEF StringsInv, StringTypes
<1> DEFINE gone == IF heap[c]._references = 1 THEN None ELSE Ref(heap[c]._references - 1, heap[c]._data)
           less == [heap EXCEPT ![c] = gone]
<1>5. Strings!remove_reference(heap, c) = less /\ less \in Store
  <2>1. heap[c]._references # 0
    BY <1>2
  <2>2. Strings!remove_reference(heap, c) = less /\ Strings!remove_reference(heap, c) \in Store
    BY <1>2, <1>3, <2>1, RemoveRef
  <2> QED
    BY <2>2
<1>6. less[c] = gone /\ \A x \in Strings!Address : x # c => less[x] = heap[x]
  BY <1>2, <1>3 DEF Store
<1>7. v # w /\ b = c => gone = Ref(heap[c]._references - 1, heap[c]._data)
  BY <1>2
<1> HIDE DEF less
<1>8. CASE b = c
  <2>1. heap' = heap
    <3>1. CASE v = w
      BY <1>1, <3>1
    <3>2. CASE v # w
      <4>1. heap[c]._references - 1 \in Nat /\ heap[c]._data \in Seq(Strings!Chars)
        BY <1>2, <1>8, <3>2, ContentsAre
      <4>2. less[c] = Ref(heap[c]._references - 1, heap[c]._data)
        BY <1>6, <1>7, <1>8, <3>2
      <4>3. less[c] # None /\ less[c]._references = heap[c]._references - 1 /\ less[c]._data = heap[c]._data
        BY <4>1, <4>2, ContentsAre
      <4>4. Strings!add_reference(less, c) = [less EXCEPT ![c] = Ref(less[c]._references + 1, less[c]._data)]
        BY <1>2, <1>5, <4>3, AddRef
      <4>5. Ref(less[c]._references + 1, less[c]._data) = heap[c]
        <5>1. less[c]._references + 1 = heap[c]._references
          BY <1>2, <4>3
        <5> QED
          BY <5>1, <1>2, <4>3, ContentsAre
      <4>6. heap' = [less EXCEPT ![c] = heap[c]]
        BY <1>1, <1>5, <1>8, <3>2, <4>4, <4>5
      <4>7. heap' \in Store /\ \A x \in Strings!Address : heap'[x] = heap[x]
        BY <4>6, <1>2, <1>5, <1>6 DEF Store
      <4> QED
        BY <4>7, <1>3 DEF Store
    <3> QED
      BY <3>1, <3>2
  <2>2. _contents' = _contents
    BY <1>1, <1>4, <1>8
  <2> QED
    BY <2>1, <2>2, <1>3, <1>8, <1>given, SameTextKeeps
<1>9. CASE b # c
  <2>1. v # w /\ less[b] = heap[b]
    BY <1>2, <1>6, <1>9
  <2>2. Strings!add_reference(less, b) = [less EXCEPT ![b] = Ref(heap[b]._references + 1, heap[b]._data)]
    BY <1>2, <1>3, <1>5, <2>1, AddRef
  <2>3. heap' = [less EXCEPT ![b] = Ref(heap[b]._references + 1, heap[b]._data)]
    BY <1>1, <1>5, <2>1, <2>2
  <2>4. heap' = Moved(heap, v, b)
    <3>1. \A x \in Strings!Address : heap'[x] = IF x = b THEN Ref(heap[b]._references + 1, heap[b]._data)
                                         ELSE IF x = c THEN gone ELSE heap[x]
      BY <2>3, <1>5, <1>6, <1>9 DEF Store
    <3>2. heap' = [x \in Strings!Address |-> heap'[x]]
      BY <2>3, <1>5 DEF Store
    <3>3. heap' = [x \in Strings!Address |-> IF x = b THEN Ref(heap[x]._references + 1, heap[x]._data)
                                       ELSE IF x = c THEN gone ELSE heap[x]]
      <4> HIDE DEF gone
      <4> QED
        BY <3>1, <3>2
    <3>4. Moved(heap, v, b) = [x \in Strings!Address |-> IF x = b THEN Ref(heap[x]._references + 1, heap[x]._data)
                                       ELSE IF x = c THEN gone ELSE heap[x]]
      BY DEF Moved
    <3> QED
      BY <3>3, <3>4
  <2> QED
    BY <2>4, <1>1, <1>2, <1>3, <1>9, <1>given, MoveKeeps
<1> QED
  BY <1>8, <1>9

\* The two by the number of references there are.
LEMMA OneMoreAt ==
  ASSUME NEW store \in Store, NEW a \in Strings!Address, NEW r \in Nat, NEW d \in Seq(Strings!Chars), store[a] = Ref(r, d)
  PROVE  /\ Strings!add_reference(store, a) \in Store /\ Strings!add_reference(store, a)[a] = Ref(r + 1, d)
         /\ \A x \in Strings!Address : x # a => Strings!add_reference(store, a)[x] = store[x]
<1>1. store[a] # None /\ store[a]._references = r /\ store[a]._data = d
  BY ContentsAre
<1>2. Strings!add_reference(store, a) = [store EXCEPT ![a] = Ref(r + 1, d)] /\ Strings!add_reference(store, a) \in Store
  BY <1>1, AddRef
<1> QED
  BY <1>2 DEF Store

LEMMA OneLessAt ==
  ASSUME NEW store \in Store, NEW a \in Strings!Address, NEW r \in Nat \ {0}, NEW d \in Seq(Strings!Chars), store[a] = Ref(r, d)
  PROVE  /\ Strings!remove_reference(store, a) \in Store
         /\ Strings!remove_reference(store, a)[a] = IF r = 1 THEN None ELSE Ref(r - 1, d)
         /\ \A x \in Strings!Address : x # a => Strings!remove_reference(store, a)[x] = store[x]
<1>1. store[a] # None /\ store[a]._references = r /\ store[a]._data = d
  BY ContentsAre
<1>2. /\ Strings!remove_reference(store, a) = [store EXCEPT ![a] = IF r = 1 THEN None ELSE Ref(r - 1, d)]
      /\ Strings!remove_reference(store, a) \in Store
  BY <1>1, RemoveRef
<1> QED
  BY <1>2 DEF Store

LEMMA TemporaryKeeps ==
  ASSUME StringsInv, NEW v \in Variable, NEW text \in Seq(Strings!Chars), NEW expected \in Seq(Strings!Chars),
         NEW spoilt, Strings!AssignTemporary(v, text, expected, spoilt), spoilt \/ text = expected
  PROVE  StringsInv'
<1> DEFINE a == IF text = <<>> THEN Strings!Empty ELSE Strings!Fresh
           store == IF text = <<>> THEN heap ELSE [heap EXCEPT ![a] = Strings!NewContents(text)]
           c == _contents[v]
           r == store[a]._references
<1>1. /\ Strings!InScope(v)
      /\ heap' = Strings!remove_reference(Strings!add_reference(Strings!remove_reference(Strings!add_reference(store, a), c), a), a)
      /\ _contents' = [_contents EXCEPT ![v] = a] /\ Strings!Given(v, expected, spoilt)
  BY DEF Strings!AssignTemporary, Strings!assign
<1>given. GivenText(v, expected, text)
  BY <1>1, GivenIs
<1>2. /\ c \in Strings!Address /\ heap[c] \in Strings!Contents /\ heap[c] # None /\ heap[c]._references \in Nat \ {0}
      /\ heap[c]._data \in Seq(Strings!Chars)
  BY <1>1, Counted, ContentsAre
<1>3. /\ store \in Store /\ a \in Strings!Address /\ store[a] # None /\ store[a]._data = text
      /\ store[a] = heap[a] \/ (a # Strings!Empty /\ heap[a] = None /\ store[a]._references = 0)
      /\ \A x \in Strings!Address : x # a => store[x] = heap[x]
  <2>1. CASE text = <<>>
    BY <2>1, HeapIs
  <2>2. CASE text # <<>>
    <3>1. a = Strings!Fresh /\ store = [heap EXCEPT ![Strings!Fresh] = Strings!NewContents(text)]
      BY <2>2
    <3>2. Strings!Fresh \in Strings!Address \ {Strings!Empty} /\ heap[Strings!Fresh] = None
      BY FreshIsFree
    <3>3. /\ store \in Store /\ store[Strings!Fresh] = Ref(0, text) /\ \A x \in Strings!Address : x # Strings!Fresh => store[x] = heap[x]
          /\ Ref(0, text) # None /\ Ref(0, text)._data = text /\ Ref(0, text)._references = 0
      <4> HIDE DEF a, store
      <4> QED
        BY <3>1, MadeIs
    <3> HIDE DEF a, store
    <3> QED
      BY <3>1, <3>2, <3>3
  <2> QED
    BY <2>1, <2>2
<1>4. _contents \in [Variable -> Strings!Address \cup {None}] /\ meaning \in [Variable -> Seq(Strings!Chars)]
  BY DEF StringsInv, StringTypes
<1> HIDE DEF a, store
<1>5. r \in Nat /\ store[a] = Ref(r, text)
  <2>1. store[a] \in Strings!Contents
    BY <1>3 DEF Store
  <2> QED
    BY <2>1, <1>3, ContentsAre
<1> DEFINE s1 == Strings!add_reference(store, a)
           s2 == Strings!remove_reference(s1, c)
           s3 == Strings!add_reference(s2, a)
<1> HIDE DEF r, c
<1>6. s1 \in Store /\ s1[a] = Ref(r + 1, text) /\ \A x \in Strings!Address : x # a => s1[x] = store[x]
  BY <1>3, <1>5, OneMoreAt
<1> HIDE DEF s1
<1>7. CASE a = c
  <2>1. store[a] = heap[a] /\ r # 0
    BY <1>2, <1>3, <1>7 DEF r
  <2>2. store = heap
    <3>1. heap \in Store
      BY HeapIs
    <3>2. \A x \in Strings!Address : store[x] = heap[x]
      BY <1>3, <2>1
    <3> QED
      BY <1>3, <3>1, <3>2 DEF Store
  <2>3. s2 \in Store /\ s2[a] = Ref(r, text) /\ \A x \in Strings!Address : x # a => s2[x] = store[x]
    <3>1. r + 1 \in Nat \ {0} /\ r + 1 # 1 /\ (r + 1) - 1 = r
      BY <1>5, <2>1
    <3>2. /\ Strings!remove_reference(s1, a) \in Store
          /\ Strings!remove_reference(s1, a)[a] = IF r + 1 = 1 THEN None ELSE Ref((r + 1) - 1, text)
          /\ \A x \in Strings!Address : x # a => Strings!remove_reference(s1, a)[x] = s1[x]
      BY <3>1, <1>3, <1>6, OneLessAt
    <3> QED
      BY <3>1, <3>2, <1>6, <1>7
  <2> HIDE DEF s2
  <2>4. s3 \in Store /\ s3[a] = Ref(r + 1, text) /\ \A x \in Strings!Address : x # a => s3[x] = store[x]
    BY <2>3, <1>3, <1>5, OneMoreAt
  <2> HIDE DEF s3
  <2>5. heap' \in Store /\ heap'[a] = Ref(r, text) /\ \A x \in Strings!Address : x # a => heap'[x] = store[x]
    <3>1. r + 1 \in Nat \ {0} /\ r + 1 # 1 /\ (r + 1) - 1 = r
      BY <1>5, <2>1
    <3>2. /\ Strings!remove_reference(s3, a) \in Store
          /\ Strings!remove_reference(s3, a)[a] = IF r + 1 = 1 THEN None ELSE Ref((r + 1) - 1, text)
          /\ \A x \in Strings!Address : x # a => Strings!remove_reference(s3, a)[x] = s3[x]
      BY <3>1, <1>3, <2>4, OneLessAt
    <3>3. heap' = Strings!remove_reference(s3, a)
      BY <1>1 DEF s1, s2, s3
    <3> QED
      BY <3>1, <3>2, <3>3, <2>4
  <2>6. heap' = heap
    <3>1. \A x \in Strings!Address : heap'[x] = heap[x]
      BY <2>2, <2>5, <1>5
    <3> QED
      BY <3>1, <2>2, <2>5, <1>3 DEF Store
  <2>7. _contents' = _contents /\ heap[_contents[v]]._data = text
    BY <1>1, <1>3, <1>4, <1>7, <2>2 DEF c
  <2> QED
    BY <2>6, <2>7, <1>given, SameTextKeeps
<1>8. CASE a # c
  <2> DEFINE gone == IF heap[c]._references = 1 THEN None ELSE Ref(heap[c]._references - 1, heap[c]._data)
  <2>1. s1[c] = heap[c] /\ heap[c] = Ref(heap[c]._references, heap[c]._data)
    BY <1>2, <1>3, <1>6, <1>8, ContentsAre
  <2>2. s2 \in Store /\ s2[c] = gone /\ \A x \in Strings!Address : x # c => s2[x] = s1[x]
    <3>1. s1[c] = Ref(heap[c]._references, heap[c]._data)
      BY <2>1
    <3> QED
      BY <3>1, <1>2, <1>6, OneLessAt
  <2> HIDE DEF s2, gone
  <2>3. s2[a] = Ref(r + 1, text) /\ r + 1 \in Nat
    BY <1>3, <1>5, <1>6, <1>8, <2>2
  <2>4. s3 \in Store /\ s3[a] = Ref((r + 1) + 1, text) /\ \A x \in Strings!Address : x # a => s3[x] = s2[x]
    BY <1>3, <2>2, <2>3, OneMoreAt
  <2> HIDE DEF s3
  <2>5. heap' \in Store /\ heap'[a] = Ref(r + 1, text) /\ \A x \in Strings!Address : x # a => heap'[x] = s2[x]
    <3>1. (r + 1) + 1 \in Nat \ {0} /\ (r + 1) + 1 # 1 /\ ((r + 1) + 1) - 1 = r + 1
      BY <1>5
    <3>2. /\ Strings!remove_reference(s3, a) \in Store
          /\ Strings!remove_reference(s3, a)[a] = IF (r + 1) + 1 = 1 THEN None ELSE Ref(((r + 1) + 1) - 1, text)
          /\ \A x \in Strings!Address : x # a => Strings!remove_reference(s3, a)[x] = s3[x]
      BY <3>1, <1>3, <2>4, OneLessAt
    <3>3. heap' = Strings!remove_reference(s3, a)
      BY <1>1 DEF s1, s2, s3
    <3> QED
      BY <3>1, <3>2, <3>3, <2>4
  <2>6. heap' = [x \in Strings!Address |-> IF x = a THEN Ref(store[x]._references + 1, store[x]._data)
                                   ELSE IF x = c THEN gone ELSE store[x]]
    <3>1. heap' = [x \in Strings!Address |-> heap'[x]]
      BY <2>5 DEF Store
    <3>2. heap'[a] = Ref(store[a]._references + 1, store[a]._data)
      BY <2>5, <1>3 DEF r
    <3>3. heap'[c] = gone
      BY <1>2, <1>8, <2>2, <2>5
    <3>4. \A x \in Strings!Address : x # a /\ x # c => heap'[x] = store[x]
      BY <1>6, <2>2, <2>5
    <3> QED
      BY <3>1, <3>2, <3>3, <3>4
  <2>7. store[c] = heap[c]
    BY <1>2, <1>3, <1>8
  <2>8. heap' = Moved(store, v, a)
    BY <2>6, <2>7 DEF Moved, gone, c
  <2>9. a # _contents[v] /\ a \in Strings!Address \cup {None}
    BY <1>3, <1>8 DEF c
  <2>10. _contents' = [_contents EXCEPT ![v] = a] /\ GivenText(v, expected, text)
    BY <1>1, <1>given
  <2> QED
    BY <2>8, <2>9, <2>10, <1>3, MoveKeeps
<1> QED
  BY <1>7, <1>8

----------------------------------------------------------------------------
LEMMA BytesAre ==
  ASSUME NEW text \in Seq(Strings!Chars), NEW offset \in Nat, NEW count \in Nat
  PROVE  /\ Strings!Bytes(text, offset, count) \in Seq(Strings!Chars) /\ Len(Strings!Bytes(text, offset, count)) = count
         /\ \A i \in 1 .. count : offset + i <= Len(text) => Strings!Bytes(text, offset, count)[i] = text[offset + i]
<1>1. Nul \in Strings!Chars /\ Unknown \in Strings!Chars
  BY DEF Strings!Chars
<1>2. Len(text) \in Nat /\ \A i \in 1 .. Len(text) : text[i] \in Strings!Chars
  BY LenProperties
<1>3. \A i \in 1 .. count : Strings!Bytes(text, offset, count)[i] \in Strings!Chars
  <2> TAKE i \in 1 .. count
  <2>1. CASE offset + i <= Len(text)
    <3>1. Strings!Bytes(text, offset, count)[i] = text[offset + i]
      BY <2>1 DEF Strings!Bytes
    <3>2. offset + i \in 1 .. Len(text)
      BY <1>2, <2>1
    <3> QED
      BY <1>2, <3>1, <3>2
  <2>2. CASE ~ (offset + i <= Len(text))
    BY <1>1, <2>2 DEF Strings!Bytes
  <2> QED
    BY <2>1, <2>2
<1>4. Strings!Bytes(text, offset, count) \in [1 .. count -> Strings!Chars]
  <2>1. Strings!Bytes(text, offset, count) = [i \in 1 .. count |-> Strings!Bytes(text, offset, count)[i]]
    BY DEF Strings!Bytes
  <2> QED
    BY <1>3, <2>1
<1>5. \A i \in 1 .. count : offset + i <= Len(text) => Strings!Bytes(text, offset, count)[i] = text[offset + i]
  BY DEF Strings!Bytes
<1> QED
  BY <1>4, <1>5, OfItsLength

LEMMA BytesArePart ==
  ASSUME NEW text \in Seq(Strings!Chars), NEW from \in Nat, NEW count \in Nat, from + count <= Len(text)
  PROVE  Strings!Bytes(text, from, count) = SubSeq(text, from + 1, from + count)
<1> DEFINE b == Strings!Bytes(text, from, count)
           p == SubSeq(text, from + 1, from + count)
<1>1. Len(text) \in Nat /\ \A i \in 1 .. Len(text) : text[i] \in Strings!Chars
  BY LenProperties
<1>2. b \in Seq(Strings!Chars) /\ Len(b) = count /\ \A i \in 1 .. count : b[i] = text[from + i]
  <2>1. b \in Seq(Strings!Chars) /\ Len(b) = count /\ \A i \in 1 .. count : from + i <= Len(text) => b[i] = text[from + i]
    BY BytesAre
  <2>2. \A i \in 1 .. count : from + i <= Len(text)
    BY <1>1
  <2> QED
    BY <2>1, <2>2
<1>3. p \in Seq(Strings!Chars) /\ Len(p) = count /\ \A i \in 1 .. count : p[i] = text[from + i]
  <2>1. \A i \in from + 1 .. from + count : text[i] \in Strings!Chars
    BY <1>1
  <2>2. from + 1 \in Int /\ from + count \in Int
    OBVIOUS
  <2>3. /\ p \in Seq(Strings!Chars)
        /\ Len(p) = IF from + 1 <= from + count THEN (from + count) - (from + 1) + 1 ELSE 0
        /\ \A i \in 1 .. (from + count) - (from + 1) + 1 : p[i] = text[(from + 1) + i - 1]
    BY <2>1, <2>2, SubSeqProperties
  <2>4. (from + count) - (from + 1) + 1 = count /\ \A i \in 1 .. count : (from + 1) + i - 1 = from + i
    OBVIOUS
  <2>5. \A i \in 1 .. count : p[i] = text[from + i]
    BY <2>3, <2>4
  <2>6. Len(p) = count
    BY <2>3
  <2> QED
    BY <2>3, <2>5, <2>6
<1> HIDE DEF b, p
<1>4. b = p
  BY <1>2, <1>3, SeqEqual
<1> QED
  BY <1>4 DEF b, p

\* What substring returns is the part of the text it is asked for (string.cpp, substring).
LEMMA SubstringIsPart ==
  ASSUME NEW text \in Seq(Strings!Chars), NEW place \in Nat, NEW count \in Nat
  PROVE  /\ Strings!substring(text, place, count) = Strings!Part(text, place + 1, place + count)
         /\ Strings!substring(text, place, count) \in Seq(Strings!Chars)
<1>1. Len(text) \in Nat
  BY LenProperties
<1>2. CASE place >= Len(text)
  <2>1. Strings!substring(text, place, count) = <<>>
    BY <1>2 DEF Strings!substring
  <2>2. ~ (place + count < Len(text)) /\ Len(text) < place + 1
    BY <1>1, <1>2
  <2>3. Strings!Part(text, place + 1, place + count) = SubSeq(text, place + 1, Len(text))
    BY <2>2 DEF Strings!Part
  <2>4. SubSeq(text, place + 1, Len(text)) = <<>>
    BY <1>1, <2>2, SubSeqEmpty
  <2> QED
    BY <2>1, <2>3, <2>4, EmptySeq
<1>3. CASE ~ (place >= Len(text))
  <2> DEFINE n == IF count < Len(text) - place THEN count ELSE Len(text) - place
  <2>1. n \in Nat /\ place + n <= Len(text)
    BY <1>1, <1>3
  <2>2. Strings!substring(text, place, count) = Strings!Bytes(text, place, n)
    BY <1>3 DEF Strings!substring
  <2>3. (IF place + count < Len(text) THEN place + count ELSE Len(text)) = place + n
    BY <1>1, <1>3
  <2>4. Strings!Part(text, place + 1, place + count) = SubSeq(text, place + 1, place + n)
    BY <2>3 DEF Strings!Part
  <2> HIDE DEF n
  <2> QED
    BY <2>1, <2>2, <2>4, BytesAre, BytesArePart
<1> QED
  BY <1>2, <1>3

LEMMA PositiveIs ==
  ASSUME NEW n \in Int
  PROVE  Strings!Positive(n) \in Nat /\ (n >= 0 => Strings!Positive(n) = n) /\ (n <= 0 => Strings!Positive(n) = 0)
BY DEF Strings!Positive

LEMMA ReplaceIsText ==
  ASSUME NEW text \in Seq(Strings!Chars), NEW place \in Nat, NEW count \in Nat, NEW addition \in Seq(Strings!Chars)
  PROVE  Strings!replace(text, place, count, addition) \in Seq(Strings!Chars)
<1> DEFINE before == Strings!Bytes(text, 0, place)
           padding == [i \in 1 .. Strings!Positive(place - Len(text)) |-> Nul]
           suffix == Strings!Bytes(text, place + Len(addition), Strings!SuffixLength(text, place, count))
<1>1. Len(text) \in Nat /\ Len(addition) \in Nat
  BY LenProperties
<1>2. before \in Seq(Strings!Chars)
  BY BytesAre
<1>3. padding \in Seq(Strings!Chars)
  <2>1. Strings!Positive(place - Len(text)) \in Nat
    BY <1>1, PositiveIs
  <2>2. Nul \in Strings!Chars
    BY DEF Strings!Chars
  <2>3. padding \in [1 .. Strings!Positive(place - Len(text)) -> Strings!Chars]
    BY <2>2
  <2> QED
    BY <2>1, <2>3, OfItsLength
<1>4. suffix \in Seq(Strings!Chars)
  <2>1. Strings!SuffixLength(text, place, count) \in Nat
    BY <1>1, PositiveIs DEF Strings!SuffixLength
  <2>2. place + Len(addition) \in Nat
    BY <1>1
  <2> QED
    BY <2>1, <2>2, BytesAre
<1>5. Strings!replace(text, place, count, addition) = before \o padding \o addition \o suffix
  BY DEF Strings!replace
<1> HIDE DEF before, padding, suffix
<1>6. before \o padding \in Seq(Strings!Chars)
  BY <1>2, <1>3, ConcatProperties
<1>7. (before \o padding) \o addition \in Seq(Strings!Chars)
  BY <1>6, ConcatProperties
<1>8. ((before \o padding) \o addition) \o suffix \in Seq(Strings!Chars)
  BY <1>4, <1>7, ConcatProperties
<1> QED
  BY <1>5, <1>8

LEMMA PartIs ==
  ASSUME NEW text \in Seq(Strings!Chars), NEW from \in Nat \ {0}, NEW to \in Nat
  PROVE  /\ Strings!Part(text, from, to) \in Seq(Strings!Chars)
         /\ to <= Len(text) => Strings!Part(text, from, to) = SubSeq(text, from, to)
<1> DEFINE n == IF to < Len(text) THEN to ELSE Len(text)
<1>1. Len(text) \in Nat /\ \A i \in 1 .. Len(text) : text[i] \in Strings!Chars
  BY LenProperties
<1>2. n \in Int /\ n <= Len(text) /\ (to <= Len(text) => n = to)
  BY <1>1
<1>3. Strings!Part(text, from, to) = SubSeq(text, from, n)
  BY DEF Strings!Part
<1> HIDE DEF n
<1>4. \A i \in from .. n : text[i] \in Strings!Chars
  BY <1>1, <1>2
<1>5. SubSeq(text, from, n) \in Seq(Strings!Chars)
  BY <1>2, <1>4, SubSeqProperties
<1> QED
  BY <1>2, <1>3, <1>5

\* What string.h says of replace is a text, wherever it is replaced.
LEMMA ReplacedIsText ==
  ASSUME NEW text \in Seq(Strings!Chars), NEW place \in Nat, NEW count \in Nat, NEW addition \in Seq(Strings!Chars)
  PROVE  Strings!Replaced(text, place, count, addition) \in Seq(Strings!Chars)
<1>1. Len(text) \in Nat /\ place + count + 1 \in Nat \ {0} /\ 1 \in Nat \ {0}
  BY LenProperties
<1>2. /\ Strings!Part(text, 1, place) \in Seq(Strings!Chars)
      /\ Strings!Part(text, place + count + 1, Len(text)) \in Seq(Strings!Chars)
  BY <1>1, PartIs
<1>3. Strings!Part(text, 1, place) \o addition \in Seq(Strings!Chars)
  BY <1>2, ConcatProperties
<1>4. (Strings!Part(text, 1, place) \o addition) \o Strings!Part(text, place + count + 1, Len(text))
        \in Seq(Strings!Chars)
  BY <1>2, <1>3, ConcatProperties
<1> QED
  BY <1>4 DEF Strings!Replaced

\* replace keeps its promise where InPlace says (string.cpp, replace).
LEMMA ReplaceKeepsPromise ==
  ASSUME NEW text \in Seq(Strings!Chars), NEW place \in Nat, NEW count \in Nat, NEW addition \in Seq(Strings!Chars),
         Strings!InPlace(text, place, count, addition)
  PROVE  Strings!replace(text, place, count, addition) = Strings!Replaced(text, place, count, addition)
<1> DEFINE before == Strings!Bytes(text, 0, place)
           padding == [i \in 1 .. Strings!Positive(place - Len(text)) |-> Nul]
           size == Strings!SuffixLength(text, place, count)
           suffix == Strings!Bytes(text, place + Len(addition), size)
<1>1. Len(text) \in Nat /\ Len(addition) \in Nat /\ place <= Len(text)
      /\ (Len(addition) = count \/ size = 0)
  BY LenProperties DEF Strings!InPlace
<1>2. before = SubSeq(text, 1, place) /\ before \in Seq(Strings!Chars)
  <2>1. 0 + place <= Len(text) /\ 0 + 1 = 1 /\ 0 + place = place /\ 0 \in Nat
    BY <1>1
  <2>2. Strings!Bytes(text, 0, place) = SubSeq(text, 0 + 1, 0 + place)
    BY <2>1, BytesArePart
  <2> QED
    BY <2>1, <2>2, BytesAre
<1>3. padding = <<>>
  <2>1. Strings!Positive(place - Len(text)) = 0
    BY <1>1, PositiveIs
  <2> QED
    BY <2>1
<1>4. size \in Nat /\ (Len(text) - (place + count) >= 0 => size = Len(text) - (place + count))
      /\ (Len(text) - (place + count) <= 0 => size = 0)
  BY <1>1, PositiveIs DEF Strings!SuffixLength
<1>5. suffix = SubSeq(text, place + count + 1, Len(text))
  <2>1. CASE size = 0
    <3>1. suffix = <<>>
      <4>1. place + Len(addition) \in Nat
        BY <1>1
      <4>2. suffix \in Seq(Strings!Chars) /\ Len(suffix) = 0
        BY <4>1, <2>1, <1>4, BytesAre
      <4> HIDE DEF suffix
      <4> QED
        BY <4>2, EmptySeq
    <3>2. Len(text) < place + count + 1
      <4> HIDE DEF size
      <4> QED
        BY <1>1, <1>4, <2>1
    <3>3. SubSeq(text, place + count + 1, Len(text)) = <<>>
      BY <1>1, <3>2, SubSeqEmpty
    <3> QED
      BY <3>1, <3>3
  <2>2. CASE size # 0
    <3>1. Len(addition) = count
      BY <1>1, <2>2
    <3>2. size = Len(text) - (place + count)
      <4> HIDE DEF size
      <4> QED
        BY <1>1, <1>4, <2>2
    <3>3. place + count \in Nat /\ (place + count) + size <= Len(text) /\ (place + count) + size = Len(text)
      <4> HIDE DEF size
      <4> QED
        BY <1>1, <1>4, <3>2
    <3>4. suffix = Strings!Bytes(text, place + count, size)
      BY <3>1
    <3>5. Strings!Bytes(text, place + count, size) = SubSeq(text, (place + count) + 1, (place + count) + size)
      BY <1>4, <3>3, BytesArePart
    <3> QED
      BY <3>3, <3>4, <3>5
  <2> QED
    BY <2>1, <2>2
<1>6. Strings!replace(text, place, count, addition) = before \o padding \o addition \o suffix
  BY DEF Strings!replace
<1> HIDE DEF before, padding, suffix, size
<1>7. before \o padding = before
  BY <1>2, <1>3, ConcatEmptySeq
<1>8. Strings!replace(text, place, count, addition) = before \o addition \o suffix
  BY <1>6, <1>7
<1>9. /\ Strings!Part(text, 1, place) = SubSeq(text, 1, place)
      /\ Strings!Part(text, place + count + 1, Len(text)) = SubSeq(text, place + count + 1, Len(text))
  <2>1. place + count + 1 \in Nat \ {0} /\ 1 \in Nat \ {0} /\ Len(text) <= Len(text)
    BY <1>1
  <2> QED
    BY <1>1, <2>1, PartIs
<1> QED
  BY <1>2, <1>5, <1>8, <1>9 DEF Strings!Replaced

\* The text of a String, and the one it has by string.h.
LEMMA TextIs ==
  ASSUME StringsInv, NEW w \in Variable, Strings!InScope(w)
  PROVE  /\ Strings!Text(w) \in Seq(Strings!Chars) /\ meaning[w] \in Seq(Strings!Chars)
         /\ w \in displaced \/ Strings!Text(w) = meaning[w]
<1>1. _contents[w] \in Strings!Address /\ heap[_contents[w]] \in Strings!Contents
  BY Counted
<1>2. heap[_contents[w]]._data \in Seq(Strings!Chars)
  BY <1>1, ContentsAre
<1> QED
  BY <1>2, HeapIs DEF StringsInv, Strings!StringsKeepTheirText, Strings!Text

\* The operations that make a temporary give the variable the text it should have.
LEMMA ReplaceKeeps ==
  ASSUME StringsInv, NEW v \in Variable, NEW w \in Variable, Strings!InScope(w), NEW place \in Nat, NEW count \in Nat,
         NEW addition \in Seq(Strings!Chars), NEW expected \in Seq(Strings!Chars), NEW spoilt,
         spoilt \/ addition = expected,
         Strings!Replace(v, w, place, count, addition, expected, spoilt)
  PROVE  StringsInv'
<1> DEFINE result == Strings!replace(Strings!Text(w), place, count, addition)
           said == Strings!Replaced(meaning[w], place, count, expected)
           off == spoilt \/ w \in displaced \/ ~ Strings!InPlace(Strings!Text(w), place, count, addition)
<1>1. /\ Strings!Text(w) \in Seq(Strings!Chars) /\ meaning[w] \in Seq(Strings!Chars)
      /\ w \in displaced \/ Strings!Text(w) = meaning[w]
  BY TextIs
<1>2. result \in Seq(Strings!Chars) /\ said \in Seq(Strings!Chars)
  BY <1>1, ReplaceIsText, ReplacedIsText
<1>3. off \/ result = said
  <2> SUFFICES ASSUME ~ off PROVE result = said
    OBVIOUS
  <2>1. /\ addition = expected /\ Strings!Text(w) = meaning[w]
        /\ Strings!InPlace(Strings!Text(w), place, count, addition)
    BY <1>1
  <2>2. result = Strings!Replaced(Strings!Text(w), place, count, addition)
    BY <1>1, <2>1, ReplaceKeepsPromise
  <2> QED
    BY <2>1, <2>2
<1>4. Strings!AssignTemporary(v, result, said, off)
  BY DEF Strings!Replace
<1> HIDE DEF result, said, off
<1> QED
  BY <1>2, <1>3, <1>4, TemporaryKeeps

LEMMA SubstringKeeps ==
  ASSUME StringsInv, NEW v \in Variable, NEW w \in Variable, Strings!InScope(w), NEW place \in Nat, NEW count \in Nat,
         Strings!Substring(v, w, place, count)
  PROVE  StringsInv'
<1> DEFINE result == Strings!substring(Strings!Text(w), place, count)
           said == Strings!Part(meaning[w], place + 1, place + count)
           off == w \in displaced
<1>1. /\ Strings!Text(w) \in Seq(Strings!Chars) /\ meaning[w] \in Seq(Strings!Chars)
      /\ off \/ Strings!Text(w) = meaning[w]
  BY TextIs
<1>2. result \in Seq(Strings!Chars) /\ said \in Seq(Strings!Chars)
  <2>1. place + 1 \in Nat \ {0} /\ place + count \in Nat
    OBVIOUS
  <2> QED
    BY <1>1, <2>1, SubstringIsPart, PartIs
<1>3. off \/ result = said
  <2>1. result = Strings!Part(Strings!Text(w), place + 1, place + count)
    BY <1>1, SubstringIsPart
  <2> HIDE DEF result, off
  <2> QED
    BY <1>1, <2>1
<1>4. Strings!AssignTemporary(v, result, said, off)
  BY DEF Strings!Substring
<1> HIDE DEF result, said, off
<1> QED
  BY <1>2, <1>3, <1>4, TemporaryKeeps

LEMMA AppendKeeps ==
  ASSUME StringsInv, NEW v \in Variable, NEW w \in Variable, Strings!InScope(w), NEW character \in Character,
         Strings!AppendCharacter(v, w, character)
  PROVE  StringsInv'
<1> DEFINE result == Strings!Text(w) \o <<character>>
           said == Append(meaning[w], character)
           off == w \in displaced
<1>1. /\ Strings!Text(w) \in Seq(Strings!Chars) /\ meaning[w] \in Seq(Strings!Chars)
      /\ off \/ Strings!Text(w) = meaning[w]
      /\ character \in Strings!Chars
  BY TextIs DEF Strings!Chars
<1>2. /\ result = Append(Strings!Text(w), character) /\ result \in Seq(Strings!Chars)
      /\ said \in Seq(Strings!Chars)
  BY <1>1, AppendIsConcat, AppendProperties
<1>3. off \/ result = said
  BY <1>1, <1>2
<1>4. Strings!AssignTemporary(v, result, said, off)
  BY DEF Strings!AppendCharacter
<1> HIDE DEF result, said, off
<1> QED
  BY <1>2, <1>3, <1>4, TemporaryKeeps

\* New contents, contents there are already, and the empty ones.
LEMMA StringOfKeeps ==
  ASSUME StringsInv, NEW v \in Variable, NEW text \in Seq(Strings!Chars), Strings!StringOf(v, text)
  PROVE  StringsInv'
<1> DEFINE store == [heap EXCEPT ![Strings!Fresh] = Strings!NewContents(text)]
<1>1. Strings!Construct(v, store, Strings!Fresh) /\ GivenText(v, text, text)
  BY GivenIs DEF Strings!StringOf
<1>2. Strings!Fresh \in Strings!Address /\ Strings!Fresh # Strings!Empty /\ heap[Strings!Fresh] = None
  BY FreshIsFree
<1>3. /\ store \in Store /\ store[Strings!Fresh] = Ref(0, text) /\ \A x \in Strings!Address : x # Strings!Fresh => store[x] = heap[x]
      /\ Ref(0, text) # None /\ Ref(0, text)._data = text /\ Ref(0, text)._references = 0
  BY MadeIs
<1> HIDE DEF store
<1>4. store[Strings!Fresh] # None /\ store[Strings!Fresh]._data = text /\ store[Strings!Fresh]._references = 0
  BY <1>3
<1> QED
  BY <1>1, <1>2, <1>3, <1>4, NewStringKeeps

LEMMA DefaultKeeps ==
  ASSUME StringsInv, NEW v \in Variable, Strings!StringDefault(v)
  PROVE  StringsInv'
<1>1. Strings!Construct(v, heap, Strings!Empty) /\ GivenText(v, <<>>, <<>>)
  BY GivenIs DEF Strings!StringDefault
<1>2. /\ heap \in Store /\ Strings!Empty \in Strings!Address /\ heap[Strings!Empty] # None /\ heap[Strings!Empty]._data = <<>>
      /\ <<>> \in Seq(Strings!Chars)
  BY HeapIs, EmptySeq
<1> QED
  BY <1>1, <1>2, NewStringKeeps

LEMMA CopyKeeps ==
  ASSUME StringsInv, NEW v \in Variable, NEW w \in Variable, Strings!StringCopy(v, w)
  PROVE  StringsInv'
<1>1. /\ Strings!InScope(w) /\ Strings!Construct(v, heap, _contents[w])
      /\ Strings!Given(v, meaning[w], w \in displaced)
  BY DEF Strings!StringCopy
<1>2. heap \in Store /\ _contents[w] \in Strings!Address /\ meaning[w] \in Seq(Strings!Chars)
  BY <1>1, HeapIs DEF Strings!InScope
<1>3. /\ heap[_contents[w]] # None /\ heap[_contents[w]]._data \in Seq(Strings!Chars)
      /\ w \in displaced \/ heap[_contents[w]]._data = meaning[w]
  BY <1>1, TextIs DEF StringsInv, Strings!StringsKeepTheirText, Strings!Text
<1>4. GivenText(v, meaning[w], heap[_contents[w]]._data)
  BY <1>1, <1>3, GivenIs
<1> QED
  BY <1>1, <1>2, <1>3, <1>4, NewStringKeeps

\* The same program, which makes its Strings from any texts.
AnyTexts == Strings!Next \/ \E v \in Variable, text \in Seq(Strings!Chars) : Strings!StringOf(v, text)

LEMMA TextsAre == MCTexts \subseteq Seq(Strings!Chars)
<1> SUFFICES ASSUME NEW t \in MCTexts PROVE t \in Seq(Strings!Chars)
  OBVIOUS
<1>1. t \in Seq({t[i] : i \in DOMAIN t})
  BY StringsAssumption DEF Strings!ConstantsOK
<1>2. {t[i] : i \in DOMAIN t} \subseteq Strings!Chars
  BY DEF Strings!Chars
<1> QED
  BY <1>1, <1>2

LEMMA StringsKeep ==
  ASSUME StringsInv, [AnyTexts]_Strings!vars
  PROVE  StringsInv'
<1>1. CASE UNCHANGED Strings!vars
  BY <1>1, StayKeeps DEF Strings!vars
<1>2. ASSUME NEW v \in Variable, Strings!StringDefault(v) PROVE StringsInv'
  BY <1>2, DefaultKeeps
<1>3. ASSUME NEW v \in Variable, NEW text \in Seq(Strings!Chars), Strings!StringOf(v, text) PROVE StringsInv'
  BY <1>3, StringOfKeeps
<1>4. ASSUME NEW v \in Variable, Strings!Destroy(v) PROVE StringsInv'
  BY <1>4, DestroyKeeps
<1>5. ASSUME NEW v \in Variable, NEW w \in Variable, Strings!StringCopy(v, w) PROVE StringsInv'
  BY <1>5, CopyKeeps
<1>6. ASSUME NEW v \in Variable, NEW w \in Variable, Strings!Assign(v, w) PROVE StringsInv'
  BY <1>6, AssignKeeps
<1>7. ASSUME NEW v \in Variable, NEW w \in Variable, Strings!InScope(w), NEW u \in Variable, Strings!InScope(u),
             NEW place \in 0 .. MaxLength, NEW count \in 0 .. MaxLength,
             Strings!ReplaceWith(v, w, place, count, u)
      PROVE  StringsInv'
  <2>1. /\ Strings!Text(u) \in Seq(Strings!Chars) /\ meaning[u] \in Seq(Strings!Chars)
        /\ u \in displaced \/ Strings!Text(u) = meaning[u]
    BY <1>7, TextIs
  <2>2. Strings!Replace(v, w, place, count, Strings!Text(u), meaning[u], u \in displaced)
    BY <1>7 DEF Strings!ReplaceWith
  <2>3. place \in Nat /\ count \in Nat
    BY <1>7
  <2> QED
    BY <1>7, <2>1, <2>2, <2>3, ReplaceKeeps
<1>8. ASSUME NEW v \in Variable, NEW w \in Variable, Strings!InScope(w),
             NEW place \in 0 .. MaxLength, NEW count \in 0 .. MaxLength,
             Strings!Erase(v, w, place, count)
      PROVE  StringsInv'
  <2>1. <<>> \in Seq(Strings!Chars) /\ place \in Nat /\ count \in Nat
    BY <1>8, EmptySeq
  <2>2. Strings!Replace(v, w, place, count, <<>>, <<>>, FALSE)
    BY <1>8 DEF Strings!Erase
  <2> QED
    BY <1>8, <2>1, <2>2, ReplaceKeeps
<1>9. ASSUME NEW v \in Variable, NEW w \in Variable, Strings!InScope(w),
             NEW place \in 0 .. MaxLength, NEW count \in 0 .. MaxLength,
             Strings!Substring(v, w, place, count)
      PROVE  StringsInv'
  BY <1>9, SubstringKeeps
<1>10. ASSUME NEW v \in Variable, NEW w \in Variable, Strings!InScope(w), NEW character \in Character,
              Strings!AppendCharacter(v, w, character)
       PROVE  StringsInv'
  BY <1>10, AppendKeeps
<1> QED
  BY <1>1, <1>2, <1>3, <1>4, <1>5, <1>6, <1>7, <1>8, <1>9, <1>10, TextsAre DEF AnyTexts, Strings!Next

\* Strings keep their text, but for what replace displaces, for any number of them, of any texts (string.cpp:98-254, string_contents.cpp:21-65).
THEOREM TextsAreKept == Strings!Init /\ [][AnyTexts]_Strings!vars => []StringsKeepTheirText
<1>1. StringsInv => StringsKeepTheirText
  BY DEF StringsInv, StringsKeepTheirText
<1> QED
  BY <1>1, InitStrings, StringsKeep, PTL

----------------------------------------------------------------------------
(* In the behaviours of the run *)

\* What the run does with the reader is a behaviour of the reader.
LEMMA RunReads == MCSpec => Reader!Spec
<1>1. [MCNext]_<<running, vars, mounted, reader, host>> => [Reader!Next]_Reader!vars
  BY DEF MCNext, Record, Mounted, Reads, Fails, Registers, Writes, reader, Reader!vars
<1> QED
  BY <1>1, PTL DEF MCSpec, MCInit, Reader!Spec

\* The reader holds blocks back as it should in every behaviour of the run (block.cpp:160-170).
THEOREM RunHoldsBlocks == MCSpec => []HeldUntilTold
<1> QED
  BY RunReads, BlocksAreHeld, PTL

\* The reader hands every block on with its time in every behaviour of the run (sequence.cpp:139-240, block.cpp:93).
THEOREM RunDeliversTrue == MCSpec => []DeliveredTrue
<1> QED
  BY RunReads, ReaderAssumption, ClearRecordingsAreTold, PTL

\* It refuses none of the run's recordings (sequence.cpp:208-240, block.cpp:160-170).
THEOREM RunReadsGoodLogs == MCSpec => []GoodLogIsRead
<1> QED
  BY RunReads, ReaderAssumption, ClearRecordingsAreTold, PTL

\* Strings that share contents keep their texts in every behaviour of the run (string.cpp:98-254,
\* string_contents.cpp:21-65).
THEOREM RunKeepsTexts == MCSpec => []StringsKeepTheirText
<1>1. MCInit => Strings!Init
  BY DEF MCInit
<1>2. [MCNext]_<<running, vars, mounted, reader, host>> => [Strings!Next]_Strings!vars
  BY DEF MCNext, Record, Mounted, Reads, Fails, Registers, Writes, host, strings, Strings!vars
<1>3. [Strings!Next]_Strings!vars => [AnyTexts]_Strings!vars
  BY DEF AnyTexts
<1> QED
  BY <1>1, <1>2, <1>3, TextsAreKept, PTL DEF MCSpec
=============================================================================
