--------------------------- MODULE FatFileProofs ---------------------------
(***************************************************************************)
(* Open files on a FAT volume, for every volume whose directory and        *)
(* allocation table agree, every size of a cluster and every number of     *)
(* open files: what an open file keeps of its place stays right, and what  *)
(* is read and written are the bytes of flat files.  The chains the files  *)
(* lie in are followed by a recursive function, and what it computes is    *)
(* shown by the least place where it would be wrong.                       *)
(***************************************************************************)
EXTENDS FatFile, SequenceTheorems, WellFoundedInduction, TLAPS

LEMMA LeastOf ==
  ASSUME NEW T, T \subseteq Nat, T # {}
  PROVE  \E a \in T : \A b \in T : a <= b
<1>1. PICK a \in T : \A b \in T : <<b, a>> \notin OpToRel(<, Nat)
  BY NatLessThanWellFounded, WFMin
<1>2. \A b \in T : ~ (b < a)
  BY <1>1, Zenon DEF OpToRel
<1> QED
  BY <1>2

----------------------------------------------------------------------------
(* Chains *)

\* The first k links of the chain from c.
Links(reached, k, c) ==
  reached = [i \in 0 .. k |-> IF i = 0 THEN c ELSE fat[reached[i - 1]]]

LEMMA LinksAre ==
  ASSUME NEW k \in Nat, NEW c, NEW f, Links(f, k, c)
  PROVE  /\ DOMAIN f = 0 .. k
         /\ f[0] = c
         /\ \A i \in 1 .. k : f[i] = fat[f[i - 1]]
<1> DEFINE g == [i \in 0 .. k |-> IF i = 0 THEN c ELSE fat[f[i - 1]]]
<1>1. f = g
  BY DEF Links
<1>2. DOMAIN g = 0 .. k /\ g[0] = c
  OBVIOUS
<1>3. ASSUME NEW i \in 1 .. k PROVE g[i] = fat[f[i - 1]]
  OBVIOUS
<1> HIDE DEF g
<1> QED
  BY <1>1, <1>2, <1>3

LEMMA LinksExist ==
  ASSUME NEW k \in Nat, NEW c
  PROVE  \E f : Links(f, k, c)
<1> DEFINE T == {m \in Nat : ~ \E f : Links(f, m, c)}
<1>1. SUFFICES ASSUME T # {} PROVE FALSE
  OBVIOUS
<1>2. PICK m \in T : \A j \in T : m <= j
  BY <1>1, LeastOf
<1>3. m \in Nat /\ ~ \E f : Links(f, m, c)
  BY <1>2
<1>4. CASE m = 0
  <2> DEFINE f == [i \in 0 .. 0 |-> c]
  <2>1. f = [i \in 0 .. 0 |-> IF i = 0 THEN c ELSE fat[f[i - 1]]]
    OBVIOUS
  <2> QED
    BY <1>3, <1>4, <2>1 DEF Links
<1>5. CASE m # 0
  <2>1. m - 1 \in Nat /\ ~ (m <= m - 1)
    BY <1>3, <1>5
  <2>2. PICK f : Links(f, m - 1, c)
    BY <1>2, <2>1
  <2>3. /\ DOMAIN f = 0 .. m - 1
        /\ f[0] = c
        /\ \A i \in 1 .. m - 1 : f[i] = fat[f[i - 1]]
    BY <2>1, <2>2, LinksAre
  <2> DEFINE g == [i \in 0 .. m |-> IF i = m THEN fat[f[m - 1]] ELSE f[i]]
             h == [i \in 0 .. m |-> IF i = 0 THEN c ELSE fat[g[i - 1]]]
  <2>4. ASSUME NEW i \in 0 .. m PROVE g[i] = h[i]
    <3>1. CASE i = 0
      BY <1>3, <1>5, <2>3, <3>1
    <3>2. CASE i = m
      <4>1. g[i] = fat[f[m - 1]] /\ h[i] = fat[g[m - 1]]
        BY <1>3, <1>5, <3>2
      <4>2. g[m - 1] = f[m - 1]
        BY <1>3, <1>5
      <4> QED
        BY <4>1, <4>2
    <3>3. CASE i # 0 /\ i # m
      <4>1. i \in 1 .. m - 1
        BY <3>3, <1>3
      <4>2. g[i] = f[i] /\ h[i] = fat[g[i - 1]] /\ g[i - 1] = f[i - 1]
        BY <3>3, <1>3, <4>1
      <4> QED
        BY <4>1, <4>2, <2>3
    <3> QED
      BY <3>1, <3>2, <3>3
  <2>5. g = h
    BY <2>4
  <2>6. Links(g, m, c)
    BY <2>5 DEF Links
  <2> QED
    BY <1>3, <2>6
<1> QED
  BY <1>4, <1>5

LEMMA LinksAgree ==
  ASSUME NEW k \in Nat, NEW n \in Nat, NEW c, NEW f, NEW g,
         Links(f, k, c), Links(g, n, c), NEW i \in Nat, i <= k, i <= n
  PROVE  f[i] = g[i]
<1> DEFINE T == {j \in Nat : j <= k /\ j <= n /\ f[j] # g[j]}
<1>1. SUFFICES ASSUME T # {} PROVE FALSE
  OBVIOUS
<1>2. PICK m \in T : \A j \in T : m <= j
  BY <1>1, LeastOf
<1>3. m \in Nat /\ m <= k /\ m <= n /\ f[m] # g[m]
  BY <1>2
<1>4. /\ f[0] = c /\ \A j \in 1 .. k : f[j] = fat[f[j - 1]]
      /\ g[0] = c /\ \A j \in 1 .. n : g[j] = fat[g[j - 1]]
  BY LinksAre
<1>5. m # 0
  BY <1>3, <1>4
<1>6. m - 1 \in Nat /\ ~ (m <= m - 1)
  BY <1>3, <1>5
<1>7. m - 1 \notin T
  BY <1>2, <1>6
<1>8. f[m - 1] = g[m - 1]
  BY <1>3, <1>6, <1>7
<1>9. m \in 1 .. k /\ m \in 1 .. n
  BY <1>3, <1>5
<1> QED
  BY <1>3, <1>4, <1>8, <1>9

LEMMA FollowIs ==
  ASSUME NEW k \in Nat, NEW c
  PROVE  \E f : Links(f, k, c) /\ Follow(k, c) = f[k]
<1> DEFINE f == CHOOSE f : Links(f, k, c)
<1>1. Links(f, k, c)
  BY LinksExist
<1>2. Follow(k, c) = f[k]
  BY Zenon DEF Follow, Links
<1> QED
  BY <1>1, <1>2

LEMMA FollowNone ==
  ASSUME NEW c
  PROVE  Follow(0, c) = c
<1>1. PICK f : Links(f, 0, c) /\ Follow(0, c) = f[0]
  BY FollowIs
<1> QED
  BY <1>1, LinksAre

LEMMA FollowNext ==
  ASSUME NEW k \in Nat, NEW c
  PROVE  Follow(k + 1, c) = fat[Follow(k, c)]
<1>1. PICK f : Links(f, k, c) /\ Follow(k, c) = f[k]
  BY FollowIs
<1>2. k + 1 \in Nat
  OBVIOUS
<1>3. PICK g : Links(g, k + 1, c) /\ Follow(k + 1, c) = g[k + 1]
  BY <1>2, FollowIs
<1>4. \A i \in 1 .. k + 1 : g[i] = fat[g[i - 1]]
  BY <1>2, <1>3, LinksAre
<1>5. g[k + 1] = fat[g[k]]
  BY <1>4
<1>6. f[k] = g[k]
  BY <1>1, <1>2, <1>3, LinksAgree
<1> QED
  BY <1>1, <1>3, <1>5, <1>6

\* Following the chain in two stretches.
LEMMA FollowOn ==
  ASSUME NEW k \in Nat, NEW n \in Nat, NEW c
  PROVE  Follow(k + n, c) = Follow(n, Follow(k, c))
<1> DEFINE d == Follow(k, c)
           T == {j \in Nat : Follow(k + j, c) # Follow(j, d)}
<1>1. SUFFICES ASSUME T # {} PROVE FALSE
  OBVIOUS
<1>2. PICK m \in T : \A j \in T : m <= j
  BY <1>1, LeastOf
<1>3. m \in Nat /\ Follow(k + m, c) # Follow(m, d)
  BY <1>2
<1>4. Follow(0, d) = d
  BY FollowNone
<1>5. m # 0
  <2>1. k + 0 = k
    OBVIOUS
  <2> QED
    BY <1>3, <1>4, <2>1
<1>6. m - 1 \in Nat /\ ~ (m <= m - 1)
  BY <1>3, <1>5
<1>7. Follow(k + (m - 1), c) = Follow(m - 1, d)
  BY <1>2, <1>6
<1> HIDE DEF d
<1>8. Follow((m - 1) + 1, d) = fat[Follow(m - 1, d)]
  BY <1>6, FollowNext
<1>9. Follow((k + (m - 1)) + 1, c) = fat[Follow(k + (m - 1), c)]
  <2>1. k + (m - 1) \in Nat
    BY <1>6
  <2> QED
    BY <2>1, FollowNext
<1>10. (m - 1) + 1 = m /\ (k + (m - 1)) + 1 = k + m
  BY <1>3
<1> QED
  BY <1>3, <1>7, <1>8, <1>9, <1>10

----------------------------------------------------------------------------
(* Positions *)

LEMMA DivisionIs ==
  ASSUME NEW m \in Nat \ {0}, NEW x \in Int
  PROVE  x \div m \in Int /\ x % m \in 0 .. m - 1 /\ x = m * (x \div m) + (x % m)
<1>1. x \div m \in Int
  OBVIOUS
<1>2. x % m \in 0 .. m - 1
  OBVIOUS
<1>3. x = m * (x \div m) + (x % m)
  OBVIOUS
<1> QED
  BY <1>1, <1>2, <1>3

LEMMA NoLess ==
  ASSUME NEW m \in Nat \ {0}, NEW k \in Int, k >= 1
  PROVE  m * k >= m
<1>1. k - 1 \in Nat
  OBVIOUS
<1> DEFINE j == k - 1
<1>2. m * k = m * j + m
  OBVIOUS
<1>3. \A i \in Nat : m * i >= 0
  OBVIOUS
<1> QED
  BY <1>1, <1>2, <1>3

LEMMA DivisionOf ==
  ASSUME NEW m \in Nat \ {0}, NEW q \in Int, NEW r \in 0 .. m - 1
  PROVE  (m * q + r) \div m = q /\ (m * q + r) % m = r
<1> DEFINE x == m * q + r
           p == x \div m
           s == x % m
<1>1. p \in Int /\ s \in 0 .. m - 1 /\ x = m * p + s
  <2>1. x \in Int
    OBVIOUS
  <2> HIDE DEF x
  <2> QED
    BY <2>1, DivisionIs
<1>2. m * q + r = m * p + s
  BY <1>1
<1> HIDE DEF p, s, x
<1>3. m * (q - p) = s - r
  BY <1>1, <1>2
<1>4. m * (p - q) = r - s
  BY <1>1, <1>2
<1>5. ~ (q - p >= 1)
  <2>1. q - p \in Int
    BY <1>1
  <2> QED
    BY <1>1, <1>3, <2>1, NoLess
<1>6. ~ (p - q >= 1)
  <2>1. p - q \in Int
    BY <1>1
  <2> QED
    BY <1>1, <1>4, <2>1, NoLess
<1>7. p = q
  BY <1>1, <1>5, <1>6
<1>8. s = r
  BY <1>1, <1>2, <1>7
<1> QED
  BY <1>7, <1>8 DEF p, s, x


\* Some way further in the same cluster, and at its far end.
LEMMA Along ==
  ASSUME NEW q \in Nat, NEW d \in Nat, (q % ClusterBytes) + d <= ClusterBytes
  PROVE  /\ (q % ClusterBytes) + d < ClusterBytes =>
              /\ (q + d) \div ClusterBytes = q \div ClusterBytes
              /\ (q + d) % ClusterBytes = (q % ClusterBytes) + d
         /\ (q % ClusterBytes) + d = ClusterBytes =>
              /\ (q + d) \div ClusterBytes = (q \div ClusterBytes) + 1
              /\ (q + d) % ClusterBytes = 0
<1> DEFINE B == ClusterBytes
           D == q \div B
           R == q % B
<1>1. B \in Nat \ {0}
  BY VolumeAssumption
<1>2. D \in Int /\ R \in 0 .. B - 1 /\ q = B * D + R
  BY <1>1, DivisionIs
<1>3. R + d <= B
  OBVIOUS
<1> HIDE DEF B, D, R
<1>4. ASSUME R + d < B PROVE (q + d) \div B = D /\ (q + d) % B = R + d
  <2>1. R + d \in 0 .. B - 1
    BY <1>1, <1>2, <1>4
  <2>2. q + d = B * D + (R + d)
    BY <1>1, <1>2
  <2> QED
    BY <1>1, <1>2, <2>1, <2>2, DivisionOf
<1>5. ASSUME R + d = B PROVE (q + d) \div B = D + 1 /\ (q + d) % B = 0
  <2>1. 0 \in 0 .. B - 1 /\ D + 1 \in Int
    BY <1>1, <1>2
  <2>2. q + d = B * (D + 1) + 0
    BY <1>1, <1>2, <1>5
  <2>3. (B * (D + 1) + 0) \div B = D + 1 /\ (B * (D + 1) + 0) % B = 0
    BY ONLY <1>1, <2>1, DivisionOf
  <2> QED
    BY <2>2, <2>3
<1> QED
  BY <1>4, <1>5 DEF B, D, R

LEMMA PlaceHas ==
  ASSUME NEW n \in Name, NEW q \in Nat, q < Length[n]
  PROVE  /\ <<n, q>> \in Place
         /\ ClusterOf[<<n, q>>] = Follow(q \div ClusterBytes, head[n])
         /\ ClusterOf[<<n, q>>] \in Cluster
         /\ q \div ClusterBytes \in Nat
<1>1. Length[n] \in Nat
  BY VolumeAssumption
<1>2. q \in 0 .. Length[n] - 1
  BY <1>1
<1>3. <<n, q>> \in Place
  BY <1>2 DEF Place
<1>4. ClusterOf[<<n, q>>] = Follow(q \div ClusterBytes, head[n])
  BY <1>3 DEF ClusterOf
<1>5. ClusterOf[<<n, q>>] \in Cluster
  BY <1>3, VolumeAssumption
<1>6. q \div ClusterBytes \in Nat
  BY VolumeAssumption
<1> QED
  BY <1>3, <1>4, <1>5, <1>6

LEMMA PlaceAre ==
  ASSUME NEW x \in Place
  PROVE  /\ x = <<x[1], x[2]>> /\ x[1] \in Name /\ x[2] \in Nat
         /\ x[2] < Length[x[1]]
<1>1. PICK n \in Name : x \in {n} \X (0 .. Length[n] - 1)
  BY DEF Place
<1>2. Length[n] \in Nat
  BY VolumeAssumption
<1>3. x = <<x[1], x[2]>> /\ x[1] = n /\ x[2] \in 0 .. Length[n] - 1
  BY <1>1
<1> QED
  BY <1>2, <1>3

----------------------------------------------------------------------------
(* An open file *)

\* The file has the cluster of its position.
Settled(f) ==
  /\ f.current = ClusterOf[<<f.name, f.position>>]
  /\ f.cluster_position = f.position % ClusterBytes

\* The file still has the cluster its position has just left.
UsedUp(f) ==
  /\ f.position > 0 /\ f.position % ClusterBytes = 0
  /\ f.current = ClusterOf[<<f.name, f.position - 1>>]
  /\ f.cluster_position = ClusterBytes

Held(f) ==
  /\ f.position <= Length[f.name]
  /\ f.position < Length[f.name] => Settled(f) \/ UsedUp(f)

LEMMA OpenFileIs ==
  ASSUME NEW n \in Name, NEW c \in Cluster \cup {Eoc}, NEW p \in Nat,
         NEW o \in 0 .. ClusterBytes, NEW f,
         f = [name |-> n, current |-> c, position |-> p, cluster_position |-> o]
  PROVE  /\ f \in OpenFile
         /\ f.name = n /\ f.current = c /\ f.position = p
         /\ f.cluster_position = o
BY DEF OpenFile

\* A seek within the file arrives at the cluster of the byte it asked for.
LEMMA ArriveHolds ==
  ASSUME NEW f \in OpenFile, Held(f), NEW p \in Nat, p < Length[f.name]
  PROVE  /\ Arrive(f, p) \in OpenFile
         /\ Arrive(f, p).name = f.name /\ Arrive(f, p).position = p
         /\ Settled(Arrive(f, p))
<1> DEFINE B == ClusterBytes
           n == f.name
           P == f.position
           h == head[n]
           a == Arrive(f, p)
<1>1. /\ B \in Nat \ {0} /\ n \in Name /\ P \in Nat /\ Length[n] \in Nat
      /\ f.current \in Cluster \cup {Eoc} /\ f.cluster_position \in 0 .. B
      /\ DOMAIN f = {"name", "current", "position", "cluster_position"}
  BY VolumeAssumption DEF OpenFile
<1>2. /\ ClusterOf[<<n, p>>] = Follow(p \div B, h)
      /\ ClusterOf[<<n, p>>] \in Cluster /\ p \div B \in Nat
      /\ p % B \in 0 .. B - 1 /\ p \div B \in Int /\ p = B * (p \div B) + (p % B)
  <2>1. p < Length[n]
    OBVIOUS
  <2>2. /\ ClusterOf[<<n, p>>] = Follow(p \div ClusterBytes, head[n])
        /\ ClusterOf[<<n, p>>] \in Cluster /\ p \div ClusterBytes \in Nat
    BY <1>1, <2>1, PlaceHas
  <2>3. p % B \in 0 .. B - 1 /\ p \div B \in Int /\ p = B * (p \div B) + (p % B)
    BY ONLY <1>1, p \in Nat, DivisionIs
  <2> QED
    BY <2>2, <2>3
<1>3. SUFFICES a = [name |-> n, current |-> ClusterOf[<<n, p>>], position |-> p,
                    cluster_position |-> p % B]
  <2>1. p % B \in 0 .. B
    BY <1>1, <1>2
  <2> HIDE DEF a, n
  <2> QED
    BY <1>1, <1>2, <1>3, <2>1, OpenFileIs DEF Settled, a, n
<1>4. ASSUME NEW c, NEW o,
             a = [f EXCEPT !.position = p, !.current = c, !.cluster_position = o]
      PROVE  a = [name |-> n, current |-> c, position |-> p, cluster_position |-> o]
  BY <1>1, <1>4 DEF OpenFile
<1>5. CASE p < P
  <2>1. ~ (0 + (p % B) >= B) /\ 0 + (p % B) = p % B
    BY <1>1, <1>2
  <2>2. a = [f EXCEPT !.position = p, !.current = Follow(p \div B, h), !.cluster_position = p % B]
    BY <1>5, <2>1 DEF Arrive
  <2> HIDE DEF a
  <2> QED
    BY <1>2, <1>4, <2>2
<1>6. CASE ~ (p < P)
  <2> DEFINE b == p - P
             E == b \div B
             S == b % B
             D == P \div B
             R == P % B
             reached == Follow(E, f.current)
             remainder == f.cluster_position + S
  <2>1. /\ b \in Nat /\ E \in Nat /\ S \in 0 .. B - 1 /\ b = B * E + S
        /\ D \in Nat /\ R \in 0 .. B - 1 /\ P = B * D + R
    <3>1. b \in Nat
      BY <1>1, <1>6
    <3>2. D \in Nat
      BY <1>1
    <3>3. E \in Nat
      <4> HIDE DEF b
      <4> QED
        BY <1>1, <3>1
    <3> HIDE DEF b
    <3>4. S \in 0 .. B - 1 /\ b = B * E + S
      BY ONLY <1>1, <3>1, DivisionIs
    <3>5. R \in 0 .. B - 1 /\ P = B * D + R
      <4>1. B \in Nat \ {0} /\ P \in Int
        BY <1>1
      <4> HIDE DEF P, B
      <4> QED
        BY ONLY <4>1, DivisionIs DEF R, D
    <3> QED
      BY <3>1, <3>2, <3>3, <3>4, <3>5
  <2>2. a = [f EXCEPT !.position = p,
                      !.current = IF remainder >= B THEN fat[reached] ELSE reached,
                      !.cluster_position = IF remainder >= B THEN remainder - B ELSE remainder]
    BY <1>6 DEF Arrive
  <2>3. p = P + b /\ p = B * D + R + B * E + S
    <3>1. p = P + b
      BY <1>1
    <3> HIDE DEF b, E, S, D, R, P, B
    <3>2. B \in Int
      BY <1>1
    <3> QED
      BY ONLY <3>1, <3>2, <2>1
  <2> HIDE DEF b, E, S, D, R
  <2>4. p = B * (D + E) + (R + S)
    BY <1>1, <2>1, <2>3
  <2>5. P < Length[n]
    BY <1>1, <1>6
  <2>6. Settled(f) \/ UsedUp(f)
    BY <2>5 DEF Held
  <2>7. SUFFICES /\ (IF remainder >= B THEN fat[reached] ELSE reached) = ClusterOf[<<n, p>>]
                 /\ (IF remainder >= B THEN remainder - B ELSE remainder) = p % B
    <3> HIDE DEF a, remainder, reached
    <3> QED
      BY <1>4, <2>2, <2>7
  <2>8. CASE Settled(f)
    <3>1. /\ f.current = Follow(D, h) /\ f.cluster_position = R
      <4>1. P < Length[f.name] /\ f.name \in Name
        BY <1>1, <2>5
      <4>2. ClusterOf[<<f.name, P>>] = Follow(P \div ClusterBytes, head[f.name])
        BY <1>1, <4>1, PlaceHas
      <4> QED
        BY <2>8, <4>2 DEF Settled, D, R
    <3>2. reached = Follow(D + E, h)
      BY <2>1, <3>1, FollowOn
    <3>3. fat[reached] = Follow(D + E + 1, h)
      <4>1. D + E \in Nat
        BY <2>1
      <4> QED
        BY <3>2, <4>1, FollowNext
    <3>4. CASE R + S < B
      <4>1. R + S \in 0 .. B - 1 /\ D + E \in Int
        BY <1>1, <2>1, <3>4
      <4>2. p \div B = D + E /\ p % B = R + S
        BY <1>1, <2>4, <4>1, DivisionOf
      <4> QED
        BY <1>1, <1>2, <2>1, <3>1, <3>2, <3>4, <4>2
    <3>5. CASE R + S >= B
      <4>1. R + S - B \in 0 .. B - 1 /\ D + E + 1 \in Int
        BY <1>1, <2>1, <3>5
      <4>2. p = B * (D + E + 1) + (R + S - B)
        BY <1>1, <2>1, <2>4
      <4>3. p \div B = D + E + 1 /\ p % B = R + S - B
        BY <1>1, <4>1, <4>2, DivisionOf
      <4> QED
        BY <1>1, <1>2, <2>1, <3>1, <3>3, <3>5, <4>3
    <3> QED
      BY <1>1, <2>1, <3>4, <3>5
  <2>9. CASE UsedUp(f)
    <3>1. R = 0 /\ P > 0 /\ f.cluster_position = B /\ f.current = ClusterOf[<<n, P - 1>>]
      BY <2>9 DEF UsedUp, R
    <3>2. D >= 1
      BY <1>1, <2>1, <3>1
    <3>3. (P - 1) \div B = D - 1
      <4>1. B - 1 \in 0 .. B - 1 /\ D - 1 \in Int
        BY <1>1, <2>1
      <4>2. P - 1 = B * (D - 1) + (B - 1)
        BY <1>1, <2>1, <3>1
      <4> QED
        BY <1>1, <4>1, <4>2, DivisionOf
    <3>4. f.current = Follow(D - 1, h)
      <4>1. P - 1 \in Nat /\ P - 1 < Length[f.name] /\ f.name \in Name
        BY <1>1, <2>5, <3>1
      <4>2. ClusterOf[<<f.name, P - 1>>] = Follow((P - 1) \div ClusterBytes, head[f.name])
        BY <4>1, PlaceHas
      <4> QED
        BY <3>1, <3>3, <4>2
    <3>5. reached = Follow(D - 1 + E, h)
      <4>1. D - 1 \in Nat
        BY <2>1, <3>2
      <4> QED
        BY <2>1, <3>4, <4>1, FollowOn
    <3>6. fat[reached] = Follow(D + E, h)
      <4>1. D - 1 + E \in Nat /\ (D - 1 + E) + 1 = D + E
        BY <2>1, <3>2
      <4>2. Follow((D - 1 + E) + 1, h) = fat[Follow(D - 1 + E, h)]
        BY <4>1, FollowNext
      <4> QED
        BY <3>5, <4>1, <4>2
    <3>7. R + S \in 0 .. B - 1 /\ R + S = S /\ D + E \in Int
      BY <1>1, <2>1, <3>1
    <3>8. p \div B = D + E /\ p % B = S
      <4>1. p \div B = D + E /\ p % B = R + S
        BY <1>1, <2>4, <3>7, DivisionOf
      <4> QED
        BY <3>7, <4>1
    <3> QED
      BY <1>1, <1>2, <2>1, <3>1, <3>6, <3>8
  <2> QED
    BY <2>6, <2>8, <2>9
<1> QED
  BY <1>5, <1>6

LEMMA LeastOfThree ==
  ASSUME NEW x \in Int, NEW y \in Int, NEW z \in Int
  PROVE  /\ Least({x, y, z}) \in {x, y, z}
         /\ Least({x, y, z}) <= x /\ Least({x, y, z}) <= y /\ Least({x, y, z}) <= z
<1> DEFINE S == {x, y, z}
<1>1. \E m \in S : \A o \in S : m <= o
  <2>1. CASE x <= y /\ x <= z
    BY <2>1
  <2>2. CASE y <= x /\ y <= z
    BY <2>2
  <2>3. CASE z <= x /\ z <= y
    BY <2>3
  <2> QED
    BY <2>1, <2>2, <2>3
<1>2. Least(S) \in S /\ \A o \in S : Least(S) <= o
  BY <1>1 DEF Least
<1> QED
  BY <1>2

\* How far one turn of the loops gets, before it moves on.
Turn(f, k) ==
  /\ k \in Nat /\ k <= call.left /\ k <= Length[f.name] - f.position
  /\ f.cluster_position \in Nat /\ f.cluster_position + k <= ClusterBytes
  /\ \/ k > 0 /\ Settled(f)
     \/ k = 0 /\ UsedUp(f)

\* A turn stays within the cluster, the call and the file.
LEMMA TurnIs ==
  ASSUME NEW f \in OpenFile, Held(f), ~ AtEnd(f), call.left \in Nat, call.left > 0
  PROVE  /\ Turn(f, Count(f)) /\ f.current \in Cluster /\ f.position < Length[f.name]
         /\ \/ Count(f) = ClusterBytes - f.cluster_position
            \/ Count(f) = call.left
            \/ Count(f) = Length[f.name] - f.position
<1> DEFINE k == Count(f)
           B == ClusterBytes
<1>1. /\ B \in Nat \ {0} /\ f.name \in Name /\ f.position \in Nat /\ Length[f.name] \in Nat
      /\ f.cluster_position \in 0 .. B /\ f.current \in Cluster \cup {Eoc}
  BY VolumeAssumption DEF OpenFile
<1>2. f.position < Length[f.name] /\ f.current \in Cluster
  BY <1>1 DEF Held, AtEnd
<1>3. Settled(f) \/ UsedUp(f)
  BY <1>2 DEF Held
<1>4. /\ k \in {B - f.cluster_position, call.left, Length[f.name] - f.position}
      /\ k <= B - f.cluster_position /\ k <= call.left /\ k <= Length[f.name] - f.position
  <2> DEFINE x == B - f.cluster_position
             y == call.left
             z == Length[f.name] - f.position
  <2>1. x \in Int /\ y \in Int /\ z \in Int
    BY <1>1
  <2>2. k = Least({x, y, z})
    BY DEF Count
  <2> HIDE DEF k, B, x, y, z
  <2>3. k \in {x, y, z} /\ k <= x /\ k <= y /\ k <= z
    BY ONLY <2>1, <2>2, LeastOfThree
  <2> QED
    BY <2>3 DEF x, y, z
<1> HIDE DEF k
<1>5. /\ k \in Nat /\ f.cluster_position \in Nat /\ f.cluster_position + k <= B
  BY <1>1, <1>2, <1>4
<1>6. CASE Settled(f)
  <2>1. f.cluster_position < B
    <3>1. f.position % B \in 0 .. B - 1
      BY <1>1
    <3> QED
      BY <1>1, <1>6, <3>1 DEF Settled
  <2>2. k > 0
    BY <1>1, <1>2, <1>4, <2>1
  <2> QED
    BY <1>2, <1>4, <1>5, <1>6, <2>2 DEF Turn, k
<1>7. CASE UsedUp(f)
  <2>1. f.cluster_position = B
    BY <1>7 DEF UsedUp
  <2>2. k = 0
    BY <1>1, <1>4, <1>5, <2>1
  <2> QED
    BY <1>2, <1>4, <1>5, <1>7, <2>2 DEF Turn, k
<1> QED
  BY <1>3, <1>6, <1>7

\* A turn leaves the file at a place it can go on from.
LEMMA AdvanceHolds ==
  ASSUME NEW f \in OpenFile, NEW k, Turn(f, k), f.current \in Cluster,
         f.position < Length[f.name], call.left \in Nat, call.left > 0,
         k = ClusterBytes - f.cluster_position \/ k = call.left \/ k = Length[f.name] - f.position
  PROVE  /\ Advance(f, k) \in OpenFile /\ Held(Advance(f, k))
         /\ Advance(f, k).name = f.name /\ Advance(f, k).position = f.position + k
<1> DEFINE B == ClusterBytes
           n == f.name
           p == f.position
           o == f.cluster_position
           a == Advance(f, k)
           more == call.left > k
           c == IF more THEN fat[f.current] ELSE f.current
           e == IF more THEN 0 ELSE o + k
<1>1. /\ B \in Nat \ {0} /\ n \in Name /\ p \in Nat /\ Length[n] \in Nat
      /\ o \in 0 .. B /\ k \in Nat /\ k <= call.left /\ p + k <= Length[n] /\ o + k <= B
      /\ DOMAIN f = {"name", "current", "position", "cluster_position"}
  BY VolumeAssumption DEF OpenFile, Turn
<1>2. a = [name |-> n, current |-> c, position |-> p + k, cluster_position |-> e]
  <2>1. a = [f EXCEPT !.position = p + k, !.current = c, !.cluster_position = e]
    BY <1>1 DEF Advance
  <2> HIDE DEF c, e, a, p
  <2> QED
    BY <1>1, <2>1 DEF OpenFile
<1>3. c \in Cluster \cup {Eoc} /\ e \in 0 .. B /\ p + k \in Nat
  <2>1. fat[f.current] \in Cluster \cup {Eoc}
    BY VolumeAssumption
  <2>2. o + k \in 0 .. B /\ 0 \in 0 .. B
    BY <1>1
  <2> QED
    BY <1>1, <2>1, <2>2
<1> HIDE DEF a, c, e
<1>4. /\ a \in OpenFile /\ a.name = n /\ a.current = c /\ a.position = p + k
      /\ a.cluster_position = e
  <2> HIDE DEF n, p, o
  <2> QED
    BY <1>1, <1>2, <1>3, OpenFileIs DEF B
<1>5. SUFFICES ASSUME p + k < Length[n] PROVE Settled(a) \/ UsedUp(a)
  BY <1>1, <1>4 DEF Held, a
<1>6. ClusterOf[<<n, p>>] = Follow(p \div B, head[n]) /\ p \div B \in Nat
  BY <1>1, PlaceHas
<1>7. ClusterOf[<<n, p + k>>] = Follow((p + k) \div B, head[n])
  <2>1. p + k \in Nat /\ p + k < Length[n]
    BY <1>1, <1>5
  <2> QED
    BY <1>1, <2>1, PlaceHas
<1>8. more => o + k = B
  BY <1>1, <1>5
<1>9. CASE Settled(f)
  <2>1. f.current = ClusterOf[<<n, p>>] /\ o = p % B
    BY <1>9 DEF Settled
  <2>2. /\ (p % B) + k < B => (p + k) \div B = p \div B /\ (p + k) % B = (p % B) + k
        /\ (p % B) + k = B => (p + k) \div B = (p \div B) + 1 /\ (p + k) % B = 0
    BY <1>1, <2>1, Along
  <2>3. CASE more
    <3>1. (p + k) \div B = (p \div B) + 1 /\ (p + k) % B = 0
      BY <1>8, <2>1, <2>2, <2>3
    <3>2. c = fat[ClusterOf[<<n, p>>]] /\ e = 0
      BY <2>1, <2>3 DEF c, e
    <3>3. Follow((p \div B) + 1, head[n]) = fat[Follow(p \div B, head[n])]
      BY <1>6, FollowNext
    <3>4. c = ClusterOf[<<n, p + k>>]
      BY <1>6, <1>7, <3>1, <3>2, <3>3
    <3> QED
      BY <1>4, <3>1, <3>2, <3>4 DEF Settled
  <2>4. CASE ~ more /\ o + k < B
    <3>1. (p + k) \div B = p \div B /\ (p + k) % B = o + k
      BY <2>1, <2>2, <2>4
    <3>2. c = f.current /\ e = o + k
      BY <2>4 DEF c, e
    <3> QED
      BY <1>4, <1>6, <1>7, <2>1, <3>1, <3>2 DEF Settled
  <2>5. CASE ~ more /\ ~ (o + k < B)
    <3>1. o + k = B
      BY <1>1, <2>5
    <3>2. (p + k) % B = 0
      BY <2>1, <2>2, <3>1
    <3>3. c = f.current /\ e = B
      BY <2>5, <3>1 DEF c, e
    <3>4. k > 0
      <4>1. p % B \in 0 .. B - 1
        BY <1>1
      <4> QED
        BY <1>1, <2>1, <3>1, <4>1
    <3>5. ClusterOf[<<n, (p + k) - 1>>] = ClusterOf[<<n, p>>]
      <4>1. k - 1 \in Nat /\ (p % B) + (k - 1) < B /\ (p % B) + (k - 1) <= B
        <5>1. p % B = o /\ o + k = B /\ k > 0 /\ k \in Nat /\ o \in Nat /\ B \in Nat
          BY <1>1, <2>1, <3>1, <3>4
        <5> HIDE DEF p, o, B
        <5> QED
          BY ONLY <5>1
      <4>2. (p + (k - 1)) \div B = p \div B
        BY <1>1, <4>1, Along
      <4>3. p + (k - 1) \in Nat /\ p + (k - 1) < Length[n] /\ (p + k) - 1 = p + (k - 1)
        BY <1>1, <1>5, <4>1
      <4>4. ClusterOf[<<n, p + (k - 1)>>] = Follow((p + (k - 1)) \div B, head[n])
        BY <1>1, <4>3, PlaceHas
      <4> QED
        BY <1>6, <4>2, <4>3, <4>4
    <3>6. p + k > 0
      BY <1>1, <3>4
    <3> QED
      BY <1>4, <2>1, <3>2, <3>3, <3>5, <3>6 DEF UsedUp
  <2> QED
    BY <2>3, <2>4, <2>5
<1>10. CASE ~ Settled(f)
  <2>1. k = 0 /\ p > 0 /\ p % B = 0 /\ f.current = ClusterOf[<<n, p - 1>>] /\ o = B
    BY <1>10 DEF Turn, UsedUp
  <2>2. c = fat[ClusterOf[<<n, p - 1>>]] /\ e = 0 /\ p + k = p
    BY <1>1, <2>1 DEF c, e
  <2>3. p - 1 \in Nat /\ p - 1 < Length[n]
    <3>1. p \in Nat /\ p > 0 /\ p < Length[n] /\ Length[n] \in Nat
      BY <1>1, <2>1
    <3> HIDE DEF p, n
    <3> QED
      BY ONLY <3>1
  <2> DEFINE q == p - 1
  <2>4. q \in Nat /\ q < Length[n] /\ p = q + 1
    BY <1>1, <2>3
  <2> HIDE DEF q
  <2>5. q % B = B - 1
    <3> DEFINE D == q \div B
               R == q % B
    <3>1. R \in 0 .. B - 1
      BY <1>1, <2>4
    <3>2. CASE R + 1 < B
      <4>1. (q + 1) % B = R + 1
        <5>1. 1 \in Nat /\ (q % ClusterBytes) + 1 < ClusterBytes /\ (q % ClusterBytes) + 1 <= ClusterBytes
          BY <1>1, <3>1, <3>2
        <5> QED
          BY ONLY <2>4, <5>1, Along DEF B, R
      <4> QED
        BY <2>1, <2>4, <3>1, <4>1
    <3> QED
      BY <1>1, <3>1, <3>2
  <2>6. (q + 1) \div B = (q \div B) + 1
    <3>1. (q % B) + 1 = B /\ (q % B) + 1 <= B
      BY <1>1, <2>5
    <3> QED
      BY <2>4, <3>1, Along
  <2>7. ClusterOf[<<n, q>>] = Follow(q \div B, head[n]) /\ q \div B \in Nat
    BY <1>1, <2>4, PlaceHas
  <2>8. Follow((q \div B) + 1, head[n]) = fat[Follow(q \div B, head[n])]
    BY <2>7, FollowNext
  <2>9. c = ClusterOf[<<n, p>>]
    BY <1>6, <2>2, <2>4, <2>6, <2>7, <2>8 DEF q
  <2> QED
    BY <1>4, <2>1, <2>2, <2>9 DEF Settled
<1> QED
  BY <1>9, <1>10

----------------------------------------------------------------------------
(* The inductive invariant *)

Chunk == UNION {[1 .. k -> Byte] : k \in 0 .. MaxCount}

\* The call in progress is on an open file, and counts the bytes it carries.
Calls ==
  /\ ~ Idle => call.slot \in Open
  /\ call.op = "write" => Len(call.bytes) = call.left
  /\ call.op = "read" => Len(reply.bytes) + call.left <= MaxCount

FatInv == InStep /\ Calls

LEMMA ChunkIs ==
  ASSUME NEW b
  PROVE  b \in Chunk <=> b \in Seq(Byte) /\ Len(b) <= MaxCount
<1>1. MaxCount \in Nat
  BY VolumeAssumption
<1>2. ASSUME b \in Chunk PROVE b \in Seq(Byte) /\ Len(b) <= MaxCount
  <2>1. PICK k \in 0 .. MaxCount : b \in [1 .. k -> Byte]
    BY <1>2 DEF Chunk
  <2>2. k \in Nat /\ k <= MaxCount
    BY <1>1, <2>1
  <2> QED
    BY <2>1, <2>2
<1>3. ASSUME b \in Seq(Byte), Len(b) <= MaxCount PROVE b \in Chunk
  <2>1. Len(b) \in 0 .. MaxCount /\ b \in [1 .. Len(b) -> Byte]
    BY <1>1, <1>3, LenProperties
  <2> QED
    BY <2>1 DEF Chunk
<1> QED
  BY <1>2, <1>3

LEMMA InStepIs ==
  InStep <=> TypeOK /\ \A s \in Open : Held(file[s])
BY DEF InStep, Held, Settled, UsedUp

LEMMA TypesAre ==
  ASSUME TypeOK
  PROVE  /\ data \in [Cluster -> [Within -> Byte]]
         /\ file \in [Slot -> OpenFile \cup {Free}]
         /\ call \in [op : {"none", "read", "write"}, slot : Slot \cup {Free},
                      left : 0 .. MaxCount, bytes : Chunk]
         /\ call.left \in Nat /\ call.left <= MaxCount /\ call.bytes \in Chunk
         /\ call.op \in {"none", "read", "write"}
         /\ reply \in [result : {"none", "success", "failure", "end_of_file"}, bytes : Chunk]
         /\ \A s \in Open : s \in Slot /\ file[s] \in OpenFile
         /\ \A s \in Slot \ Open : file[s] = Free
BY VolumeAssumption DEF TypeOK, Chunk, Open

LEMMA EmptyChunk == <<>> \in Chunk
<1>1. <<>> \in Seq(Byte) /\ Len(<<>>) = 0 /\ MaxCount \in Nat
  BY VolumeAssumption
<1>2. Len(<<>>) <= MaxCount
  BY <1>1
<1> QED
  BY <1>1, <1>2, ChunkIs, Zenon

LEMMA InitHolds == Init => FatInv
<1> SUFFICES ASSUME Init PROVE FatInv
  OBVIOUS
<1>1. Open = {}
  BY DEF Init, Open
<1>2. TypeOK
  <2>1. data \in [Cluster -> [Within -> Byte]]
    BY VolumeAssumption DEF Init
  <2>2. file \in [Slot -> OpenFile \cup {Free}]
    BY DEF Init
  <2>3. call \in [op : {"none", "read", "write"}, slot : Slot \cup {Free},
                  left : 0 .. MaxCount, bytes : Chunk]
    BY VolumeAssumption, EmptyChunk DEF Init, NoCall
  <2>4. reply \in [result : {"none", "success", "failure", "end_of_file"}, bytes : Chunk]
    BY EmptyChunk DEF Init, Answer
  <2> QED
    BY <2>1, <2>2, <2>3, <2>4 DEF TypeOK, Chunk
<1>3. Calls
  BY DEF Init, NoCall, Calls, Idle
<1> QED
  BY <1>1, <1>2, <1>3, InStepIs DEF FatInv

\* What is left to show of a call that begins or ends, or answers at once.
LEMMA FilesKeep ==
  ASSUME FatInv, file' \in [Slot -> OpenFile \cup {Free}],
         data' = data \/ data' \in [Cluster -> [Within -> Byte]],
         \A s \in Open' : Held(file'[s]),
         call' \in [op : {"none", "read", "write"}, slot : Slot \cup {Free},
                    left : 0 .. MaxCount, bytes : Chunk],
         reply' \in [result : {"none", "success", "failure", "end_of_file"}, bytes : Chunk],
         Calls'
  PROVE  FatInv'
<1>1. TypeOK'
  BY DEF FatInv, InStep, TypeOK, Chunk
<1>2. \A s \in Open' : Held(file[s])'
  BY DEF Held, Settled, UsedUp
<1>3. InStep'
  BY <1>1, <1>2 DEF InStep, Held, Settled, UsedUp
<1> QED
  BY <1>3 DEF FatInv

LEMMA AnswerIs ==
  ASSUME NEW r \in {"none", "success", "failure", "end_of_file"}
  PROVE  Answer(r) \in [result : {"none", "success", "failure", "end_of_file"}, bytes : Chunk]
BY EmptyChunk DEF Answer

LEMMA FreshHolds ==
  ASSUME NEW n \in Name, NEW f,
         f = [name |-> n, current |-> head[n], position |-> 0, cluster_position |-> 0]
  PROVE  f \in OpenFile /\ Held(f) /\ f # Free
<1>1. /\ head[n] \in Cluster \cup {Eoc} /\ Length[n] \in Nat /\ ClusterBytes \in Nat \ {0}
      /\ Free \notin OpenFile
  BY VolumeAssumption
<1>2. f \in OpenFile /\ f.name = n /\ f.current = head[n] /\ f.position = 0 /\ f.cluster_position = 0
  BY <1>1 DEF OpenFile
<1>3. ASSUME 0 < Length[n] PROVE Settled(f)
  <2>1. ClusterOf[<<n, 0>>] = Follow(0 \div ClusterBytes, head[n])
    BY <1>3, PlaceHas
  <2>2. 0 \div ClusterBytes = 0 /\ 0 % ClusterBytes = 0
    BY <1>1
  <2> QED
    BY <1>2, <2>1, <2>2, FollowNone DEF Settled
<1> QED
  BY <1>1, <1>2, <1>3 DEF Held

LEMMA OpenKeeps ==
  ASSUME FatInv, NEW n \in Name, fs_file_open(n)
  PROVE  FatInv'
<1>1. Idle /\ data' = data /\ call' = call
  BY DEF fs_file_open
<1>2. TypeOK /\ \A s \in Open : Held(file[s])
  BY InStepIs DEF FatInv
<1>3. call' \in [op : {"none", "read", "write"}, slot : Slot \cup {Free},
                 left : 0 .. MaxCount, bytes : Chunk]
  BY <1>1, <1>2, TypesAre
<1>4. Calls'
  BY <1>1 DEF Idle, Calls
<1>5. CASE file' = file /\ reply' = Answer("failure")
  <2>1. reply' \in [result : {"none", "success", "failure", "end_of_file"}, bytes : Chunk]
    BY <1>5, AnswerIs
  <2>2. Open' = Open /\ \A s \in Open' : Held(file'[s])
    BY <1>2, <1>5 DEF Open
  <2>3. file' \in [Slot -> OpenFile \cup {Free}]
    BY <1>2, <1>5, TypesAre
  <2> QED
    BY <1>1, <1>3, <1>4, <2>1, <2>2, <2>3, FilesKeep
<1>6. ASSUME NEW s \in Slot \ Open, reply' = Answer("success"),
             file' = [file EXCEPT ![s] =
               [name |-> n, current |-> head[n], position |-> 0, cluster_position |-> 0]]
      PROVE  FatInv'
  <2> DEFINE f == [name |-> n, current |-> head[n], position |-> 0, cluster_position |-> 0]
  <2>1. f \in OpenFile /\ Held(f) /\ f # Free
    BY FreshHolds
  <2> HIDE DEF f
  <2>2. file' = [file EXCEPT ![s] = f]
    BY <1>6 DEF f
  <2>3. file \in [Slot -> OpenFile \cup {Free}]
    BY <1>2, TypesAre
  <2>4. file' \in [Slot -> OpenFile \cup {Free}]
    BY <2>1, <2>2, <2>3
  <2>5. \A t \in Open' : Held(file'[t])
    <3> SUFFICES ASSUME NEW t \in Open' PROVE Held(file'[t])
      OBVIOUS
    <3>1. CASE t = s
      BY <2>1, <2>2, <2>3, <3>1
    <3>2. CASE t # s
      <4>1. file'[t] = file[t] /\ t \in Open
        BY <2>2, <2>3, <3>2 DEF Open
      <4> QED
        BY <1>2, <4>1
    <3> QED
      BY <3>1, <3>2
  <2>6. reply' \in [result : {"none", "success", "failure", "end_of_file"}, bytes : Chunk]
    BY <1>6, AnswerIs
  <2> QED
    BY <1>1, <1>3, <1>4, <2>4, <2>5, <2>6, FilesKeep
<1> QED
  BY <1>5, <1>6 DEF fs_file_open

LEMMA CloseKeeps ==
  ASSUME FatInv, NEW s \in Open, fs_file_close(s)
  PROVE  FatInv'
<1>1. /\ Idle /\ data' = data /\ call' = call
      /\ file' = [file EXCEPT ![s] = Free] /\ reply' = Answer("success")
  BY DEF fs_file_close
<1>2. TypeOK /\ \A t \in Open : Held(file[t])
  BY InStepIs DEF FatInv
<1>3. /\ call' \in [op : {"none", "read", "write"}, slot : Slot \cup {Free},
                    left : 0 .. MaxCount, bytes : Chunk]
      /\ file \in [Slot -> OpenFile \cup {Free}]
  BY <1>1, <1>2, TypesAre
<1>4. file' \in [Slot -> OpenFile \cup {Free}]
  BY <1>1, <1>3
<1>5. \A t \in Open' : t \in Open /\ file'[t] = file[t]
  BY <1>1, <1>3 DEF Open
<1>6. \A t \in Open' : Held(file'[t])
  BY <1>2, <1>5
<1>7. Calls'
  BY <1>1 DEF Idle, Calls
<1>8. reply' \in [result : {"none", "success", "failure", "end_of_file"}, bytes : Chunk]
  BY <1>1, AnswerIs
<1> QED
  BY <1>1, <1>3, <1>4, <1>6, <1>7, <1>8, FilesKeep

\* Where a seek that is not refused goes.
LEMMA Accepted ==
  ASSUME NEW f \in OpenFile, NEW type \in {"beginning", "current", "end"}, NEW offset \in Offset,
         ~ Refused(f, type, offset)
  PROVE  Base(f, type) + offset \in Nat /\ Base(f, type) + offset < Length[f.name]
<1>1. /\ offset \in Int /\ f.position \in Nat /\ f.name \in Name /\ Length[f.name] \in Nat
  BY VolumeAssumption DEF OpenFile
<1>2. Base(f, type) \in Nat /\ (type = "beginning" => Base(f, type) = 0)
  BY <1>1 DEF Base
<1> QED
  BY <1>1, <1>2 DEF Refused

LEMMA SeekKeeps ==
  ASSUME FatInv, NEW s \in Open, NEW type \in {"beginning", "current", "end"}, NEW offset \in Offset,
         fs_file_seek(s, type, offset)
  PROVE  FatInv'
<1>1. Idle /\ data' = data /\ call' = call
  BY DEF fs_file_seek
<1>2. TypeOK /\ \A t \in Open : Held(file[t])
  BY InStepIs DEF FatInv
<1>3. /\ call' \in [op : {"none", "read", "write"}, slot : Slot \cup {Free},
                    left : 0 .. MaxCount, bytes : Chunk]
      /\ file \in [Slot -> OpenFile \cup {Free}]
      /\ s \in Slot /\ file[s] \in OpenFile
  BY <1>1, <1>2, TypesAre
<1>4. Calls'
  BY <1>1 DEF Idle, Calls
<1>5. CASE file' = file /\ reply' = Answer("failure")
  <2>1. reply' \in [result : {"none", "success", "failure", "end_of_file"}, bytes : Chunk]
    BY <1>5, AnswerIs
  <2>2. Open' = Open /\ \A t \in Open' : Held(file'[t])
    BY <1>2, <1>5 DEF Open
  <2> QED
    BY <1>1, <1>3, <1>4, <1>5, <2>1, <2>2, FilesKeep
<1>6. CASE /\ ~ Refused(file[s], type, offset)
           /\ file' = [file EXCEPT ![s] = Arrive(@, Base(@, type) + offset)]
           /\ reply' = Answer("success")
  <2> DEFINE p == Base(file[s], type) + offset
             a == Arrive(file[s], p)
  <2>1. p \in Nat /\ p < Length[file[s].name]
    BY <1>3, <1>6, Accepted
  <2>2. file' = [file EXCEPT ![s] = a]
    BY <1>3, <1>6
  <2> HIDE DEF p
  <2>3. a \in OpenFile /\ a.name = file[s].name /\ a.position = p /\ Settled(a)
    BY <1>2, <1>3, <2>1, ArriveHolds
  <2> HIDE DEF a
  <2>4. Held(a)
    <3>1. Length[file[s].name] \in Nat
      BY <1>3, VolumeAssumption DEF OpenFile
    <3> QED
      BY <2>1, <2>3, <3>1 DEF Held
  <2>5. file' \in [Slot -> OpenFile \cup {Free}]
    BY <1>3, <2>2, <2>3
  <2>6. \A t \in Open' : Held(file'[t])
    <3> SUFFICES ASSUME NEW t \in Open' PROVE Held(file'[t])
      OBVIOUS
    <3>1. CASE t = s
      BY <1>3, <2>2, <2>4, <3>1
    <3>2. CASE t # s
      <4>1. file'[t] = file[t] /\ t \in Open
        BY <1>3, <2>2, <3>2 DEF Open
      <4> QED
        BY <1>2, <4>1
    <3> QED
      BY <3>1, <3>2
  <2>7. reply' \in [result : {"none", "success", "failure", "end_of_file"}, bytes : Chunk]
    BY <1>6, AnswerIs
  <2> QED
    BY <1>1, <1>3, <1>4, <2>5, <2>6, <2>7, FilesKeep
<1> QED
  BY <1>5, <1>6 DEF fs_file_seek

LEMMA BeginKeeps ==
  ASSUME FatInv, NEW s \in Open, NEW op \in {"read", "write"}, NEW count \in 1 .. MaxCount,
         NEW bytes \in Chunk, op = "write" => Len(bytes) = count,
         call' = [op |-> op, slot |-> s, left |-> count, bytes |-> bytes],
         reply' = Answer("none"), UNCHANGED <<data, file>>
  PROVE  FatInv'
<1>1. TypeOK /\ \A t \in Open : Held(file[t])
  BY InStepIs DEF FatInv
<1>2. file \in [Slot -> OpenFile \cup {Free}] /\ s \in Slot
  BY <1>1, TypesAre
<1>3. MaxCount \in Nat
  BY VolumeAssumption
<1>4. Open' = Open
  BY DEF Open
<1>5. call' \in [op : {"none", "read", "write"}, slot : Slot \cup {Free},
                 left : 0 .. MaxCount, bytes : Chunk]
  BY <1>2, <1>3
<1>6. reply' \in [result : {"none", "success", "failure", "end_of_file"}, bytes : Chunk]
  BY AnswerIs
<1>7. Calls'
  BY <1>3, <1>4 DEF Calls, Answer
<1> QED
  BY <1>1, <1>2, <1>4, <1>5, <1>6, <1>7, FilesKeep

LEMMA ReturnKeeps ==
  ASSUME FatInv, Return
  PROVE  FatInv'
<1>1. call' = NoCall /\ UNCHANGED <<data, file>>
  BY DEF Return
<1>2. TypeOK /\ \A t \in Open : Held(file[t])
  BY InStepIs DEF FatInv
<1>3. /\ file \in [Slot -> OpenFile \cup {Free}]
      /\ reply \in [result : {"none", "success", "failure", "end_of_file"}, bytes : Chunk]
  BY <1>2, TypesAre
<1>4. Open' = Open
  BY <1>1 DEF Open
<1>5. call' \in [op : {"none", "read", "write"}, slot : Slot \cup {Free},
                 left : 0 .. MaxCount, bytes : Chunk]
  BY <1>1, EmptyChunk, VolumeAssumption DEF NoCall
<1>6. reply' \in [result : {"none", "success", "failure", "end_of_file"}, bytes : Chunk]
  BY <1>3 DEF Return
<1>7. Calls'
  BY <1>1 DEF Calls, NoCall, Idle
<1> QED
  BY <1>1, <1>2, <1>3, <1>4, <1>5, <1>6, <1>7, FilesKeep

\* What a turn does, over and above the position.
Turned(s, k) ==
  /\ s \in Open /\ file[s] \in OpenFile /\ Held(file[s])
  /\ Turn(file[s], k) /\ call.left \in Nat /\ call.left <= MaxCount /\ call.left > 0
  /\ file[s].current \in Cluster /\ file[s].position < Length[file[s].name]
  /\ file' = [file EXCEPT ![s] = Advance(file[s], k)]
  /\ Advance(file[s], k) \in OpenFile /\ Held(Advance(file[s], k))
  /\ Advance(file[s], k).name = file[s].name
  /\ Advance(file[s], k).position = file[s].position + k

LEMMA TransferTurns ==
  ASSUME FatInv, Transfer
  PROVE  Turned(call.slot, Count(file[call.slot]))
<1> DEFINE s == call.slot
           f == file[s]
           k == Count(f)
<1>1. TypeOK /\ (\A t \in Open : Held(file[t])) /\ Calls
  BY InStepIs DEF FatInv
<1>2. call.left > 0 /\ ~ AtEnd(f) /\ file' = [file EXCEPT ![s] = Advance(f, k)] /\ ~ Idle
  BY DEF Transfer, Idle
<1>3. s \in Open
  BY <1>1, <1>2 DEF Calls
<1>4. f \in OpenFile /\ Held(f) /\ call.left \in Nat /\ call.left <= MaxCount
  BY <1>1, <1>3, TypesAre
<1> HIDE DEF f
<1>5. /\ Turn(f, k) /\ f.current \in Cluster /\ f.position < Length[f.name]
      /\ k = ClusterBytes - f.cluster_position \/ k = call.left \/ k = Length[f.name] - f.position
  BY <1>2, <1>4, TurnIs
<1> HIDE DEF k
<1>6. /\ Advance(f, k) \in OpenFile /\ Held(Advance(f, k))
      /\ Advance(f, k).name = f.name /\ Advance(f, k).position = f.position + k
  BY <1>2, <1>4, <1>5, AdvanceHolds
<1> QED
  BY <1>2, <1>3, <1>4, <1>5, <1>6 DEF Turned, f, k

\* The bytes a turn of a read takes, and those a turn of a write leaves.
LEMMA TakenAre ==
  ASSUME NEW b \in [Within -> Byte], NEW o \in Nat, NEW k \in Nat, o + k <= ClusterBytes
  PROVE  LET t == [i \in 1 .. k |-> b[o + i - 1]] IN t \in Seq(Byte) /\ Len(t) = k
<1> DEFINE t == [i \in 1 .. k |-> b[o + i - 1]]
<1>1. ClusterBytes \in Nat
  BY VolumeAssumption
<1>2. ASSUME NEW i \in 1 .. k PROVE b[o + i - 1] \in Byte
  <2>1. o + i - 1 \in Within
    BY <1>1 DEF Within
  <2> QED
    BY <2>1
<1>3. t \in [1 .. k -> Byte]
  BY <1>2
<1> HIDE DEF t
<1>4. t \in Seq(Byte) /\ Len(t) = k
  BY <1>3
<1> QED
  BY <1>4 DEF t

LEMMA LeftAre ==
  ASSUME NEW b \in Seq(Byte), NEW k \in Nat, k <= Len(b)
  PROVE  LET r == SubSeq(b, k + 1, Len(b)) IN
         /\ r \in Seq(Byte) /\ Len(r) = Len(b) - k
         /\ \A i \in 1 .. k : b[i] \in Byte
         /\ k = 0 => r = b
<1>1. Len(b) \in Nat /\ k + 1 \in 1 .. Len(b) + 1
  BY LenProperties
<1>2. SubSeq(b, k + 1, Len(b)) \in Seq(Byte) /\ Len(SubSeq(b, k + 1, Len(b))) = Len(b) - k
  BY <1>1, SubSeqProperties
<1>3. k = 0 => SubSeq(b, k + 1, Len(b)) = b
  BY <1>1
<1>4. \A i \in 1 .. k : b[i] \in Byte
  BY <1>1
<1> QED
  BY <1>2, <1>3, <1>4

LEMMA TransferKeeps ==
  ASSUME FatInv, Transfer
  PROVE  FatInv'
<1> DEFINE s == call.slot
           f == file[s]
           k == Count(f)
           o == f.cluster_position
<1>1. TypeOK /\ (\A t \in Open : Held(file[t])) /\ Calls
  BY InStepIs DEF FatInv
<1>2. Turned(s, k)
  BY TransferTurns
<1>3. /\ file \in [Slot -> OpenFile \cup {Free}]
      /\ data \in [Cluster -> [Within -> Byte]]
      /\ call \in [op : {"none", "read", "write"}, slot : Slot \cup {Free},
                   left : 0 .. MaxCount, bytes : Chunk]
      /\ reply \in [result : {"none", "success", "failure", "end_of_file"}, bytes : Chunk]
      /\ s \in Slot /\ s \in Open /\ MaxCount \in Nat
  BY <1>1, <1>2, TypesAre, VolumeAssumption DEF Turned
<1>4. /\ \/ /\ call.op = "read"
            /\ reply' = [reply EXCEPT !.bytes =
                 @ \o [i \in 1 .. k |-> data[f.current][o + i - 1]]]
            /\ call' = [call EXCEPT !.left = @ - k]
            /\ UNCHANGED data
         \/ /\ call.op = "write"
            /\ data' = [data EXCEPT ![f.current] =
                 [x \in Within |-> IF x \in o .. o + k - 1
                                   THEN call.bytes[x - o + 1] ELSE @[x]]]
            /\ call' = [call EXCEPT !.left = @ - k,
                                    !.bytes = SubSeq(@, k + 1, Len(@))]
            /\ UNCHANGED reply
  BY Zenon DEF Transfer
<1>5. /\ k \in Nat /\ k <= call.left /\ o \in Nat /\ o + k <= ClusterBytes /\ f.current \in Cluster
      /\ call.left \in Nat /\ call.left <= MaxCount /\ ClusterBytes \in Nat
  BY <1>2, VolumeAssumption DEF Turned, Turn
<1> HIDE DEF k
<1>6. file' \in [Slot -> OpenFile \cup {Free}]
  BY <1>2, <1>3 DEF Turned
<1>7. \A t \in Open' : Held(file'[t])
  <2> DEFINE a == Advance(f, k)
  <2>1. file' = [file EXCEPT ![s] = a] /\ a \in OpenFile /\ Held(a)
    BY <1>2 DEF Turned
  <2> HIDE DEF a
  <2> SUFFICES ASSUME NEW t \in Open' PROVE Held(file'[t])
    OBVIOUS
  <2>2. CASE t = s
    BY <1>3, <2>1, <2>2
  <2>3. CASE t # s
    <3>1. file'[t] = file[t] /\ t \in Open
      BY <1>3, <2>1, <2>3 DEF Open
    <3> QED
      BY <1>1, <3>1
  <2> QED
    BY <2>2, <2>3
<1>8. s \in Open'
  <2>1. Advance(f, k) \in OpenFile /\ file'[s] = Advance(f, k) /\ Free \notin OpenFile
    BY <1>2, <1>3, VolumeAssumption DEF Turned
  <2> QED
    BY <1>3, <2>1 DEF Open
<1> HIDE DEF s, f, o
<1>9. CASE call.op = "read"
  <2> DEFINE t == [i \in 1 .. k |-> data[f.current][o + i - 1]]
  <2>1. /\ reply' = [reply EXCEPT !.bytes = @ \o t]
        /\ call' = [call EXCEPT !.left = @ - k]
        /\ data' = data
    BY <1>4, <1>9
  <2>2. t \in Seq(Byte) /\ Len(t) = k
    <3> DEFINE b == data[f.current]
    <3>1. b \in [Within -> Byte]
      BY <1>3, <1>5
    <3> HIDE DEF b
    <3>2. LET u == [i \in 1 .. k |-> b[o + i - 1]] IN u \in Seq(Byte) /\ Len(u) = k
      BY <1>5, <3>1, TakenAre
    <3> QED
      BY <3>2 DEF b
  <2> HIDE DEF t
  <2>3. reply.bytes \in Seq(Byte) /\ Len(reply.bytes) \in Nat /\ Len(reply.bytes) + call.left <= MaxCount
    BY <1>1, <1>3, <1>9, ChunkIs DEF Calls
  <2>4. reply.bytes \o t \in Seq(Byte) /\ Len(reply.bytes \o t) = Len(reply.bytes) + k
    BY <2>2, <2>3
  <2>5. reply.bytes \o t \in Chunk
    <3>1. Len(reply.bytes \o t) <= MaxCount
      BY <1>3, <1>5, <2>3, <2>4
    <3> QED
      BY <2>4, <3>1, ChunkIs, Zenon
  <2>6. reply'.bytes = reply.bytes \o t
    BY <1>3, <2>1
  <2>7. reply' \in [result : {"none", "success", "failure", "end_of_file"}, bytes : Chunk]
    BY <1>3, <2>1, <2>5
  <2>8. call' \in [op : {"none", "read", "write"}, slot : Slot \cup {Free},
                   left : 0 .. MaxCount, bytes : Chunk]
    <3>1. call.left - k \in 0 .. MaxCount
      BY <1>3, <1>5
    <3> QED
      BY <1>3, <2>1, <3>1
  <2>9. call'.left = call.left - k /\ call'.op = "read" /\ call'.slot = s
    BY <1>3, <1>9, <2>1 DEF s
  <2>10. Calls'
    BY <1>5, <1>8, <2>3, <2>4, <2>6, <2>9 DEF Calls
  <2> QED
    BY <1>6, <1>7, <2>1, <2>7, <2>8, <2>10, FilesKeep
<1>10. CASE call.op = "write"
  <2> DEFINE w == [x \in Within |-> IF x \in o .. o + k - 1
                                    THEN call.bytes[x - o + 1] ELSE data[f.current][x]]
             r == SubSeq(call.bytes, k + 1, Len(call.bytes))
  <2>1. /\ data' = [data EXCEPT ![f.current] = w]
        /\ call' = [call EXCEPT !.left = @ - k, !.bytes = r]
        /\ reply' = reply
    BY <1>3, <1>4, <1>5, <1>10
  <2>2. call.bytes \in Seq(Byte) /\ Len(call.bytes) = call.left /\ call.bytes \in Chunk
    BY <1>1, <1>3, <1>10, ChunkIs DEF Calls
  <2>3. r \in Seq(Byte) /\ Len(r) = call.left - k /\ \A i \in 1 .. k : call.bytes[i] \in Byte
    BY <1>5, <2>2, LeftAre
  <2> HIDE DEF r
  <2>4. r \in Chunk
    BY <1>3, <1>5, <2>3, ChunkIs
  <2>5. w \in [Within -> Byte]
    <3> SUFFICES ASSUME NEW x \in Within
                 PROVE  (IF x \in o .. o + k - 1 THEN call.bytes[x - o + 1] ELSE data[f.current][x]) \in Byte
      OBVIOUS
    <3>1. CASE x \in o .. o + k - 1
      <4>1. x - o + 1 \in 1 .. k
        BY <1>5, <3>1
      <4> QED
        BY <2>3, <3>1, <4>1
    <3> QED
      BY <1>3, <1>5, <3>1
  <2> HIDE DEF w
  <2>6. data' \in [Cluster -> [Within -> Byte]]
    BY <1>3, <2>1, <2>5
  <2>7. call' \in [op : {"none", "read", "write"}, slot : Slot \cup {Free},
                   left : 0 .. MaxCount, bytes : Chunk]
    <3>1. call.left - k \in 0 .. MaxCount
      BY <1>3, <1>5
    <3> QED
      BY <1>3, <2>1, <2>4, <3>1
  <2>8. call'.left = call.left - k /\ call'.op = "write" /\ call'.slot = s /\ call'.bytes = r
    BY <1>3, <1>10, <2>1 DEF s
  <2>9. Calls'
    BY <1>8, <2>3, <2>8 DEF Calls
  <2> QED
    BY <1>3, <1>6, <1>7, <2>1, <2>6, <2>7, <2>9, FilesKeep
<1> QED
  BY <1>4, <1>9, <1>10

LEMMA StutterKeeps ==
  ASSUME FatInv, UNCHANGED vars
  PROVE  FatInv'
BY DEF FatInv, InStep, TypeOK, Calls, Idle, Open, vars

LEMMA NextKeeps ==
  ASSUME FatInv, [Next]_vars
  PROVE  FatInv'
<1>1. CASE \E n \in Name : fs_file_open(n)
  BY <1>1, OpenKeeps
<1>2. CASE \E s \in Open : fs_file_close(s)
  BY <1>2, CloseKeeps
<1>3. CASE \E s \in Open, type \in {"beginning", "current", "end"}, offset \in Offset :
             fs_file_seek(s, type, offset)
  BY <1>3, SeekKeeps
<1>4. CASE \E s \in Open, count \in 1 .. MaxCount : fs_file_read(s, count)
  <2>1. PICK s \in Open, count \in 1 .. MaxCount : fs_file_read(s, count)
    BY <1>4
  <2> QED
    BY <2>1, EmptyChunk, BeginKeeps DEF fs_file_read
<1>5. CASE \E s \in Open, count \in 1 .. MaxCount :
             \E bytes \in [1 .. count -> Byte] : fs_file_write(s, bytes)
  <2>1. PICK s \in Open, count \in 1 .. MaxCount :
               \E bytes \in [1 .. count -> Byte] : fs_file_write(s, bytes)
    BY <1>5
  <2>2. PICK bytes \in [1 .. count -> Byte] : fs_file_write(s, bytes)
    BY <2>1
  <2>3. MaxCount \in Nat
    BY VolumeAssumption
  <2>4. bytes \in Seq(Byte) /\ Len(bytes) = count /\ Len(bytes) <= MaxCount
    BY <2>3
  <2>5. bytes \in Chunk
    BY <2>4, ChunkIs
  <2> QED
    BY <2>2, <2>4, <2>5, BeginKeeps DEF fs_file_write
<1>6. CASE Transfer
  BY <1>6, TransferKeeps
<1>7. CASE Return
  BY <1>7, ReturnKeeps
<1>8. CASE UNCHANGED vars
  BY <1>8, StutterKeeps
<1> QED
  BY <1>1, <1>2, <1>3, <1>4, <1>5, <1>6, <1>7, <1>8 DEF Next

\* On any volume whose directory and allocation table agree, after any seeks, reads and writes, an open file
\* has the cluster and the offset of its position, or the far end of the cluster before it
\* (file_system.c:294-370, 427-434, 505-510).
THEOREM FilesStayInStep == Spec => []InStep
<1>1. Init => FatInv
  BY InitHolds
<1>2. FatInv /\ [Next]_vars => FatInv'
  BY NextKeeps
<1>3. FatInv => InStep
  BY DEF FatInv
<1> QED
  BY <1>1, <1>2, <1>3, PTL DEF Spec

----------------------------------------------------------------------------
(* The refinement of the flat files *)

Opened == [s \in Slot |-> IF file[s] = Free THEN Free ELSE file[s].name]
Position == [s \in Slot |-> IF file[s] = Free THEN 0 ELSE file[s].position]
Content == [x \in Place |-> data[ClusterOf[x]][x[2] % ClusterBytes]]

LEMMA InitRefines ==
  ASSUME Init
  PROVE  Flat!Init
<1>1. data \in [Cluster -> [Within -> Byte]] /\ ClusterBytes \in Nat \ {0}
  BY VolumeAssumption DEF Init
<1>2. ASSUME NEW x \in Place PROVE data[ClusterOf[x]][x[2] % ClusterBytes] \in Byte
  <2>1. ClusterOf[x] \in Cluster
    BY VolumeAssumption
  <2>2. x[2] % ClusterBytes \in Within
    BY <1>1, PlaceAre DEF Within
  <2> QED
    BY <1>1, <2>1, <2>2
<1>3. Content \in [Place -> Byte]
  BY <1>2 DEF Content
<1>4. Opened = [s \in Slot |-> Free] /\ Position = [s \in Slot |-> 0]
  BY DEF Init, Opened, Position
<1>5. call = NoCall /\ reply = Answer("none")
  BY DEF Init
<1> QED
  BY <1>3, <1>4, <1>5
     DEF Flat!Init, Flat!Place, Place, Flat!NoCall, NoCall, Flat!Answer, Answer, Content, Opened, Position

\* One slot changes.
LEMMA SlotChanges ==
  ASSUME file \in [Slot -> OpenFile \cup {Free}], NEW s \in Slot, NEW f \in OpenFile \cup {Free},
         file' = [file EXCEPT ![s] = f]
  PROVE  /\ Opened' = [Opened EXCEPT ![s] = IF f = Free THEN Free ELSE f.name]
         /\ Position' = [Position EXCEPT ![s] = IF f = Free THEN 0 ELSE f.position]
<1>1. Opened' = [t \in Slot |-> IF file'[t] = Free THEN Free ELSE file'[t].name]
  BY DEF Opened
<1>2. Position' = [t \in Slot |-> IF file'[t] = Free THEN 0 ELSE file'[t].position]
  BY DEF Position
<1>3. \A t \in Slot : file'[t] = IF t = s THEN f ELSE file[t]
  OBVIOUS
<1> QED
  BY <1>1, <1>2, <1>3 DEF Opened, Position

LEMMA SlotIs ==
  ASSUME TypeOK, NEW s \in Slot
  PROVE  /\ s \in Open => /\ Opened[s] = file[s].name /\ Opened[s] # Free
                          /\ Opened[s] \in Name /\ Position[s] = file[s].position
         /\ s \notin Open => Opened[s] = Free
<1>1. \A t \in Open : file[t] \in OpenFile
  BY TypesAre
<1>2. Free \notin Name
  BY VolumeAssumption
<1> QED
  BY <1>1, <1>2 DEF Open, Opened, Position, OpenFile

LEMMA RefusalRefines ==
  ASSUME Idle, reply' = Answer("failure"), UNCHANGED <<data, file, call>>
  PROVE  Flat!Next
<1>1. Opened' = Opened /\ Position' = Position /\ Content' = Content
  BY DEF Opened, Position, Content
<1>2. Flat!Refuse
  BY <1>1 DEF Flat!Refuse, Flat!Idle, Idle, Flat!Answer, Answer, Content, Opened, Position
<1> QED
  BY <1>2 DEF Flat!Next

LEMMA OpenRefines ==
  ASSUME TypeOK, NEW n \in Name, fs_file_open(n)
  PROVE  Flat!Next
<1>1. Idle /\ data' = data /\ call' = call
  BY DEF fs_file_open
<1>2. CASE file' = file /\ reply' = Answer("failure")
  BY <1>1, <1>2, RefusalRefines
<1>3. ASSUME NEW s \in Slot \ Open, reply' = Answer("success"),
             file' = [file EXCEPT ![s] =
               [name |-> n, current |-> head[n], position |-> 0, cluster_position |-> 0]]
      PROVE  Flat!Next
  <2> DEFINE f == [name |-> n, current |-> head[n], position |-> 0, cluster_position |-> 0]
  <2>1. f \in OpenFile /\ f # Free /\ f.name = n /\ f.position = 0
    BY FreshHolds
  <2>2. file' = [file EXCEPT ![s] = f]
    BY <1>3
  <2> HIDE DEF f
  <2>3. Opened' = [Opened EXCEPT ![s] = n] /\ Position' = [Position EXCEPT ![s] = 0]
    BY <2>1, <2>2, SlotChanges, TypesAre
  <2>4. Opened[s] = Free /\ Content' = Content
    BY <1>1, SlotIs DEF Content
  <2>5. Flat!Open(s, n)
    BY <1>1, <1>3, <2>3, <2>4 DEF Flat!Open, Flat!Idle, Idle, Flat!Answer, Answer, Content, Opened, Position
  <2> QED
    BY <2>5 DEF Flat!Next
<1> QED
  BY <1>2, <1>3 DEF fs_file_open

LEMMA CloseRefines ==
  ASSUME TypeOK, NEW s \in Open, fs_file_close(s)
  PROVE  Flat!Next
<1>1. /\ Idle /\ data' = data /\ call' = call
      /\ file' = [file EXCEPT ![s] = Free] /\ reply' = Answer("success")
  BY DEF fs_file_close
<1>2. s \in Slot /\ file \in [Slot -> OpenFile \cup {Free}]
  BY TypesAre
<1>3. Opened' = [Opened EXCEPT ![s] = Free] /\ Position' = [Position EXCEPT ![s] = 0]
  BY <1>1, <1>2, SlotChanges
<1>4. Opened[s] # Free /\ Content' = Content
  BY <1>1, <1>2, SlotIs DEF Content
<1>5. Flat!Close(s)
  BY <1>1, <1>3, <1>4 DEF Flat!Close, Flat!Idle, Idle, Flat!Answer, Answer, Content, Opened, Position
<1> QED
  BY <1>2, <1>5 DEF Flat!Next

LEMMA SeekIsNext ==
  ASSUME NEW s \in Slot, Opened[s] # Free, NEW p \in 0 .. Length[Opened[s]] - 1, Flat!Seek(s, p)
  PROVE  Flat!Next
BY Zenon DEF Flat!Next, Opened

LEMMA MoveIsNext ==
  ASSUME NEW k \in 1 .. MaxCount, Flat!Move(k)
  PROVE  Flat!Next
BY Zenon DEF Flat!Next

LEMMA SeekRefines ==
  ASSUME FatInv, NEW s \in Open, NEW type \in {"beginning", "current", "end"}, NEW offset \in Offset,
         fs_file_seek(s, type, offset)
  PROVE  Flat!Next
<1>1. Idle /\ data' = data /\ call' = call
  BY DEF fs_file_seek
<1>2. TypeOK /\ \A t \in Open : Held(file[t])
  BY InStepIs DEF FatInv
<1>3. file \in [Slot -> OpenFile \cup {Free}] /\ s \in Slot /\ file[s] \in OpenFile
  BY <1>2, TypesAre
<1>4. CASE file' = file /\ reply' = Answer("failure")
  BY <1>1, <1>4, RefusalRefines
<1>5. CASE /\ ~ Refused(file[s], type, offset)
           /\ file' = [file EXCEPT ![s] = Arrive(@, Base(@, type) + offset)]
           /\ reply' = Answer("success")
  <2>0. PICK p : p = Base(file[s], type) + offset
    OBVIOUS
  <2> DEFINE a == Arrive(file[s], p)
  <2>1. p \in Nat /\ p < Length[file[s].name]
    BY <1>3, <1>5, <2>0, Accepted
  <2>2. file' = [file EXCEPT ![s] = a]
    BY <1>3, <1>5, <2>0
  <2>3. a \in OpenFile /\ a.name = file[s].name /\ a.position = p /\ a # Free
    BY <1>2, <1>3, <2>1, ArriveHolds, VolumeAssumption
  <2> HIDE DEF a
  <2>4. Opened' = [Opened EXCEPT ![s] = file[s].name] /\ Position' = [Position EXCEPT ![s] = p]
    <3>1. a \in OpenFile \cup {Free}
      BY <2>3
    <3>2. /\ Opened' = [Opened EXCEPT ![s] = IF a = Free THEN Free ELSE a.name]
          /\ Position' = [Position EXCEPT ![s] = IF a = Free THEN 0 ELSE a.position]
      BY <1>3, <2>2, <3>1, SlotChanges
    <3> QED
      BY <2>3, <3>2
  <2>5. Opened[s] = file[s].name /\ Opened[s] # Free /\ Opened[s] \in Name
    BY <1>2, <1>3, SlotIs
  <2>6. Opened' = Opened
    <3>1. Opened = [t \in Slot |-> Opened[t]]
      BY DEF Opened
    <3> QED
      BY <2>4, <2>5, <3>1
  <2>7. p \in 0 .. Length[Opened[s]] - 1
    BY <2>1, <2>5, VolumeAssumption
  <2>8. Content' = Content
    BY <1>1 DEF Content
  <2>9. Flat!Seek(s, p)
    BY <1>1, <1>5, <2>4, <2>5, <2>6, <2>8
       DEF Flat!Seek, Flat!Idle, Idle, Flat!Answer, Answer, Content, Opened, Position
  <2> QED
    BY <1>3, <2>5, <2>7, <2>9, SeekIsNext
<1> QED
  BY <1>4, <1>5 DEF fs_file_seek

LEMMA BeginRefines ==
  ASSUME TypeOK, NEW s \in Open, NEW op, NEW count, NEW bytes, Idle,
         call' = [op |-> op, slot |-> s, left |-> count, bytes |-> bytes],
         reply' = Answer("none"), UNCHANGED <<data, file>>
  PROVE  Flat!Begin(op, s, count, bytes) /\ s \in Slot
<1>1. s \in Slot
  BY TypesAre
<1>2. Opened[s] # Free /\ Opened' = Opened /\ Position' = Position /\ Content' = Content
  BY <1>1, SlotIs DEF Opened, Position, Content
<1> QED
  BY <1>1, <1>2 DEF Flat!Begin, Flat!Idle, Idle, Flat!Answer, Answer, Content, Opened, Position

LEMMA ReadRefines ==
  ASSUME TypeOK, NEW s \in Open, NEW count \in 1 .. MaxCount, fs_file_read(s, count)
  PROVE  Flat!Next
<1>1. Flat!Begin("read", s, count, <<>>) /\ s \in Slot
  BY BeginRefines DEF fs_file_read
<1> QED
  BY <1>1 DEF Flat!Next

LEMMA WriteRefines ==
  ASSUME TypeOK, NEW s \in Open, NEW count \in 1 .. MaxCount, NEW bytes \in [1 .. count -> Byte],
         fs_file_write(s, bytes)
  PROVE  Flat!Next
<1> DEFINE b == [i \in 1 .. MaxCount |-> IF i <= count THEN bytes[i] ELSE bytes[1]]
<1>1. MaxCount \in Nat /\ count \in Nat /\ count >= 1 /\ count <= MaxCount
  BY VolumeAssumption
<1>2. bytes \in Seq(Byte) /\ Len(bytes) = count
  BY <1>1
<1>3. Flat!Begin("write", s, count, bytes) /\ s \in Slot
  BY <1>2, BeginRefines DEF fs_file_write
<1>4. b \in [1 .. MaxCount -> Byte]
  BY <1>1
<1>5. SubSeq(b, 1, count) = bytes
  <2>1. b \in Seq(Byte) /\ Len(b) = MaxCount
    BY <1>1, <1>4
  <2>2. /\ SubSeq(b, 1, count) \in Seq(Byte) /\ Len(SubSeq(b, 1, count)) = count
        /\ \A i \in 1 .. count : SubSeq(b, 1, count)[i] = b[i]
    BY <1>1, <2>1, SubSeqProperties
  <2>3. \A i \in 1 .. count : b[i] = bytes[i]
    BY <1>1
  <2> HIDE DEF b
  <2> QED
    BY <1>2, <2>2, <2>3, SeqEqual
<1> HIDE DEF b
<1>6. \E d \in [1 .. MaxCount -> Byte] : Flat!Begin("write", s, count, SubSeq(d, 1, count))
  BY <1>3, <1>4, <1>5
<1> QED
  BY <1>3, <1>6 DEF Flat!Next

LEMMA ReturnRefines ==
  ASSUME FatInv, Return
  PROVE  Flat!Next
<1>1. call' = NoCall /\ UNCHANGED <<data, file>> /\ ~ Idle
  BY DEF Return
<1>2. TypeOK /\ Calls /\ \A t \in Open : Held(file[t])
  BY InStepIs DEF FatInv
<1>3. Opened' = Opened /\ Position' = Position /\ Content' = Content
  BY <1>1 DEF Opened, Position, Content
<1> DEFINE s == call.slot
<1>4. s \in Open /\ s \in Slot /\ file[s] \in OpenFile
  BY <1>1, <1>2, TypesAre DEF Calls
<1>5. Opened[s] = file[s].name /\ Position[s] = file[s].position
  BY <1>2, <1>4, SlotIs
<1>6. AtEnd(file[s]) => Position[s] = Length[Opened[s]]
  <2> SUFFICES ASSUME AtEnd(file[s]), file[s].position # Length[file[s].name] PROVE FALSE
    BY <1>5
  <2>1. file[s].position \in Nat /\ Length[file[s].name] \in Nat /\ file[s].name \in Name
        /\ ClusterBytes \in Nat \ {0}
    BY <1>4, VolumeAssumption DEF OpenFile
  <2>2. file[s].position < Length[file[s].name] /\ (Settled(file[s]) \/ UsedUp(file[s]))
    BY <1>2, <1>4, <2>1 DEF Held
  <2>3. CASE Settled(file[s])
    <3>1. file[s].current \in Cluster
      BY <2>1, <2>2, <2>3, PlaceHas DEF Settled
    <3> QED
      BY <3>1, VolumeAssumption DEF AtEnd
  <2>4. CASE UsedUp(file[s])
    <3>1. file[s].position - 1 \in Nat /\ file[s].position - 1 < Length[file[s].name]
      BY <2>1, <2>2, <2>4 DEF UsedUp
    <3>2. file[s].current \in Cluster
      BY <2>1, <2>4, <3>1, PlaceHas DEF UsedUp
    <3> QED
      BY <3>2, VolumeAssumption DEF AtEnd
  <2> QED
    BY <2>2, <2>3, <2>4
<1>7. \/ call.left = 0 /\ reply' = [reply EXCEPT !.result = "success"]
      \/ call.left > 0 /\ Position[s] = Length[Opened[s]] /\ reply' = [reply EXCEPT !.result = "end_of_file"]
  BY <1>6 DEF Return
<1>8. Flat!End
  BY <1>1, <1>3, <1>7 DEF Flat!End, Flat!Idle, Idle, Flat!NoCall, NoCall, Content, Opened, Position
<1> QED
  BY <1>8 DEF Flat!Next

\* A turn that only takes the next cluster is nothing to a flat file; any other moves its bytes.
LEMMA TransferRefines ==
  ASSUME FatInv, Transfer
  PROVE  Flat!Next \/ UNCHANGED Flat!vars
<1> DEFINE s == call.slot
           f == file[s]
           o == f.cluster_position
           p == f.position
           n == f.name
           B == ClusterBytes
<1>0. PICK k : k = Count(f)
  OBVIOUS
<1>1. TypeOK /\ (\A t \in Open : Held(file[t])) /\ Calls
  BY InStepIs DEF FatInv
<1>2. Turned(s, k)
  BY <1>0, TransferTurns
<1>3. /\ file \in [Slot -> OpenFile \cup {Free}]
      /\ data \in [Cluster -> [Within -> Byte]]
      /\ call \in [op : {"none", "read", "write"}, slot : Slot \cup {Free},
                   left : 0 .. MaxCount, bytes : Chunk]
      /\ reply \in [result : {"none", "success", "failure", "end_of_file"}, bytes : Chunk]
      /\ s \in Slot /\ s \in Open
  BY <1>1, <1>2, TypesAre DEF Turned
<1>4. /\ \/ /\ call.op = "read"
            /\ reply' = [reply EXCEPT !.bytes =
                 @ \o [i \in 1 .. k |-> data[f.current][o + i - 1]]]
            /\ call' = [call EXCEPT !.left = @ - k]
            /\ UNCHANGED data
         \/ /\ call.op = "write"
            /\ data' = [data EXCEPT ![f.current] =
                 [x \in Within |-> IF x \in o .. o + k - 1
                                   THEN call.bytes[x - o + 1] ELSE @[x]]]
            /\ call' = [call EXCEPT !.left = @ - k,
                                    !.bytes = SubSeq(@, k + 1, Len(@))]
            /\ UNCHANGED reply
  BY <1>0, Zenon DEF Transfer
<1>5. /\ k \in Nat /\ k <= call.left /\ o \in Nat /\ o + k <= B /\ f.current \in Cluster
      /\ call.left \in Nat /\ call.left <= MaxCount /\ MaxCount \in Nat
      /\ p \in Nat /\ n \in Name /\ p + k <= Length[n] /\ p < Length[n] /\ Length[n] \in Nat
      /\ f \in OpenFile /\ B \in Nat \ {0}
      /\ (k > 0 /\ Settled(f)) \/ (k = 0 /\ UsedUp(f))
  BY <1>2, VolumeAssumption DEF Turned, Turn, OpenFile
<1>6. Opened' = Opened /\ Position' = [Position EXCEPT ![s] = p + k]
  <2> DEFINE a == Advance(f, k)
  <2>1. file' = [file EXCEPT ![s] = a] /\ a \in OpenFile /\ a.name = n /\ a.position = p + k
    BY <1>2 DEF Turned
  <2> HIDE DEF a
  <2>2. a \in OpenFile \cup {Free} /\ a # Free
    BY <2>1, VolumeAssumption
  <2>3. /\ Opened' = [Opened EXCEPT ![s] = IF a = Free THEN Free ELSE a.name]
        /\ Position' = [Position EXCEPT ![s] = IF a = Free THEN 0 ELSE a.position]
    BY <1>3, <2>1, <2>2, SlotChanges
  <2>4. Opened = [Opened EXCEPT ![s] = n]
    <3>1. Opened[s] = n /\ Opened = [t \in Slot |-> Opened[t]]
      BY <1>1, <1>3, SlotIs DEF Opened
    <3> QED
      BY <3>1
  <2> QED
    BY <2>1, <2>2, <2>3, <2>4
<1>7. Opened[s] = n /\ Position[s] = p /\ Opened[s] \in Name
  BY <1>1, <1>3, SlotIs
<1>8. call.bytes \in Seq(Byte) /\ (call.op = "write" => Len(call.bytes) = call.left)
  BY <1>1, <1>3, ChunkIs DEF Calls
<1> HIDE DEF s, f, o, p, n
<1>9. CASE k = 0
  <2>1. Position' = Position
    <3>1. Position = [t \in Slot |-> Position[t]]
      BY DEF Position
    <3> QED
      BY <1>5, <1>6, <1>7, <1>9, <3>1
  <2>2. CASE call.op = "read"
    <3> DEFINE t == [i \in 1 .. k |-> data[f.current][o + i - 1]]
    <3>1. t = <<>>
      BY <1>9
    <3>2. reply.bytes \in Seq(Byte)
      BY <1>3, ChunkIs
    <3>3. reply.bytes \o t = reply.bytes
      BY <3>1, <3>2, ConcatEmptySeq
    <3> HIDE DEF t
    <3>4. reply' = [reply EXCEPT !.bytes = @ \o t] /\ call' = [call EXCEPT !.left = @ - k] /\ data' = data
      BY <1>4, <2>2 DEF t
    <3>5. reply' = reply /\ call' = call
      BY <1>3, <1>5, <1>9, <3>3, <3>4
    <3> QED
      BY <1>6, <2>1, <3>4, <3>5 DEF Flat!vars, Opened, Position
  <2>3. CASE call.op = "write"
    <3> DEFINE w == [x \in Within |-> IF x \in o .. o + k - 1
                                      THEN call.bytes[x - o + 1] ELSE data[f.current][x]]
               r == SubSeq(call.bytes, k + 1, Len(call.bytes))
    <3>1. /\ data' = [data EXCEPT ![f.current] = w]
          /\ call' = [call EXCEPT !.left = @ - k, !.bytes = r]
          /\ reply' = reply
      BY <1>3, <1>4, <1>5, <2>3
    <3>2. r = call.bytes
      BY <1>5, <1>8, <1>9, <2>3, LeftAre
    <3>3. w = data[f.current]
      <4>1. o .. o + k - 1 = {}
        BY <1>5, <1>9
      <4>2. w = [x \in Within |-> data[f.current][x]]
        BY <4>1
      <4> QED
        BY <1>3, <1>5, <4>2
    <3> HIDE DEF w, r
    <3>4. data' = data
      BY <1>3, <1>5, <3>1, <3>3
    <3>5. call' = call
      <4>1. call.left - k = call.left
        BY <1>5, <1>9
      <4> QED
        BY <1>3, <3>1, <3>2, <4>1
    <3> QED
      BY <1>6, <2>1, <3>1, <3>4, <3>5 DEF Flat!vars, Opened, Position
  <2> QED
    BY <1>4, <2>2, <2>3
<1>10. CASE k # 0
  <2>1. Settled(f) /\ k > 0
    BY <1>5, <1>10
  <2>2. f.current = ClusterOf[<<n, p>>] /\ o = p % B
    BY <2>1 DEF Settled, n, p, o
  <2>3. ASSUME NEW i \in 1 .. k
        PROVE  /\ <<n, p + (i - 1)>> \in Place
               /\ ClusterOf[<<n, p + (i - 1)>>] = f.current
               /\ (p + (i - 1)) % B = o + (i - 1)
    <3>1. i - 1 \in Nat /\ i - 1 < k /\ o + (i - 1) < B
      BY <1>5
    <3>2. (p + (i - 1)) \div B = p \div B /\ (p + (i - 1)) % B = o + (i - 1)
      <4>1. (p % ClusterBytes) + (i - 1) < ClusterBytes /\ (p % ClusterBytes) + (i - 1) <= ClusterBytes
        BY <1>5, <2>2, <3>1
      <4> QED
        BY <1>5, <2>2, <3>1, <4>1, Along
    <3>3. p + (i - 1) \in Nat /\ p + (i - 1) < Length[n]
      BY <1>5, <3>1
    <3>4. /\ <<n, p + (i - 1)>> \in Place
          /\ ClusterOf[<<n, p + (i - 1)>>] = Follow((p + (i - 1)) \div B, head[n])
      BY <1>5, <3>3, PlaceHas
    <3>5. ClusterOf[<<n, p>>] = Follow(p \div B, head[n])
      BY <1>5, PlaceHas
    <3> QED
      BY <2>2, <3>2, <3>4, <3>5
  <2> DEFINE At(i) == <<Opened[s], Position[s] + i>>
  <2>4. \A i : At(i) = <<n, p + i>>
    BY <1>7
  <2>5. k \in 1 .. MaxCount /\ Position[s] + k <= Length[Opened[s]] /\ ~ Idle /\ k <= call.left
    BY <1>4, <1>5, <1>7, <1>10 DEF Idle
  <2>6. CASE call.op = "read"
    <3> DEFINE t == [i \in 1 .. k |-> data[f.current][o + i - 1]]
               u == [i \in 1 .. k |-> Content[At(i - 1)]]
    <3>1. reply' = [reply EXCEPT !.bytes = @ \o t] /\ call' = [call EXCEPT !.left = @ - k] /\ data' = data
      BY <1>4, <2>6
    <3>2. ASSUME NEW i \in 1 .. k PROVE data[f.current][o + i - 1] = Content[At(i - 1)]
      <4>1. Content[<<n, p + (i - 1)>>] = data[f.current][(p + (i - 1)) % B]
        BY <2>3 DEF Content
      <4>2. o + i - 1 = o + (i - 1)
        BY <1>5
      <4> QED
        BY <2>3, <2>4, <4>1, <4>2
    <3>3. t = u
      BY <3>2
    <3> HIDE DEF t, u
    <3>4. reply' = [reply EXCEPT !.bytes = @ \o u]
      BY <3>1, <3>3
    <3>5. Content' = Content
      BY <3>1 DEF Content
    <3>6. Flat!Move(k)
      BY <1>6, <1>7, <2>5, <2>6, <3>1, <3>4, <3>5, Zenon
         DEF Flat!Move, Flat!Idle, Idle, Flat!At, u, s, Content, Opened, Position
    <3> QED
      BY <2>5, <3>6, MoveIsNext
  <2>7. CASE call.op = "write"
    <3> DEFINE w == [x \in Within |-> IF x \in o .. o + k - 1
                                      THEN call.bytes[x - o + 1] ELSE data[f.current][x]]
               r == SubSeq(call.bytes, k + 1, Len(call.bytes))
               C == [x \in Place |->
                       IF \E i \in 1 .. k : x = At(i - 1)
                       THEN call.bytes[x[2] - Position[s] + 1]
                       ELSE Content[x]]
    <3>1. /\ data' = [data EXCEPT ![f.current] = w]
          /\ call' = [call EXCEPT !.left = @ - k, !.bytes = r]
          /\ reply' = reply
      BY <1>3, <1>4, <1>5, <2>7
    <3>2. ASSUME NEW x \in Place
          PROVE  data'[ClusterOf[x]][x[2] % B] =
                   IF \E i \in 1 .. k : x = At(i - 1)
                   THEN call.bytes[x[2] - Position[s] + 1] ELSE Content[x]
      <4>1. /\ x = <<x[1], x[2]>> /\ x[1] \in Name /\ x[2] \in Nat /\ x[2] < Length[x[1]]
            /\ x[2] % B \in Within /\ ClusterOf[x] \in Cluster
            /\ Content[x] = data[ClusterOf[x]][x[2] % B]
        BY <1>5, PlaceAre, VolumeAssumption DEF Within, Content
      <4>2. CASE \E i \in 1 .. k : x = At(i - 1)
        <5>1. PICK i \in 1 .. k : x = At(i - 1)
          BY <4>2
        <5>2. x = <<n, p + (i - 1)>> /\ x[2] = p + (i - 1)
          BY <2>4, <5>1
        <5>3. ClusterOf[x] = f.current /\ x[2] % B = o + (i - 1)
          BY <2>3, <5>2
        <5>4. data'[f.current] = w
          BY <1>3, <1>5, <3>1
        <5>5. o + (i - 1) \in o .. o + k - 1 /\ (o + (i - 1)) - o + 1 = i
          BY <1>5
        <5>6. o + (i - 1) \in Within
          BY <4>1, <5>3
        <5>7. w[o + (i - 1)] = call.bytes[i]
          BY <5>5, <5>6
        <5>8. x[2] - Position[s] + 1 = i
          BY <1>5, <1>7, <5>2
        <5> HIDE DEF w
        <5> QED
          BY <4>2, <5>3, <5>4, <5>7, <5>8
      <4>3. CASE ~ \E i \in 1 .. k : x = At(i - 1)
        <5>1. CASE ClusterOf[x] # f.current
          <6>1. data'[ClusterOf[x]] = data[ClusterOf[x]]
            BY <1>3, <3>1, <4>1, <5>1
          <6> QED
            BY <4>1, <4>3, <6>1
        <5>2. CASE ClusterOf[x] = f.current
          <6>1. x[1] = n /\ x[2] \div B = p \div B
            <7>1. <<n, p>> \in Place /\ <<n, p>>[1] = n /\ <<n, p>>[2] = p
              BY <1>5, PlaceHas
            <7>2. ClusterOf[x] = ClusterOf[<<n, p>>]
              BY <2>2, <5>2
            <7> QED
              BY <7>1, <7>2, VolumeAssumption
          <6>2. x[2] % B \notin o .. o + k - 1
            <7> SUFFICES ASSUME x[2] % B \in o .. o + k - 1 PROVE FALSE
              OBVIOUS
            <7> DEFINE q == x[2]
            <7>1. /\ q \in Int /\ p \in Int
                  /\ q = B * (q \div B) + (q % B) /\ p = B * (p \div B) + (p % B)
              BY ONLY <1>5, <4>1, DivisionIs
            <7>2. q - p = (q % B) - (p % B)
              <8>1. B * (q \div B) = B * (p \div B) /\ B * (p \div B) \in Int
                <9>1. B * (p \div B) \in Int
                  <10>1. p \div B \in Int /\ B \in Int
                    BY <1>5, <7>1
                  <10> HIDE DEF B, p
                  <10> QED
                    BY <10>1
                <9> QED
                  BY <6>1, <9>1
              <8>2. (q % B) \in Int /\ (p % B) \in Int
                BY <1>5, <7>1
              <8> DEFINE P == B * (p \div B)
                         x1 == q % B
                         x2 == p % B
              <8>3. q = P + x1 /\ p = P + x2 /\ P \in Int /\ x1 \in Int /\ x2 \in Int
                BY <7>1, <8>1, <8>2
              <8> HIDE DEF P, x1, x2, q
              <8>4. q - p = x1 - x2
                BY <8>3
              <8> QED
                BY <8>4 DEF x1, x2
            <7>3. (q % B) \in Int /\ o \in Int
              BY <1>5, <7>1
            <7>4. q - p \in 0 .. k - 1
              BY <1>5, <2>2, <7>2, <7>3
            <7>5. (q - p) + 1 \in 1 .. k /\ q = p + (((q - p) + 1) - 1)
              BY <1>5, <7>1, <7>4
            <7>6. x = At(((q - p) + 1) - 1)
              BY <2>4, <4>1, <6>1, <7>5
            <7> QED
              BY <4>3, <7>5, <7>6
          <6>3. data'[f.current] = w
            BY <1>3, <1>5, <3>1
          <6>4. w[x[2] % B] = data[f.current][x[2] % B]
            BY <4>1, <6>2
          <6> HIDE DEF w
          <6> QED
            BY <4>1, <4>3, <5>2, <6>3, <6>4
        <5> QED
          BY <5>1, <5>2
      <4> QED
        BY <4>2, <4>3
    <3> HIDE DEF w, r
    <3>3. Content' = [x \in Place |-> data'[ClusterOf[x]][x[2] % B]]
      BY DEF Content
    <3>4. Content' = C
      BY <3>2, <3>3
    <3>5. Flat!Move(k)
      BY <1>6, <1>7, <2>5, <2>7, <3>1, <3>4, Zenon
         DEF Flat!Move, Flat!Idle, Idle, Flat!At, Flat!Place, Place, r, s, Content, Opened, Position
    <3> QED
      BY <2>5, <3>5, MoveIsNext
  <2> QED
    BY <1>4, <2>6, <2>7
<1> QED
  BY <1>9, <1>10

LEMMA NextRefines ==
  ASSUME FatInv, [Next]_vars
  PROVE  [Flat!Next]_Flat!vars
<1>1. TypeOK
  BY DEF FatInv, InStep
<1>2. CASE UNCHANGED vars
  BY <1>2 DEF vars, Flat!vars
<1>3. CASE Transfer
  BY <1>3, TransferRefines
<1> QED
  BY <1>1, <1>2, <1>3, OpenRefines, CloseRefines, SeekRefines, ReadRefines, WriteRefines, ReturnRefines
     DEF Next

\* On any such volume the files are arrays of bytes: every step of an open file is one FlatFiles allows, or a
\* turn that only takes the next cluster (file_system.c:233-510).
THEOREM FilesAreFlat == Spec => Flat!Init /\ [][Flat!Next]_Flat!vars
<1>1. Init => FatInv
  BY InitHolds
<1>2. FatInv /\ [Next]_vars => FatInv'
  BY NextKeeps
<1>3. Init => Flat!Init
  BY InitRefines
<1>4. FatInv /\ [Next]_vars => [Flat!Next]_Flat!vars
  BY NextRefines
<1> QED
  BY <1>1, <1>2, <1>3, <1>4, PTL DEF Spec

============================================================================
