---------------------------- MODULE TesterProofs ----------------------------
(***************************************************************************)
(* What the tester does to the servers, for groups of any size: the links  *)
(* between them (ServerGrp), the timeline that shows its faults            *)
(* (Annotation), and what a server finds on its disk when it is restarted  *)
(* (Restart).                                                              *)
(***************************************************************************)
EXTENDS Annotation, Restart, TLAPS

-----------------------------------------------------------------------------
(* Loops *)

\* What the lemmas below use of the library's facts about numbers and finite sets.
\* They assume it; it is proved at the end of the module, where the library comes
\* in, as its theorems slow down every obligation after them.
Counting ==
    /\ \A T \in SUBSET Nat : T # {} => \E x \in T : \A y \in T : x <= y
    /\ \A n \in Nat : \A f : Cardinality({f[i] : i \in 1..n}) \in 0..n

\* What holds of 0, and of n + 1 when it holds of n, holds of every number.
LEMMA Induct ==
    ASSUME Counting, NEW T, 0 \in T, \A n \in Nat : n \in T => n + 1 \in T
    PROVE  Nat \subseteq T
<1> SUFFICES ASSUME Nat \ T # {} PROVE FALSE
  OBVIOUS
<1>1. PICK x \in Nat \ T : \A y \in Nat \ T : x <= y
  BY Zenon DEF Counting
<1> QED
  BY <1>1, x - 1 \in T

\* What holds before a loop of n turns and is kept by each turn holds throughout.
LEMMA TurnsKeep ==
    ASSUME Counting, NEW n \in Nat, NEW T, 0 \in T,
           \A i \in 1..n : i - 1 \in T => i \in T
    PROVE  0..n \subseteq T
<1> DEFINE U == {k \in Nat : k <= n => k \in T}
<1>1. 0 \in U
  OBVIOUS
<1>2. ASSUME NEW k \in Nat, k \in U PROVE k + 1 \in U
  <2>1. CASE k + 1 <= n
    BY <1>2, <2>1, k + 1 \in 1..n
  <2> QED
    BY <2>1
<1> HIDE DEF U
<1>3. Nat \subseteq U
  BY <1>1, <1>2, Induct
<1> QED
  BY <1>3 DEF U

\* The values that n turns of a loop give, from x on, where turn i maps y to F[i][y].
Turns(n, S, x, F) ==
    {g \in [0..n -> S] : g[0] = x /\ \A i \in 1..n : g[i] = F[i][g[i - 1]]}

\* There are such values when a turn does not leave S.
LEMMA TurnsExist ==
    ASSUME Counting, NEW n \in Nat, NEW S, NEW x \in S, NEW F,
           \A i \in 1..n : \A y \in S : F[i][y] \in S
    PROVE  Turns(n, S, x, F) # {}
<1> DEFINE Is(k, g) == g[0] = x /\ \A i \in 1..k : g[i] = F[i][g[i - 1]]
           T == {k \in 0..n : \E g \in [0..k -> S] : Is(k, g)}
<1>1. 0 \in T
  <2> DEFINE g == [i \in 0..0 |-> x]
  <2>1. g \in [0..0 -> S] /\ Is(0, g)
    OBVIOUS
  <2> HIDE DEF g, Is
  <2> QED
    BY <2>1
<1>2. ASSUME NEW k \in 1..n, k - 1 \in T PROVE k \in T
  <2>1. PICK g \in [0..(k - 1) -> S] : Is(k - 1, g)
    BY <1>2
  <2> DEFINE h == [i \in 0..k |-> IF i = k THEN F[k][g[k - 1]] ELSE g[i]]
  <2>2. F[k][g[k - 1]] \in S
    BY k - 1 \in 0..(k - 1)
  <2>3. h \in [0..k -> S]
    BY <2>2
  <2>4. h[0] = x
    BY <2>1
  <2>5. ASSUME NEW i \in 1..k PROVE h[i] = F[i][h[i - 1]]
    <3>1. h[i - 1] = g[i - 1]
      OBVIOUS
    <3>2. CASE i = k
      BY <3>1, <3>2
    <3>3. CASE i # k
      <4>1. h[i] = g[i] /\ i \in 1..(k - 1)
        BY <3>3
      <4> HIDE DEF h
      <4> QED
        BY <2>1, <3>1, <4>1
    <3> QED
      BY <3>2, <3>3
  <2> HIDE DEF h
  <2> QED
    BY <2>3, <2>4, <2>5
<1> HIDE DEF T
<1>3. 0..n \subseteq T
  BY <1>1, <1>2, TurnsKeep
<1>4. n \in T
  BY <1>3
<1> QED
  BY <1>4 DEF T, Turns

-----------------------------------------------------------------------------
(* The group *)

\* The values of connected and enabled.
NetType == [connected : [Server -> BOOLEAN], enabled : [Server -> [Server -> BOOLEAN]]]

\* Everybody is connected and linked with everybody.
AllOn ==
    [connected |-> [i \in Server |-> TRUE],
     enabled   |-> [i \in Server |-> [j \in Server |-> TRUE]]]

\* Connecting and disconnecting give a network.
LEMMA SwitchType ==
    ASSUME NEW net \in NetType, NEW i \in Server, NEW s
    PROVE  connect(net, i, s) \in NetType /\ disconnect(net, i, s) \in NetType
BY ZenonT(40) DEF NetType, connect, disconnect, Switch

\* How c comes from net by connecting x with P, and d by disconnecting x from Q.
Connects(net, c, x, P) ==
    /\ \A k \in Server : c.connected[k] <=> k = x \/ net.connected[k]
    /\ \A k, l \in Server :
          c.enabled[k][l] <=> \/ k = x /\ l \in P /\ (l = x \/ net.connected[l])
                              \/ l = x /\ k \in P /\ (k = x \/ net.connected[k])
                              \/ net.enabled[k][l]

Disconnects(net, d, x, Q) ==
    /\ \A k \in Server : d.connected[k] <=> k # x /\ net.connected[k]
    /\ \A k, l \in Server :
          d.enabled[k][l] <=> ~(k = x /\ l \in Q) /\ ~(l = x /\ k \in Q) /\ net.enabled[k][l]

\* What connecting does to each end.
LEMMA ConnectIs ==
    ASSUME NEW net \in NetType, NEW x \in Server, NEW P \in SUBSET Server
    PROVE  Connects(net, connect(net, x, P), x, P)
<1> DEFINE conn == [net.connected EXCEPT ![x] = TRUE]
           js == {j \in P : conn[j]}
           c == connect(net, x, P)
<1>1. c.connected = conn /\ c.enabled = Switch(net.enabled, x, js, TRUE)
  BY DEF connect
<1>2. net.connected \in [Server -> BOOLEAN] /\ net.enabled \in [Server -> [Server -> BOOLEAN]]
  BY DEF NetType
<1>3. \A k \in Server : conn[k] <=> k = x \/ net.connected[k]
  BY Zenon, <1>2
<1>4. \A k, l \in Server :
        Switch(net.enabled, x, js, TRUE)[k][l]
          = IF (k = x /\ l \in js) \/ (l = x /\ k \in js) THEN TRUE ELSE net.enabled[k][l]
  BY Zenon DEF Switch
<1>5. \A k \in Server : k \in js <=> k \in P /\ (k = x \/ net.connected[k])
  BY Zenon, <1>3
<1> HIDE DEF conn, js
<1>6. \A k, l \in Server : net.enabled[k][l] \in BOOLEAN
  BY Zenon, <1>2
<1>7. ASSUME NEW k \in Server, NEW l \in Server
      PROVE  c.enabled[k][l] <=> (k = x /\ l \in js) \/ (l = x /\ k \in js) \/ net.enabled[k][l]
  <2>1. CASE (k = x /\ l \in js) \/ (l = x /\ k \in js)
    <3>1. c.enabled[k][l] = TRUE
      BY Zenon, <2>1, <1>1, <1>4
    <3> QED
      BY Zenon, <2>1, <3>1
  <2>2. CASE ~((k = x /\ l \in js) \/ (l = x /\ k \in js))
    <3>1. c.enabled[k][l] = net.enabled[k][l]
      BY Zenon, <2>2, <1>1, <1>4
    <3> QED
      BY Zenon, <2>2, <3>1
  <2> QED
    BY Zenon, <2>1, <2>2
<1> HIDE DEF c
<1> QED
  BY Zenon, <1>1, <1>3, <1>5, <1>7 DEF Connects, c

\* What disconnecting does to each end.
LEMMA DisconnectIs ==
    ASSUME NEW net \in NetType, NEW x \in Server, NEW Q \in SUBSET Server
    PROVE  Disconnects(net, disconnect(net, x, Q), x, Q)
<1> DEFINE d == disconnect(net, x, Q)
<1>1. /\ d.connected = [net.connected EXCEPT ![x] = FALSE]
      /\ d.enabled = Switch(net.enabled, x, Q, FALSE)
  BY DEF disconnect
<1>2. net.connected \in [Server -> BOOLEAN] /\ net.enabled \in [Server -> [Server -> BOOLEAN]]
  BY DEF NetType
<1>3. \A k \in Server : d.connected[k] <=> k # x /\ net.connected[k]
  BY Zenon, <1>1, <1>2
<1>4. \A k, l \in Server :
        Switch(net.enabled, x, Q, FALSE)[k][l]
          = IF (k = x /\ l \in Q) \/ (l = x /\ k \in Q) THEN FALSE ELSE net.enabled[k][l]
  BY Zenon DEF Switch
<1>5. \A k, l \in Server : net.enabled[k][l] \in BOOLEAN
  BY Zenon, <1>2
<1>6. ASSUME NEW k \in Server, NEW l \in Server
      PROVE  d.enabled[k][l] <=> ~(k = x /\ l \in Q) /\ ~(l = x /\ k \in Q) /\ net.enabled[k][l]
  <2>1. CASE (k = x /\ l \in Q) \/ (l = x /\ k \in Q)
    <3>1. d.enabled[k][l] = FALSE
      BY Zenon, <2>1, <1>1, <1>4
    <3> QED
      BY Zenon, <2>1, <3>1
  <2>2. CASE ~((k = x /\ l \in Q) \/ (l = x /\ k \in Q))
    <3>1. d.enabled[k][l] = net.enabled[k][l]
      BY ZenonT(40), <2>2, <1>1, <1>4
    <3> QED
      BY Zenon, <2>2, <3>1
  <2> QED
    BY Zenon, <2>1, <2>2
<1> QED
  BY Zenon, <1>3, <1>6 DEF Disconnects

\* ConnectAll's loop.
LEMMA ConnectAllTurns ==
    ASSUME Counting, NEW net \in NetType
    PROVE  \E g \in [0..N -> NetType] :
               /\ connectAll(net) = g[N] /\ g[0] = net
               /\ \A n \in 1..N : g[n] = connect(g[n - 1], n - 1, Server)
<1> DEFINE F == [n \in 1..N |-> [y \in NetType |-> connect(y, n - 1, Server)]]
           Is(g) == g = [n \in 0..N |-> IF n = 0 THEN net ELSE connect(g[n - 1], n - 1, Server)]
           g == CHOOSE h : Is(h)
<1>n. N \in Nat
  BY GrpAssumption
<1>1. ASSUME NEW n \in 1..N, NEW y \in NetType
      PROVE  F[n][y] = connect(y, n - 1, Server) /\ F[n][y] \in NetType
  <2>1. n - 1 \in Server
    BY <1>n DEF Server
  <2> QED
    BY <2>1, SwitchType
<1> HIDE DEF F, Is, g
<1>2. PICK h \in [0..N -> NetType] : h[0] = net /\ \A n \in 1..N : h[n] = F[n][h[n - 1]]
  <2>1. \A n \in 1..N : \A y \in NetType : F[n][y] \in NetType
    BY Zenon, <1>1
  <2>2. Turns(N, NetType, net, F) # {}
    BY Zenon, <2>1, <1>n, TurnsExist
  <2> QED
    BY <2>2 DEF Turns
<1>3. Is(h)
  <2>1. \A n \in 1..N : h[n] = connect(h[n - 1], n - 1, Server)
    BY <1>1, <1>2, <1>n
  <2> QED
    BY <1>2, <2>1, <1>n DEF Is
<1>4. Is(g)
  BY <1>3 DEF g
<1>5. connectAll(net) = g[N]
  BY DEF connectAll, g, Is
<1>6. g[0] = net /\ \A n \in 1..N : g[n] = connect(g[n - 1], n - 1, Server)
  <2>1. 0 \in 0..N /\ \A n \in 1..N : n \in 0..N /\ n # 0
    BY <1>n
  <2> QED
    BY Zenon, <1>4, <2>1 DEF Is
<1>7. \A n \in 0..N : g[n] \in NetType
  <2> DEFINE T == {n \in 0..N : g[n] \in NetType}
  <2>1. 0 \in T
    BY <1>6, <1>n
  <2>2. ASSUME NEW n \in 1..N, n - 1 \in T PROVE n \in T
    <3>1. n - 1 \in Server
      BY <1>n DEF Server
    <3> QED
      BY <2>2, <3>1, <1>6, SwitchType
  <2> HIDE DEF T
  <2>3. 0..N \subseteq T
    BY Zenon, <2>1, <2>2, <1>n, TurnsKeep
  <2> QED
    BY <2>3 DEF T
<1>8. g \in [0..N -> NetType]
  BY <1>4, <1>7 DEF Is
<1> QED
  BY Zenon, <1>5, <1>6, <1>8

\* It connects everybody with everybody, whatever was connected before.
LEMMA ConnectAllIs ==
    ASSUME Counting, NEW net \in NetType
    PROVE  connectAll(net) = AllOn
<1>n. N \in Nat
  BY GrpAssumption
<1>1. PICK g \in [0..N -> NetType] :
          /\ connectAll(net) = g[N] /\ g[0] = net
          /\ \A n \in 1..N : g[n] = connect(g[n - 1], n - 1, Server)
  BY Zenon, ConnectAllTurns
<1> DEFINE On(n) == \A i, j \in Server : i < n /\ j < n => g[n].connected[i] /\ g[n].enabled[i][j]
           T == {n \in 0..N : On(n)}
<1>2. 0 \in T
  BY <1>n DEF Server
<1>3. ASSUME NEW n \in 1..N, n - 1 \in T PROVE n \in T
  <2> DEFINE b == g[n - 1]
  <2>1. b \in NetType /\ n - 1 \in Server /\ g[n] = connect(b, n - 1, Server)
    BY <1>1, <1>n DEF Server
  <2>2. \A i, j \in Server : i < n - 1 /\ j < n - 1 => b.connected[i] /\ b.enabled[i][j]
    BY <1>3
  <2>3. \A i \in Server : i < n => i < n - 1 \/ i = n - 1
    BY <1>n DEF Server
  <2> HIDE DEF b
  <2>4. \A i \in Server : i < n => g[n].connected[i]
    BY <2>1, <2>2, <2>3 DEF connect, NetType
  <2>5. \A i, j \in Server : i < n /\ j < n => g[n].enabled[i][j]
    BY <2>1, <2>2, <2>3 DEF connect, NetType, Switch
  <2> QED
    BY <2>4, <2>5
<1> HIDE DEF T
<1>4. 0..N \subseteq T
  BY Zenon, <1>2, <1>3, <1>n, TurnsKeep
<1>5. g[N] \in NetType /\ \A i, j \in Server : g[N].connected[i] /\ g[N].enabled[i][j]
  BY <1>1, <1>4, <1>n DEF T, Server
<1>6. g[N].connected = [i \in Server |-> TRUE]
  BY Zenon, <1>5 DEF NetType
<1>7. g[N].enabled = [i \in Server |-> [j \in Server |-> TRUE]]
  <2>1. ASSUME NEW i \in Server PROVE g[N].enabled[i] = [j \in Server |-> TRUE]
    BY Zenon, <1>5 DEF NetType
  <2>2. g[N].enabled \in [Server -> [Server -> BOOLEAN]]
    BY Zenon, <1>5 DEF NetType
  <2> QED
    BY Zenon, <2>1, <2>2
<1> QED
  BY Zenon, <1>1, <1>5, <1>6, <1>7 DEF AllOn, NetType

\* The loop of start gives a network.
LEMMA StartAllType ==
    ASSUME Counting, NEW net \in NetType
    PROVE  startAll(net) \in NetType
<1> DEFINE F == [n \in 1..N |-> [y \in NetType |-> StartEnds(y, n - 1)]]
           Is(g) == g = [n \in 0..N |-> IF n = 0 THEN net ELSE StartEnds(g[n - 1], n - 1)]
           g == CHOOSE h : Is(h)
<1>n. N \in Nat
  BY GrpAssumption
<1>s. \A i \in Server, y \in NetType : StartEnds(y, i) \in NetType
  BY Zenon DEF StartEnds, NetType
<1>1. ASSUME NEW n \in 1..N, NEW y \in NetType
      PROVE  F[n][y] = StartEnds(y, n - 1) /\ F[n][y] \in NetType
  <2>1. n - 1 \in Server
    BY <1>n DEF Server
  <2> QED
    BY <2>1, <1>s
<1> HIDE DEF F, Is, g
<1>2. PICK h \in [0..N -> NetType] : h[0] = net /\ \A n \in 1..N : h[n] = F[n][h[n - 1]]
  <2>1. \A n \in 1..N : \A y \in NetType : F[n][y] \in NetType
    BY Zenon, <1>1
  <2>2. Turns(N, NetType, net, F) # {}
    BY Zenon, <2>1, <1>n, TurnsExist
  <2> QED
    BY <2>2 DEF Turns
<1>3. Is(h)
  <2>1. \A n \in 1..N : h[n] = StartEnds(h[n - 1], n - 1)
    BY <1>1, <1>2, <1>n
  <2> QED
    BY <1>2, <2>1, <1>n DEF Is
<1>4. Is(g)
  BY <1>3 DEF g
<1>5. startAll(net) = g[N]
  BY DEF startAll, g, Is
<1> DEFINE T == {n \in 0..N : g[n] \in NetType}
<1>6. 0 \in T
  BY <1>4, <1>n DEF Is
<1>7. ASSUME NEW n \in 1..N, n - 1 \in T PROVE n \in T
  <2>1. n - 1 \in Server /\ n \in 0..N /\ n # 0
    BY <1>n DEF Server
  <2>2. g[n] = StartEnds(g[n - 1], n - 1)
    BY Zenon, <2>1, <1>4 DEF Is
  <2> QED
    BY Zenon, <1>7, <2>1, <2>2, <1>s
<1> HIDE DEF T
<1>8. 0..N \subseteq T
  BY Zenon, <1>6, <1>7, <1>n, TurnsKeep
<1> QED
  BY <1>5, <1>8, <1>n DEF T

\* One of the loops of Partition.
LEMMA SeparateTurns ==
    ASSUME Counting, NEW p \in Seq(Server), NEW q \in Seq(Server), NEW net \in NetType
    PROVE  \E g \in [0..Len(p) -> NetType] :
               /\ separate(net, p, q) = g[Len(p)] /\ g[0] = net
               /\ \A n \in 1..Len(p) :
                     g[n] = connect(disconnect(g[n - 1], p[n], Range(q)), p[n], Range(p))
<1> DEFINE Turn(y, n) == connect(disconnect(y, p[n], Range(q)), p[n], Range(p))
           K == Len(p)
           F == [n \in 1..K |-> [y \in NetType |-> Turn(y, n)]]
           Is(g) == g = [n \in 0..K |-> IF n = 0 THEN net ELSE Turn(g[n - 1], n)]
           g == CHOOSE h : Is(h)
<1>n. K \in Nat
  OBVIOUS
<1>s. \A n \in 1..K, y \in NetType : Turn(y, n) \in NetType
  <2> SUFFICES ASSUME NEW n \in 1..K, NEW y \in NetType PROVE Turn(y, n) \in NetType
    OBVIOUS
  <2>1. p[n] \in Server
    OBVIOUS
  <2> QED
    BY Zenon, <2>1, SwitchType
<1>5. separate(net, p, q) = g[K]
  BY DEF separate
<1> HIDE DEF K, Turn
<1>1. ASSUME NEW n \in 1..K, NEW y \in NetType
      PROVE  F[n][y] = Turn(y, n) /\ F[n][y] \in NetType
  BY <1>s
<1> HIDE DEF F, Is, g
<1>2. PICK h \in [0..K -> NetType] : h[0] = net /\ \A n \in 1..K : h[n] = F[n][h[n - 1]]
  <2>1. \A n \in 1..K : \A y \in NetType : F[n][y] \in NetType
    BY Zenon, <1>1
  <2>2. Turns(K, NetType, net, F) # {}
    BY Zenon, <2>1, <1>n, TurnsExist
  <2> QED
    BY <2>2 DEF Turns
<1>3. Is(h)
  <2>1. \A n \in 1..K : h[n] = Turn(h[n - 1], n)
    BY <1>1, <1>2, <1>n
  <2> QED
    BY <1>2, <2>1, <1>n DEF Is
<1>4. Is(g)
  BY <1>3 DEF g
<1>6. g[0] = net /\ \A n \in 1..K : g[n] = Turn(g[n - 1], n)
  <2>1. 0 \in 0..K /\ \A n \in 1..K : n \in 0..K /\ n # 0
    BY <1>n
  <2> QED
    BY Zenon, <1>4, <2>1 DEF Is
<1>7. \A n \in 0..K : g[n] \in NetType
  <2> DEFINE T == {n \in 0..K : g[n] \in NetType}
  <2>1. 0 \in T
    BY <1>6, <1>n
  <2>2. ASSUME NEW n \in 1..K, n - 1 \in T PROVE n \in T
    BY <2>2, <1>6, <1>s
  <2> HIDE DEF T
  <2>3. 0..K \subseteq T
    BY Zenon, <2>1, <2>2, <1>n, TurnsKeep
  <2> QED
    BY <2>3 DEF T
<1>8. g \in [0..K -> NetType]
  BY <1>4, <1>7 DEF Is
<1> QED
  BY Zenon, <1>5, <1>6, <1>8 DEF Turn, K

\* The servers of S are linked with each other and not with those of Q, and the
\* servers outside P are as they were in net.
Apart(net, b, P, Q, S) ==
    /\ \A i \in S : b.connected[i]
    /\ \A i, j \in S : b.enabled[i][j]
    /\ \A i \in S, j \in Q : ~b.enabled[i][j] /\ ~b.enabled[j][i]
    /\ \A i \in Server \ P : b.connected[i] <=> net.connected[i]
    /\ \A i, j \in Server \ P : b.enabled[i][j] <=> net.enabled[i][j]

\* A turn of the loop sets one more server apart.
LEMMA ApartTurn ==
    ASSUME NEW net \in NetType, NEW b \in NetType,
           NEW P \in SUBSET Server, NEW Q \in SUBSET Server, P \cap Q = {},
           NEW S \in SUBSET P, NEW x \in P, Apart(net, b, P, Q, S)
    PROVE  Apart(net, connect(disconnect(b, x, Q), x, P), P, Q, S \cup {x})
<1>d. PICK d : d = disconnect(b, x, Q)
  BY Zenon
<1>c. PICK c : c = connect(d, x, P)
  BY Zenon
<1>x. x \in Server /\ d \in NetType
  BY Zenon, <1>d, SwitchType
<1>1. Disconnects(b, d, x, Q)
  BY Zenon, <1>x, <1>d, DisconnectIs
<1>2. Connects(d, c, x, P)
  BY Zenon, <1>x, <1>c, ConnectIs
<1>3. /\ \A k \in Server : c.connected[k] <=> k = x \/ b.connected[k]
      /\ \A k, l \in Server : c.connected[l] /\ k = x /\ l \in P => c.enabled[k][l] /\ c.enabled[l][k]
      /\ \A k, l \in Server : k # x /\ l # x => (c.enabled[k][l] <=> b.enabled[k][l])
      /\ \A l \in Q : ~c.enabled[x][l] /\ ~c.enabled[l][x]
  BY Zenon, <1>x, <1>1, <1>2 DEF Connects, Disconnects
<1>4. \A i \in S \cup {x} : i \in Server /\ c.connected[i]
  BY Zenon, <1>x, <1>3 DEF Apart
<1>5. \A i, j \in S \cup {x} : c.enabled[i][j]
  BY Zenon, <1>x, <1>3, <1>4 DEF Apart
<1>6. \A i \in S \cup {x}, j \in Q : ~c.enabled[i][j] /\ ~c.enabled[j][i]
  <2> SUFFICES ASSUME NEW i \in S \cup {x}, NEW j \in Q PROVE ~c.enabled[i][j] /\ ~c.enabled[j][i]
    BY Zenon
  <2>1. j \in Server /\ j # x /\ i \in Server
    BY Zenon, <1>4
  <2>2. CASE i = x
    BY Zenon, <2>1, <2>2, <1>3
  <2>3. CASE i # x
    BY Zenon, <2>1, <2>3, <1>x, <1>3 DEF Apart
  <2> QED
    BY Zenon, <2>2, <2>3
<1>7. \A i \in Server \ P : c.connected[i] <=> net.connected[i]
  BY Zenon, <1>3 DEF Apart
<1>8. \A i, j \in Server \ P : c.enabled[i][j] <=> net.enabled[i][j]
  BY Zenon, <1>3 DEF Apart
<1> QED
  BY Zenon, <1>c, <1>d, <1>4, <1>5, <1>6, <1>7, <1>8 DEF Apart

\* The loop sets the servers of p apart from those of q.
LEMMA SeparateIs ==
    ASSUME Counting, NEW p \in Seq(Server), NEW q \in Seq(Server), NEW net \in NetType,
           Range(p) \cap Range(q) = {}
    PROVE  /\ separate(net, p, q) \in NetType
           /\ Apart(net, separate(net, p, q), Range(p), Range(q), Range(p))
<1> DEFINE P == Range(p)
           Q == Range(q)
           K == Len(p)
           Upto(n) == {p[m] : m \in 1..n}
<1>1. K \in Nat /\ P = Upto(K) /\ P \in SUBSET Server /\ Q \in SUBSET Server
  BY DEF Range
<1>2. PICK g \in [0..K -> NetType] :
          /\ separate(net, p, q) = g[K] /\ g[0] = net
          /\ \A n \in 1..K : g[n] = connect(disconnect(g[n - 1], p[n], Q), p[n], P)
  BY Zenon, SeparateTurns
<1> HIDE DEF P, Q, K
<1> DEFINE T == {n \in 0..K : Apart(net, g[n], P, Q, Upto(n))}
<1>3. 0 \in T
  <2>1. Upto(0) = {}
    OBVIOUS
  <2>2. Apart(net, net, P, Q, {})
    BY Zenon DEF Apart
  <2>3. 0 \in 0..K
    BY <1>1
  <2> HIDE DEF Upto
  <2> QED
    BY Zenon, <1>2, <2>1, <2>2, <2>3
<1>4. ASSUME NEW n \in 1..K, n - 1 \in T PROVE n \in T
  <2>1. Upto(n) = Upto(n - 1) \cup {p[n]} /\ Upto(n - 1) \in SUBSET P /\ p[n] \in P
    BY <1>1
  <2>2. g[n - 1] \in NetType /\ n \in 0..K
    BY <1>1, <1>2
  <2>6. g[n] = connect(disconnect(g[n - 1], p[n], Q), p[n], P)
    BY Zenon, <1>2
  <2>3. Apart(net, g[n - 1], P, Q, Upto(n - 1))
    BY Zenon, <1>4
  <2> HIDE DEF Upto
  <2>4. P \cap Q = {}
    BY Zenon DEF P, Q
  <2>5. Apart(net, g[n], P, Q, Upto(n - 1) \cup {p[n]})
    <3>1. Apart(net, connect(disconnect(g[n - 1], p[n], Q), p[n], P), P, Q, Upto(n - 1) \cup {p[n]})
      BY Zenon, <1>1, <2>1, <2>2, <2>3, <2>4, ApartTurn
    <3> QED
      BY Zenon, <2>6, <3>1
  <2> QED
    BY Zenon, <2>1, <2>2, <2>5
<1> HIDE DEF T, Upto
<1>5. 0..K \subseteq T
  BY Zenon, <1>1, <1>3, <1>4, TurnsKeep
<1>6. K \in T /\ g[K] \in NetType
  BY <1>1, <1>2, <1>5
<1> QED
  BY Zenon, <1>1, <1>2, <1>6 DEF T, P, Q

\* After Partition the two sides are joined and apart, and everybody is connected.
LEMMA PartitionIs ==
    ASSUME Counting, NEW p \in Seq(Server), NEW q \in Seq(Server), NEW net \in NetType,
           Range(p) \cap Range(q) = {}, Range(p) \cup Range(q) = Server,
           NEW r, r = separate(separate(net, p, q), q, p)
    PROVE  /\ r \in NetType
           /\ \A i \in Server : r.connected[i]
           /\ \A i, j \in Server : r.enabled[i][j] <=> (i \in Range(p) <=> j \in Range(p))
<1> DEFINE P == Range(p)
           Q == Range(q)
           b == separate(net, p, q)
<1>1. b \in NetType /\ Apart(net, b, P, Q, P)
  BY Zenon, SeparateIs
<1>2. Q \cap P = {} /\ P \cup Q = Server
  BY Zenon
<1>3. r \in NetType /\ Apart(b, r, Q, P, Q)
  <2>1. separate(b, q, p) \in NetType /\ Apart(b, separate(b, q, p), Q, P, Q)
    BY Zenon, <1>1, <1>2, SeparateIs
  <2> QED
    BY Zenon, <2>1
<1> HIDE DEF P, Q, b
<1>4. \A i \in Server : r.connected[i]
  BY <1>1, <1>2, <1>3 DEF Apart
<1>5. \A i, j \in Server : r.enabled[i][j] <=> (i \in P <=> j \in P)
  BY <1>1, <1>2, <1>3 DEF Apart
<1> QED
  BY Zenon, <1>3, <1>4, <1>5 DEF P

\* Appending adds to the range.
LEMMA AppendRange ==
    ASSUME NEW q \in Seq(Server), NEW x \in Server
    PROVE  Range(Append(q, x)) = Range(q) \cup {x}
<1>1. /\ Len(q) \in Nat /\ DOMAIN q = 1..Len(q)
      /\ DOMAIN Append(q, x) = 1..(Len(q) + 1)
      /\ \A i \in 1..Len(q) : Append(q, x)[i] = q[i]
      /\ Append(q, x)[Len(q) + 1] = x
  OBVIOUS
<1>2. \A i \in 1..(Len(q) + 1) : i \in 1..Len(q) \/ i = Len(q) + 1
  BY <1>1
<1>3. Len(q) + 1 \in 1..(Len(q) + 1) /\ 1..Len(q) \subseteq 1..(Len(q) + 1)
  BY <1>1
<1> QED
  BY Zenon, <1>1, <1>2, <1>3 DEF Range

\* The loops that build a slice of servers.
LEMMA InOrderTurns ==
    ASSUME Counting, NEW s \in SUBSET Server
    PROVE  \E g \in [0..N -> Seq(Server)] :
               /\ InOrder(s) = g[N] /\ g[0] = <<>>
               /\ \A n \in 1..N : g[n] = IF n - 1 \in s THEN Append(g[n - 1], n - 1) ELSE g[n - 1]
<1> DEFINE Turn(y, n) == IF n - 1 \in s THEN Append(y, n - 1) ELSE y
           F == [n \in 1..N |-> [y \in Seq(Server) |-> Turn(y, n)]]
           Is(g) == g = [n \in 0..N |-> IF n = 0 THEN <<>> ELSE Turn(g[n - 1], n)]
           g == CHOOSE h : Is(h)
<1>n. N \in Nat
  BY GrpAssumption
<1>s. \A n \in 1..N, y \in Seq(Server) : Turn(y, n) \in Seq(Server)
  OBVIOUS
<1>5. InOrder(s) = g[N]
  BY DEF InOrder
<1> HIDE DEF Turn
<1>1. ASSUME NEW n \in 1..N, NEW y \in Seq(Server)
      PROVE  F[n][y] = Turn(y, n) /\ F[n][y] \in Seq(Server)
  BY <1>s
<1> HIDE DEF F, Is, g
<1>2. PICK h \in [0..N -> Seq(Server)] : h[0] = <<>> /\ \A n \in 1..N : h[n] = F[n][h[n - 1]]
  <2>1. \A n \in 1..N : \A y \in Seq(Server) : F[n][y] \in Seq(Server)
    BY Zenon, <1>1
  <2>2. <<>> \in Seq(Server)
    OBVIOUS
  <2>3. Turns(N, Seq(Server), <<>>, F) # {}
    BY Zenon, <2>1, <2>2, <1>n, TurnsExist
  <2> QED
    BY Zenon, <2>3 DEF Turns
<1>3. Is(h)
  <2>1. \A n \in 1..N : h[n] = Turn(h[n - 1], n)
    <3>1. \A n \in 1..N : n - 1 \in 0..N
      BY <1>n
    <3> QED
      BY Zenon, <1>1, <1>2, <3>1
  <2> QED
    BY <1>2, <2>1, <1>n DEF Is
<1>4. Is(g)
  BY <1>3 DEF g
<1>6. g[0] = <<>> /\ \A n \in 1..N : g[n] = Turn(g[n - 1], n)
  <2>1. 0 \in 0..N /\ \A n \in 1..N : n \in 0..N /\ n # 0
    BY <1>n
  <2> QED
    BY Zenon, <1>4, <2>1 DEF Is
<1>7. \A n \in 0..N : g[n] \in Seq(Server)
  <2> DEFINE T == {n \in 0..N : g[n] \in Seq(Server)}
  <2>1. 0 \in T
    <3>1. 0 \in 0..N /\ <<>> \in Seq(Server)
      BY <1>n
    <3> QED
      BY Zenon, <3>1, <1>6
  <2>2. ASSUME NEW n \in 1..N, n - 1 \in T PROVE n \in T
    <3>1. g[n] \in Seq(Server)
      BY Zenon, <2>2, <1>6, <1>s
    <3> QED
      BY <3>1, <1>n
  <2> HIDE DEF T
  <2>3. 0..N \subseteq T
    BY Zenon, <2>1, <2>2, <1>n, TurnsKeep
  <2> QED
    BY <2>3 DEF T
<1>8. g \in [0..N -> Seq(Server)]
  BY <1>4, <1>7 DEF Is
<1> QED
  BY Zenon, <1>5, <1>6, <1>8 DEF Turn

\* A slice holds the servers that were added to it.
LEMMA InOrderIs ==
    ASSUME Counting, NEW s \in SUBSET Server
    PROVE  InOrder(s) \in Seq(Server) /\ Range(InOrder(s)) = s
<1>n. N \in Nat
  BY GrpAssumption
<1>1. PICK g \in [0..N -> Seq(Server)] :
          /\ InOrder(s) = g[N] /\ g[0] = <<>>
          /\ \A n \in 1..N : g[n] = IF n - 1 \in s THEN Append(g[n - 1], n - 1) ELSE g[n - 1]
  BY Zenon, InOrderTurns
<1> DEFINE Upto(n) == {i \in s : i < n}
           T == {n \in 0..N : Range(g[n]) = Upto(n)}
<1>i. \A i \in s : i \in Nat /\ i < N
  <2>1. \A i \in Server : i \in Nat /\ i < N
    BY <1>n DEF Server
  <2> QED
    BY Zenon, <2>1
<1>2. 0 \in T
  <2>1. Upto(0) = {}
    BY <1>i
  <2>2. Range(<<>>) = {}
    BY DEF Range
  <2>3. 0 \in 0..N
    BY <1>n
  <2> QED
    BY Zenon, <1>1, <2>1, <2>2, <2>3
<1>3. ASSUME NEW n \in 1..N, n - 1 \in T PROVE n \in T
  <2>1. g[n - 1] \in Seq(Server) /\ n \in 0..N /\ n - 1 \in Server
    BY <1>n DEF Server
  <2>2. Range(g[n - 1]) = Upto(n - 1)
    BY Zenon, <1>3
  <2>5. \A i \in s : i < n <=> i < n - 1 \/ i = n - 1
    BY <1>i, <1>n
  <2>3. CASE n - 1 \in s
    <3>1. g[n] = Append(g[n - 1], n - 1)
      BY Zenon, <1>1, <2>3
    <3>4. Range(Append(g[n - 1], n - 1)) = Range(g[n - 1]) \cup {n - 1}
      BY Zenon, <2>1, AppendRange
    <3>2. Range(g[n]) = Range(g[n - 1]) \cup {n - 1}
      BY Zenon, <3>1, <3>4
    <3>3. Upto(n) = Upto(n - 1) \cup {n - 1}
      BY Zenon, <2>3, <2>5
    <3> QED
      BY Zenon, <3>2, <3>3, <2>1, <2>2
  <2>4. CASE n - 1 \notin s
    <3>1. g[n] = g[n - 1]
      BY Zenon, <1>1, <2>4
    <3>2. Upto(n) = Upto(n - 1)
      BY Zenon, <2>4, <2>5
    <3> QED
      BY Zenon, <3>1, <3>2, <2>1, <2>2
  <2> QED
    BY Zenon, <2>3, <2>4
<1> HIDE DEF T
<1>4. 0..N \subseteq T
  BY Zenon, <1>2, <1>3, <1>n, TurnsKeep
<1>5. N \in 0..N
  BY <1>n
<1>6. Upto(N) = s
  BY Zenon, <1>i
<1>7. Range(g[N]) = s
  BY Zenon, <1>4, <1>5, <1>6 DEF T
<1>8. g[N] \in Seq(Server) /\ InOrder(s) = g[N]
  BY Zenon, <1>1, <1>5
<1> QED
  BY Zenon, <1>7, <1>8

\* The servers other than l, in the order of their numbers.
LEMMA OthersIs ==
    ASSUME Counting, NEW l \in Server,
           NEW others, others = InOrder(Server \ {l})
    PROVE  /\ others \in Seq(Server) /\ Len(others) = N - 1
           /\ \A k \in 1..(N - 1) : others[k] = IF k <= l THEN k - 1 ELSE k
<1> DEFINE Size(n) == IF n <= l THEN n ELSE n - 1
<1>n. N \in Nat /\ l \in Nat /\ l < N
  BY GrpAssumption DEF Server
<1>1. PICK g \in [0..N -> Seq(Server)] :
          /\ others = g[N] /\ g[0] = <<>>
          /\ \A n \in 1..N : g[n] = IF n - 1 \in Server \ {l} THEN Append(g[n - 1], n - 1) ELSE g[n - 1]
  <2>1. Server \ {l} \in SUBSET Server
    OBVIOUS
  <2> QED
    BY Zenon, <2>1, InOrderTurns
<1> DEFINE T == {n \in 0..N : /\ Len(g[n]) = Size(n)
                              /\ \A k \in 1..Size(n) : g[n][k] = IF k <= l THEN k - 1 ELSE k}
<1>2. 0 \in T
  BY <1>1, <1>n
<1>3. ASSUME NEW n \in 1..N, n - 1 \in T PROVE n \in T
  <2>1. PICK q \in Seq(Server) : q = g[n - 1]
    BY <1>n
  <2>2. Len(q) = Size(n - 1) /\ \A k \in 1..Size(n - 1) : q[k] = IF k <= l THEN k - 1 ELSE k
    BY Zenon, <1>3, <2>1
  <2>3. n \in 0..N /\ n - 1 \in Server
    BY <1>n DEF Server
  <2>4. g[n] = IF n - 1 # l THEN Append(q, n - 1) ELSE q
    BY Zenon, <1>1, <2>1, <2>3
  <2>5. CASE n - 1 # l
    <3>1. /\ g[n] = Append(q, n - 1) /\ Len(g[n]) = Len(q) + 1
          /\ \A k \in 1..Len(q) : g[n][k] = q[k]
          /\ g[n][Len(q) + 1] = n - 1
      BY <2>3, <2>4, <2>5
    <3>2. Size(n) = Size(n - 1) + 1
      BY <2>5, <1>n
    <3>3. ASSUME NEW k \in 1..Size(n) PROVE g[n][k] = IF k <= l THEN k - 1 ELSE k
      <4>1. CASE k \in 1..Len(q)
        BY <3>1, <2>2, <4>1
      <4>2. CASE k = Len(q) + 1
        BY <3>1, <2>2, <4>2, <2>5, <1>n
      <4> QED
        BY <3>2, <2>2, <4>1, <4>2, <1>n
    <3> QED
      BY Zenon, <3>1, <3>2, <3>3, <2>2, <2>3
  <2>6. CASE n - 1 = l
    <3>1. g[n] = q /\ Size(n) = Size(n - 1)
      BY <2>4, <2>6, <1>n
    <3> QED
      BY Zenon, <2>2, <2>3, <3>1
  <2> QED
    BY Zenon, <2>5, <2>6
<1> HIDE DEF T
<1>4. 0..N \subseteq T
  BY Zenon, <1>2, <1>3, <1>n, TurnsKeep
<1>5. N \in T /\ N \in 0..N /\ Size(N) = N - 1
  BY <1>4, <1>n
<1> QED
  BY Zenon, <1>1, <1>5 DEF T

\* The two sides of a partition around the leader l, which is in the smaller one.
Sides(l, p, q) ==
    /\ p \in Seq(Server) /\ q \in Seq(Server)
    /\ Range(p) \cap Range(q) = {} /\ Range(p) \cup Range(q) = Server
    /\ l \in Range(q) /\ Len(q) = N \div 2

\* MakePartition makes them.
LEMMA MakePartitionIs ==
    ASSUME Counting, NEW l \in Server
    PROVE  Sides(l, MakePartition(l)[1], MakePartition(l)[2])
<1>p. PICK p, q : p = MakePartition(l)[1] /\ q = MakePartition(l)[2]
  BY Zenon
<1>n. /\ N \in Nat /\ l \in Nat /\ l < N /\ N \div 2 \in Nat /\ N \div 2 > 0
      /\ N = 2 * (N \div 2) + 1
  BY GrpAssumption DEF Server
<1>o. PICK others : others = InOrder(Server \ {l})
  BY Zenon
<1>1. /\ others \in Seq(Server) /\ Len(others) = N - 1
      /\ \A k \in 1..(N - 1) : others[k] = IF k <= l THEN k - 1 ELSE k
  BY Zenon, <1>o, OthersIs
<1>2. PICK h \in Nat : h = N \div 2
  BY <1>n
<1>3. p = SubSeq(others, 1, h + 1) /\ q = Append(SubSeq(others, h + 2, N - 1), l)
  BY Zenon, <1>o, <1>p, <1>2 DEF MakePartition
<1>4. /\ p \in Seq(Server) /\ Len(p) = h + 1
      /\ \A k \in 1..(h + 1) : p[k] = others[k]
  BY <1>1, <1>2, <1>3, <1>n
<1>5. /\ q \in Seq(Server) /\ Len(q) = h
      /\ \A k \in 1..(h - 1) : q[k] = others[h + 1 + k]
      /\ q[h] = l
  BY SMTT(30), <1>1, <1>2, <1>3, <1>n
<1>6. \A k \in 1..(h + 1), m \in 1..h : p[k] # q[m]
  <2> SUFFICES ASSUME NEW k \in 1..(h + 1), NEW m \in 1..h PROVE p[k] # q[m]
    OBVIOUS
  <2>1. p[k] = IF k <= l THEN k - 1 ELSE k
    BY <1>1, <1>2, <1>4, <1>n
  <2>2. CASE m = h
    BY <1>5, <2>1, <2>2
  <2>3. CASE m # h
    <3>1. q[m] = IF h + 1 + m <= l THEN h + m ELSE h + 1 + m
      <4>1. m \in 1..(h - 1) /\ h + 1 + m \in 1..(N - 1) /\ (h + 1 + m) - 1 = h + m
        BY <1>2, <1>n, <2>3
      <4>2. q[m] = others[h + 1 + m]
        BY Zenon, <1>5, <4>1
      <4>3. others[h + 1 + m] = IF h + 1 + m <= l THEN (h + 1 + m) - 1 ELSE h + 1 + m
        BY Zenon, <1>1, <4>1
      <4> QED
        BY Zenon, <4>1, <4>2, <4>3
    <3> QED
      BY <2>1, <3>1, <1>n
  <2> QED
    BY <2>2, <2>3
<1>7. ASSUME NEW i \in Server
      PROVE  (\E k \in 1..(h + 1) : i = p[k]) \/ (\E m \in 1..h : i = q[m])
  <2>1. i \in Nat /\ i < N
    BY <1>n DEF Server
  <2>2. CASE i = l
    <3>1. h \in 1..h
      BY <1>2, <1>n
    <3> QED
      BY Zenon, <1>5, <2>2, <3>1
  <2>3. CASE i # l
    <3>1. PICK k \in 1..(N - 1) : k = IF i < l THEN i + 1 ELSE i
      BY <2>1, <2>3, <1>n
    <3>2. others[k] = i
      BY <1>1, <2>1, <2>3, <3>1, <1>n
    <3>3. CASE k <= h + 1
      <4>1. k \in 1..(h + 1)
        BY <3>3
      <4> QED
        BY Zenon, <1>4, <3>2, <4>1
    <3>4. CASE k > h + 1
      <4>1. PICK m \in 1..(h - 1) : k = h + 1 + m
        BY <1>2, <1>n, <3>4, k - h - 1 \in 1..(h - 1)
      <4>2. m \in 1..h /\ q[m] = i
        BY <1>5, <3>2, <4>1
      <4> QED
        BY Zenon, <4>2
    <3> QED
      BY <3>3, <3>4
  <2> QED
    BY <2>2, <2>3
<1>8. DOMAIN p = 1..(h + 1) /\ DOMAIN q = 1..h /\ h \in 1..h
  BY <1>2, <1>4, <1>5, <1>n
<1>9. Range(p) \subseteq Server /\ Range(q) \subseteq Server
  BY <1>4, <1>5 DEF Range
<1>10. Range(p) \cap Range(q) = {}
  BY Zenon, <1>6, <1>8 DEF Range
<1>11. Range(p) \cup Range(q) = Server
  BY Zenon, <1>7, <1>8, <1>9 DEF Range
<1>12. l \in Range(q)
  BY Zenon, <1>5, <1>8 DEF Range
<1> QED
  BY Zenon, <1>p, <1>2, <1>4, <1>5, <1>10, <1>11, <1>12 DEF Sides

\* The group's network and what a step leaves of it.
LEMMA NetIs == GrpTypeOK <=> Net \in NetType /\ up \in [Server -> BOOLEAN]
BY DEF GrpTypeOK, Net, NetType

\* A step that sets a network.
LEMMA NetSet ==
    ASSUME NEW net \in NetType, SetNet(net), up' \in [Server -> BOOLEAN]
    PROVE  GrpTypeOK' /\ connected' = net.connected /\ enabled' = net.enabled
BY DEF GrpTypeOK, SetNet, NetType

\* A step that clntEnabled with ConnectAll: everybody is connected.
LEMMA AllOnSet ==
    ASSUME Counting, NEW net \in NetType, SetNet(connectAll(net))
    PROVE  connected' = AllOn.connected /\ enabled' = AllOn.enabled
BY Zenon, ConnectAllIs DEF SetNet

\* The network with everybody on it has its type, mutual links and a precise mark.
LEMMA AllOnFacts ==
    /\ AllOn \in NetType
    /\ \A i, j \in Server : AllOn.connected[i] = TRUE /\ AllOn.enabled[i][j] = TRUE
BY DEF AllOn, NetType

\* The new clntEnabled of one server are disabled.
LEMMA StartEndsType ==
    ASSUME NEW net \in NetType, NEW i \in Server
    PROVE  StartEnds(net, i) \in NetType
BY Zenon DEF StartEnds, NetType

\* A restart, of one server or of all, connects everybody.
LEMMA RestartStep ==
    ASSUME Counting, GrpTypeOK,
           StartServers \/ \E i \in Server : Restart(i)
    PROVE  /\ GrpTypeOK'
           /\ \A i, j \in Server : connected'[i] = TRUE /\ enabled'[i][j] = TRUE
<1>1. connected' = AllOn.connected /\ enabled' = AllOn.enabled
  <2>1. CASE StartServers
    BY Zenon, <2>1, NetIs, StartAllType, AllOnSet DEF StartServers
  <2>2. ASSUME NEW i \in Server, Restart(i)
        PROVE  connected' = AllOn.connected /\ enabled' = AllOn.enabled
    BY Zenon, <2>2, NetIs, StartEndsType, AllOnSet DEF Restart
  <2> QED
    BY Zenon, <2>1, <2>2
<1>2. up' \in [Server -> BOOLEAN]
  BY Zenon DEF StartServers, Restart, GrpTypeOK
<1>3. SetNet(AllOn)
  BY Zenon, <1>1 DEF SetNet
<1> QED
  BY Zenon, <1>1, <1>2, <1>3, AllOnFacts, NetSet

\* Connecting one server.
LEMMA ConnectStep ==
    ASSUME GrpTypeOK, NEW i \in Server, ConnectOne(i)
    PROVE  /\ GrpTypeOK'
           /\ \A k \in Server : connected'[k] <=> k = i \/ connected[k]
           /\ \A k, l \in Server :
                 enabled'[k][l] <=> \/ k = i /\ (l = i \/ connected[l])
                                    \/ l = i /\ (k = i \/ connected[k])
                                    \/ enabled[k][l]
<1> DEFINE c == connect(Net, i, Server)
<1>1. Net \in NetType /\ up \in [Server -> BOOLEAN]
  BY Zenon, NetIs
<1>2. c \in NetType /\ Connects(Net, c, i, Server)
  <2>1. Server \in SUBSET Server
    BY Zenon
  <2> QED
    BY Zenon, <1>1, <2>1, SwitchType, ConnectIs
<1>3. SetNet(c) /\ up' = up
  BY Zenon DEF ConnectOne
<1> HIDE DEF c
<1>4. GrpTypeOK' /\ connected' = c.connected /\ enabled' = c.enabled
  BY Zenon, <1>1, <1>2, <1>3, NetSet
<1>5. Net.connected = connected /\ Net.enabled = enabled
  BY DEF Net
<1> QED
  BY Zenon, <1>2, <1>4, <1>5 DEF Connects

\* Disconnecting one server, or shutting it down.
LEMMA DisconnectStep ==
    ASSUME GrpTypeOK, NEW i \in Server, DisconnectAll(i) \/ ShutdownServer(i)
    PROVE  /\ GrpTypeOK'
           /\ \A k \in Server : connected'[k] <=> k # i /\ connected[k]
           /\ \A k, l \in Server : enabled'[k][l] <=> k # i /\ l # i /\ enabled[k][l]
<1> DEFINE d == disconnect(Net, i, Server)
<1>1. Net \in NetType /\ up \in [Server -> BOOLEAN]
  BY Zenon, NetIs
<1>2. d \in NetType /\ Disconnects(Net, d, i, Server)
  <2>1. Server \in SUBSET Server
    BY Zenon
  <2> QED
    BY Zenon, <1>1, <2>1, SwitchType, DisconnectIs
<1>3. SetNet(d) /\ up' \in [Server -> BOOLEAN]
  BY Zenon, <1>1 DEF DisconnectAll, ShutdownServer
<1> HIDE DEF d
<1>4. GrpTypeOK' /\ connected' = d.connected /\ enabled' = d.enabled
  BY Zenon, <1>1, <1>2, <1>3, NetSet
<1>5. Net.connected = connected /\ Net.enabled = enabled
  BY DEF Net
<1> QED
  BY Zenon, <1>2, <1>4, <1>5 DEF Disconnects

\* A partition into p and q.
LEMMA PartitionStep ==
    ASSUME Counting, GrpTypeOK, NEW p \in Seq(Server), NEW q \in Seq(Server),
           Range(p) \cap Range(q) = {}, Range(p) \cup Range(q) = Server,
           Partition(p, q)
    PROVE  /\ GrpTypeOK'
           /\ \A i \in Server : connected'[i]
           /\ \A i, j \in Server : enabled'[i][j] <=> (i \in Range(p) <=> j \in Range(p))
<1>1. Net \in NetType /\ up \in [Server -> BOOLEAN]
  BY Zenon, NetIs
<1>2. PICK r : r = separate(separate(Net, p, q), q, p)
  BY Zenon
<1>3. /\ r \in NetType
      /\ \A i \in Server : r.connected[i]
      /\ \A i, j \in Server : r.enabled[i][j] <=> (i \in Range(p) <=> j \in Range(p))
  BY <1>1, <1>2, PartitionIs
<1>4. SetNet(r) /\ up' = up
  BY Zenon, <1>2 DEF Partition
<1>5. GrpTypeOK' /\ connected' = r.connected /\ enabled' = r.enabled
  BY Zenon, <1>1, <1>3, <1>4, NetSet
<1> QED
  BY Zenon, <1>3, <1>5

\* A partition at random.
LEMMA PartitionerStep ==
    ASSUME Counting, GrpTypeOK, NEW s \in SUBSET Server, Partitioner(s)
    PROVE  /\ GrpTypeOK'
           /\ \A i \in Server : connected'[i]
           /\ \A i, j \in Server : enabled'[i][j] <=> (i \in s <=> j \in s)
<1>1. Server \ s \in SUBSET Server
  BY Zenon
<1>2. PICK p, q : p = InOrder(s) /\ q = InOrder(Server \ s)
  BY Zenon
<1>3. p \in Seq(Server) /\ Range(p) = s /\ q \in Seq(Server) /\ Range(q) = Server \ s
  BY Zenon, <1>1, <1>2, InOrderIs
<1>4. Partition(p, q)
  BY Zenon, <1>2 DEF Partitioner
<1>5. Range(p) \cap Range(q) = {} /\ Range(p) \cup Range(q) = Server
  BY Zenon, <1>3
<1>6. /\ GrpTypeOK'
      /\ \A i \in Server : connected'[i]
      /\ \A i, j \in Server : enabled'[i][j] <=> (i \in Range(p) <=> j \in Range(p))
  BY <1>3, <1>4, <1>5, PartitionStep
<1> QED
  BY Zenon, <1>3, <1>6

\* A partition around the leader leaves it with q, a minority.
LEMMA PartitionLeaderStep ==
    ASSUME Counting, GrpTypeOK, NEW l \in Server, PartitionLeader(l)
    PROVE  \E q \in SUBSET Server :
               /\ GrpTypeOK'
               /\ \A i \in Server : connected'[i]
               /\ \A i, j \in Server : enabled'[i][j] <=> (i \in q <=> j \in q)
               /\ l \in q /\ 2 * Cardinality(q) < N
<1>1. PICK p, q : p = MakePartition(l)[1] /\ q = MakePartition(l)[2]
  BY Zenon
<1>2. /\ p \in Seq(Server) /\ q \in Seq(Server)
      /\ Range(p) \cap Range(q) = {} /\ Range(p) \cup Range(q) = Server
      /\ l \in Range(q) /\ Len(q) = N \div 2
  BY Zenon, <1>1, MakePartitionIs DEF Sides
<1>3. Partition(p, q)
  BY Zenon, <1>1 DEF PartitionLeader
<1>4. /\ GrpTypeOK'
      /\ \A i \in Server : connected'[i]
      /\ \A i, j \in Server : enabled'[i][j] <=> (i \in Range(p) <=> j \in Range(p))
  BY <1>2, <1>3, PartitionStep
<1>5. \A i \in Server : i \in Range(p) <=> i \notin Range(q)
  BY Zenon, <1>2
<1>6. 2 * Cardinality(Range(q)) < N
  <2>1. N \div 2 \in Nat /\ 2 * (N \div 2) < N /\ N \in Nat
    BY GrpAssumption
  <2>2. Range(q) = {q[i] : i \in 1..Len(q)}
    <3>1. DOMAIN q = 1..Len(q)
      BY <1>2
    <3> QED
      BY Zenon, <3>1 DEF Range
  <2>3. Cardinality(Range(q)) \in 0..(N \div 2)
    BY Zenon, <1>2, <2>1, <2>2 DEF Counting
  <2> QED
    BY <2>1, <2>3
<1>7. Range(q) \in SUBSET Server
  BY Zenon, <1>2
<1> QED
  BY Zenon, <1>2, <1>4, <1>5, <1>6, <1>7

\* A new group is connected.
LEMMA NewNetIs ==
    ASSUME Counting
    PROVE  NewNet = AllOn
<1> DEFINE off == [i \in Server |-> FALSE]
           net == [connected |-> off, enabled |-> [i \in Server |-> off]]
<1>1. net \in NetType
  BY DEF NetType
<1>2. NewNet = connectAll(net)
  BY DEF NewNet
<1> HIDE DEF net
<1> QED
  BY Zenon, <1>1, <1>2, ConnectAllIs

\* The group at the start.
LEMMA GrpStart ==
    ASSUME Counting, GrpInit
    PROVE  GrpTypeOK /\ LinksMutual /\ Precise
<1>1. connected = AllOn.connected /\ enabled = AllOn.enabled /\ up = [i \in Server |-> TRUE]
  BY Zenon, NewNetIs DEF GrpInit
<1>2. GrpTypeOK
  BY <1>1, AllOnFacts DEF GrpTypeOK, NetType
<1> QED
  BY Zenon, <1>1, <1>2, AllOnFacts DEF LinksMutual, Precise

\* Every step keeps the types and the links mutual.
LEMMA GrpStep ==
    ASSUME Counting, GrpTypeOK, LinksMutual, [GrpNext]_grpVars
    PROVE  GrpTypeOK' /\ LinksMutual'
<1>1. ASSUME NEW i \in Server, ConnectOne(i) PROVE GrpTypeOK' /\ LinksMutual'
  BY Zenon, <1>1, ConnectStep DEF LinksMutual
<1>2. ASSUME NEW i \in Server, DisconnectAll(i) \/ ShutdownServer(i)
      PROVE  GrpTypeOK' /\ LinksMutual'
  BY Zenon, <1>2, DisconnectStep DEF LinksMutual
<1>3. CASE StartServers \/ \E i \in Server : Restart(i)
  BY Zenon, <1>3, RestartStep DEF LinksMutual
<1>4. ASSUME NEW s \in SUBSET Server, Partitioner(s) PROVE GrpTypeOK' /\ LinksMutual'
  BY Zenon, <1>4, PartitionerStep DEF LinksMutual
<1>5. ASSUME NEW l \in Server, PartitionLeader(l) PROVE GrpTypeOK' /\ LinksMutual'
  BY Zenon, <1>5, PartitionLeaderStep DEF LinksMutual
<1>6. CASE UNCHANGED grpVars
  BY Zenon, <1>6 DEF grpVars, GrpTypeOK, LinksMutual
<1> QED
  BY Zenon, <1>1, <1>2, <1>3, <1>4, <1>5, <1>6 DEF GrpNext, OneServer

\* Precise in the next state, with equivalence for equality.
LEMMA PreciseIff ==
    ASSUME GrpTypeOK', \A k, l \in Server : enabled'[k][l] <=> connected'[k] /\ connected'[l]
    PROVE  Precise'
<1> SUFFICES ASSUME NEW k \in Server, NEW l \in Server
             PROVE  enabled'[k][l] = (connected'[k] /\ connected'[l])
  BY Zenon DEF Precise
<1>1. enabled'[k][l] \in BOOLEAN
  BY DEF GrpTypeOK
<1> QED
  BY Zenon, <1>1

\* All operations but Partition keep connected precise.
LEMMA PreciseStep ==
    ASSUME Counting, GrpTypeOK, Precise, OneServer
    PROVE  Precise'
<1>b. /\ \A i \in Server : connected[i] \in BOOLEAN
      /\ \A i, j \in Server : enabled[i][j] \in BOOLEAN
  BY Zenon DEF GrpTypeOK
<1>1. ASSUME NEW i \in Server, ConnectOne(i) PROVE Precise'
  <2>1. GrpTypeOK' /\ \A k, l \in Server : enabled'[k][l] <=> connected'[k] /\ connected'[l]
    BY ZenonT(40), <1>1, ConnectStep DEF Precise
  <2> QED
    BY Zenon, <2>1, PreciseIff
<1>2. ASSUME NEW i \in Server, DisconnectAll(i) \/ ShutdownServer(i) PROVE Precise'
  <2>1. GrpTypeOK' /\ \A k, l \in Server : enabled'[k][l] <=> connected'[k] /\ connected'[l]
    BY Zenon, <1>2, DisconnectStep DEF Precise
  <2> QED
    BY Zenon, <2>1, PreciseIff
<1>3. CASE StartServers \/ \E i \in Server : Restart(i)
  BY Zenon, <1>3, RestartStep DEF Precise
<1> QED
  BY Zenon, <1>1, <1>2, <1>3 DEF OneServer

-----------------------------------------------------------------------------
(* The timeline *)

\* The parts of the two kinds of annotation, and of the copy.
LEMMA InfoFields ==
    ASSUME NEW a \in Info
    PROVE  /\ \A d \in a.annotations : d.Start \in Nat /\ d.End \in Nat /\ d.Description \in Texts
           /\ \A c \in a.continuous : c.start \in Nat /\ c.desp \in Texts
           /\ a.connected \in [Server -> BOOLEAN] /\ a.crashed \in [Server -> BOOLEAN]
           /\ a.annotations \in SUBSET [Start : Nat, End : Nat, Description : Texts]
<1>1. /\ a.annotations \in SUBSET [Start : Nat, End : Nat, Description : Texts]
      /\ a.continuous \in SUBSET [start : Nat, desp : Texts]
      /\ a.connected \in [Server -> BOOLEAN] /\ a.crashed \in [Server -> BOOLEAN]
  BY DEF Info
<1>2. \A d \in [Start : Nat, End : Nat, Description : Texts] :
         d.Start \in Nat /\ d.End \in Nat /\ d.Description \in Texts
  OBVIOUS
<1>3. \A c \in [start : Nat, desp : Texts] : c.start \in Nat /\ c.desp \in Texts
  OBVIOUS
<1> QED
  BY Zenon, <1>1, <1>2, <1>3

\* The texts are texts.
LEMMA TextType ==
    ASSUME NEW parts \in SUBSET SUBSET Server, NEW crash \in SUBSET Server
    PROVE  Text(parts, crash) \in Texts
BY DEF Text, Texts

\* So is that of the network.
LEMMA NetworkType == Network \in Texts
<1> DEFINE running == {i \in Server : up[i]}
           parts == {{j \in running : i = j \/ enabled[i][j]} : i \in running}
<1>1. parts \in SUBSET SUBSET Server /\ Server \ running \in SUBSET Server
  BY Zenon
<1>2. Network = Text(parts, Server \ running)
  BY DEF Network
<1> HIDE DEF parts, running
<1> QED
  BY Zenon, <1>1, <1>2, TextType

\* And that of the copy.
LEMMA FaultTextType == \A a : FaultText(a) \in Texts
<1> TAKE a
<1> DEFINE crash == {i \in Server : a.crashed[i]}
           conn  == {i \in Server \ crash : a.connected[i]}
           alone == {i \in Server \ crash : ~a.connected[i]}
           parts == {{i} : i \in alone} \cup {conn}
<1>1. parts \in SUBSET SUBSET Server /\ crash \in SUBSET Server
  BY Zenon
<1>2. FaultText(a) = Text(parts, crash)
  BY Zenon DEF FaultText
<1> HIDE DEF parts, crash
<1> QED
  BY Zenon, <1>1, <1>2, TextType

\* A copy without a fault shows the whole network.
LEMMA NoFaultText == ASSUME NEW a, ~IsFault(a) PROVE FaultText(a) = Healthy
<1> DEFINE crash == {i \in Server : a.crashed[i]}
           conn  == {i \in Server \ crash : a.connected[i]}
           alone == {i \in Server \ crash : ~a.connected[i]}
<1>1. crash = {} /\ alone = {}
  BY Zenon DEF IsFault
<1>2. conn = Server
  BY Zenon DEF IsFault
<1>3. {{i} : i \in alone} \cup {conn} = {Server}
  BY <1>1, <1>2
<1>4. FaultText(a) = Text({{i} : i \in alone} \cup {conn}, crash)
  BY Zenon DEF FaultText
<1> HIDE DEF crash, conn, alone
<1> QED
  BY Zenon, <1>1, <1>3, <1>4 DEF Healthy

\* A true copy of a precisely marked group shows the network as it is.
LEMMA CopyShows ==
    ASSUME Precise, CopyTrue
    PROVE  FaultText(an) = Network
<1> DEFINE running == {i \in Server : up[i]}
           cell(i) == {j \in running : i = j \/ enabled[i][j]}
           crash == {i \in Server : an.crashed[i]}
           conn  == {i \in Server \ crash : an.connected[i]}
           alone == {i \in Server \ crash : ~an.connected[i]}
           parts == {{i} : i \in alone} \cup {conn}
<1>1. crash = Server \ running
  BY Zenon DEF CopyTrue
<1>2. /\ \A i \in conn : i \in running /\ connected[i]
      /\ \A i \in alone : i \in running /\ ~connected[i]
      /\ \A i \in running : i \in conn \/ i \in alone
      /\ \A i \in running : connected[i] <=> i \in conn
  BY Zenon, <1>1 DEF CopyTrue
<1>3. \A i, j \in Server : enabled[i][j] <=> connected[i] /\ connected[j]
  BY Zenon DEF Precise
<1>4. FaultText(an) = Text(parts, crash) /\ Network = Text({cell(i) : i \in running}, Server \ running)
  BY Zenon DEF FaultText, Network
<1>r. running \subseteq Server
  BY Zenon
<1> HIDE DEF crash, conn, alone
<1>5. \A i \in alone : cell(i) = {i}
  BY Zenon, <1>2, <1>3, <1>r
<1>6. \A i \in conn : cell(i) = conn
  BY Zenon, <1>2, <1>3, <1>r
<1> HIDE DEF cell, running
<1>7. parts \ {{}} = {cell(i) : i \in running} \ {{}}
  <2>1. ASSUME NEW p \in parts, p # {} PROVE p \in {cell(i) : i \in running}
    <3>1. CASE p = conn
      <4>1. PICK i : i \in conn
        BY Zenon, <2>1, <3>1
      <4> QED
        BY Zenon, <3>1, <4>1, <1>2, <1>6
    <3>2. CASE \E i \in alone : p = {i}
      BY Zenon, <3>2, <1>2, <1>5
    <3> QED
      BY Zenon, <3>1, <3>2
  <2>2. ASSUME NEW i \in running PROVE cell(i) \in parts
    BY Zenon, <1>2, <1>5, <1>6
  <2> QED
    BY Zenon, <2>1, <2>2
<1> HIDE DEF parts
<1> QED
  BY Zenon, <1>1, <1>4, <1>7 DEF Text

\* The text of a partition shows the network after it.
LEMMA PartitionShows ==
    ASSUME NEW s \in SUBSET Server, \A i \in Server : up'[i],
           \A i, j \in Server : enabled'[i][j] <=> (i \in s <=> j \in s)
    PROVE  Text({s, Server \ s}, {}) = Network'
<1> DEFINE running == {i \in Server : up'[i]}
           cell(i) == {j \in running : i = j \/ enabled'[i][j]}
<1>1. running = Server
  BY Zenon
<1>2. Network' = Text({cell(i) : i \in running}, Server \ running)
  BY DEF Network, Text
<1>3. \A i \in s : cell(i) = s
  BY Zenon, <1>1
<1>4. \A i \in Server \ s : cell(i) = Server \ s
  BY Zenon, <1>1
<1> HIDE DEF cell, running
<1>5. {s, Server \ s} \ {{}} = {cell(i) : i \in running} \ {{}}
  <2>1. ASSUME NEW p \in {s, Server \ s}, p # {} PROVE p \in {cell(i) : i \in running}
    <3>1. PICK i : i \in p
      BY Zenon, <2>1
    <3> QED
      BY Zenon, <3>1, <1>1, <1>3, <1>4
  <2>2. ASSUME NEW i \in running PROVE cell(i) \in {s, Server \ s}
    BY Zenon, <1>1, <1>3, <1>4
  <2> QED
    BY Zenon, <2>1, <2>2
<1>6. Server \ running = {}
  BY Zenon, <1>1
<1> QED
  BY Zenon, <1>2, <1>5, <1>6 DEF Text

\* A moment passes: the open annotation shows the network of that moment.
LEMMA MomentPasses ==
    ASSUME an \in Info, was \in Seq(Texts), Timeline(an, was),
           \A c \in an.continuous : c.desp = Network,
           Network # Healthy => an.continuous # {}
    PROVE  Timeline(an, Append(was, Network))
<1>w. PICK w : w = Append(was, Network)
  BY Zenon
<1>1. /\ Len(was) \in Nat /\ Len(w) = Len(was) + 1 /\ w[Len(w)] = Network
      /\ \A n \in 1..Len(was) : w[n] = was[n]
  BY <1>w, NetworkType
<1>f. /\ \A d \in Faults(an) : d.Start \in Nat /\ d.End \in Nat
      /\ \A c \in an.continuous : c.start \in Nat
  BY Zenon, InfoFields DEF Faults
<1>n. \A n \in 1..Len(w) : n \in 1..Len(was) \/ (n = Len(w) /\ n > Len(was))
  BY <1>1
<1>2. ASSUME NEW d \in Faults(an)
      PROVE  /\ 0 < d.Start /\ d.Start <= d.End /\ d.End <= Len(w)
             /\ \A n \in 1..Len(w) : d.Start < n /\ n <= d.End => w[n] = d.Description
  <2>1. 0 < d.Start /\ d.Start <= d.End /\ d.End <= Len(was)
    BY Zenon DEF Timeline
  <2>2. \A n \in 1..Len(was) : d.Start < n /\ n <= d.End => was[n] = d.Description
    BY Zenon DEF Timeline
  <2>3. d.End <= Len(w) /\ \A n \in 1..Len(w) : n <= d.End => n \in 1..Len(was)
    BY <2>1, <1>1, <1>f
  <2> QED
    BY Zenon, <2>1, <2>2, <2>3, <1>1
<1>3. ASSUME NEW c \in an.continuous
      PROVE  /\ 0 < c.start /\ c.start <= Len(w)
             /\ \A n \in 1..Len(w) : c.start < n => w[n] = c.desp
  <2>1. 0 < c.start /\ c.start <= Len(was)
    BY Zenon DEF Timeline
  <2>2. \A n \in 1..Len(was) : c.start < n => was[n] = c.desp
    BY Zenon DEF Timeline
  <2>3. c.start <= Len(w)
    BY <2>1, <1>1, <1>f
  <2> QED
    BY Zenon, <2>1, <2>2, <2>3, <1>1, <1>n
<1>4. ASSUME NEW n \in 1..Len(w), w[n] # Healthy
      PROVE  \/ \E d \in Faults(an) : d.Start < n /\ n <= d.End
             \/ \E c \in an.continuous : c.start < n
  <2>1. CASE n \in 1..Len(was)
    BY Zenon, <1>4, <2>1, <1>1 DEF Timeline
  <2>2. CASE n = Len(w)
    <3>1. PICK c : c \in an.continuous
      BY Zenon, <1>1, <1>4, <2>2
    <3>2. c.start <= Len(was)
      BY Zenon, <3>1 DEF Timeline
    <3>3. c.start < n
      BY <3>1, <3>2, <2>2, <1>1, <1>f
    <3> QED
      BY Zenon, <3>1, <3>3
  <2> QED
    BY Zenon, <2>1, <2>2, <1>n
<1> QED
  BY Zenon, <1>w, <1>2, <1>3, <1>4 DEF Timeline

\* A timeline that is true, and its times: w holds those up to the step's own.
\* What the step has added so far has a beginning.
Drawn(a, w) ==
    a \in Info /\ Timeline(a, w) /\ Begun(a) /\ Len(w) = t /\ t \in Nat /\ t > 0

\* The copy of a is that of b.
SameCopy(a, b) == a.connected = b.connected /\ a.crashed = b.crashed

\* Closing what is open keeps the timeline true, also when something opens then.
LEMMA CloseKeeps ==
    ASSUME NEW a, NEW w, Drawn(a, w), NEW b \in Info,
           b.annotations = a.annotations \cup {Closed(c) : c \in a.continuous},
           \A c \in b.continuous : c.start = t
    PROVE  Drawn(b, w)
<1>d. a \in Info /\ Timeline(a, w) /\ Begun(a) /\ Len(w) = t /\ t \in Nat /\ t > 0
  BY Zenon DEF Drawn
<1>c. \A c \in a.continuous :
        Closed(c).Start = c.start /\ Closed(c).End = t /\ Closed(c).Description = c.desp
  BY DEF Closed
<1>s. \A c \in a.continuous : c.start \in Nat /\ 0 < c.start /\ c.start <= t
  BY Zenon, <1>d, InfoFields DEF Timeline
<1>g. \A c \in a.continuous : c.start > 0
  BY <1>s
<1>a. Faults(b) = Faults(a) \cup {Closed(c) : c \in a.continuous}
  <2>1. \A c \in a.continuous : Closed(c) \in b.annotations /\ Closed(c).Start > 0
    BY Zenon, <1>c, <1>g
  <2> QED
    BY Zenon, <2>1 DEF Faults
<1>n. \A n \in 1..t : n <= t
  BY <1>d
<1>2. ASSUME NEW d \in Faults(b)
      PROVE  /\ 0 < d.Start /\ d.Start <= d.End /\ d.End <= Len(w)
             /\ \A n \in 1..Len(w) : d.Start < n /\ n <= d.End => w[n] = d.Description
  <2>1. CASE d \in Faults(a)
    BY Zenon, <2>1, <1>d DEF Timeline
  <2>2. CASE \E c \in a.continuous : d = Closed(c)
    <3>1. PICK c \in a.continuous : d = Closed(c)
      BY Zenon, <2>2
    <3>2. d.Start = c.start /\ d.End = t /\ d.Description = c.desp
      BY Zenon, <3>1, <1>c
    <3>3. t <= t
      BY <1>d
    <3> QED
      BY Zenon, <3>1, <3>2, <3>3, <1>d DEF Timeline
  <2> QED
    BY Zenon, <1>a, <2>1, <2>2
<1>3. ASSUME NEW c \in b.continuous
      PROVE  /\ 0 < c.start /\ c.start <= Len(w)
             /\ \A n \in 1..Len(w) : c.start < n => w[n] = c.desp
  BY <1>3, <1>d
<1>4. ASSUME NEW n \in 1..Len(w), w[n] # Healthy
      PROVE  \E d \in Faults(b) : d.Start < n /\ n <= d.End
  <2>1. CASE \E d \in Faults(a) : d.Start < n /\ n <= d.End
    BY Zenon, <1>a, <2>1
  <2>2. ASSUME NEW c \in a.continuous, c.start < n PROVE \E d \in Faults(b) : d.Start < n /\ n <= d.End
    <3>1. Closed(c) \in Faults(b) /\ n <= t
      BY Zenon, <1>a, <1>d, <1>n
    <3> QED
      BY Zenon, <3>1, <2>2, <1>c
  <2> QED
    BY Zenon, <1>d, <1>4, <2>1, <2>2 DEF Timeline
<1>5. Timeline(b, w)
  BY Zenon, <1>2, <1>3, <1>4 DEF Timeline
<1>6. Begun(b)
  BY Zenon, <1>d, <1>c, <1>s DEF Begun
<1> QED
  BY Zenon, <1>d, <1>5, <1>6 DEF Drawn

\* What concretizing adds is an annotation.
LEMMA ClosedType ==
    ASSUME NEW a \in Info, t \in Nat
    PROVE  {Closed(c) : c \in a.continuous} \in SUBSET [Start : Nat, End : Nat, Description : Texts]
<1>1. \A c \in a.continuous : c.start \in Nat /\ c.desp \in Texts
  BY Zenon, InfoFields
<1> QED
  BY <1>1 DEF Closed

\* b is a with x and y for its annotations.
With(b, a, x, y) == b \in Info /\ SameCopy(b, a) /\ b.annotations = x /\ b.continuous = y

\* An Info with other annotations.
LEMMA InfoWith ==
    ASSUME NEW a \in Info,
           NEW x \in SUBSET [Start : Nat, End : Nat, Description : Texts],
           NEW y \in SUBSET [start : Nat, desp : Texts]
    PROVE  With([a EXCEPT !.annotations = x, !.continuous = y], a, x, y)
<1>1. PICK X : X = SUBSET [Start : Nat, End : Nat, Description : Texts]
  BY Zenon
<1>2. PICK Y : Y = SUBSET [start : Nat, desp : Texts]
  BY Zenon
<1>3. PICK Z : Z = [Server -> BOOLEAN]
  BY Zenon
<1>4. Info = [annotations : X, continuous : Y, connected : Z, crashed : Z]
  BY Zenon, <1>1, <1>2, <1>3 DEF Info
<1>5. x \in X /\ y \in Y
  BY Zenon, <1>1, <1>2
<1>6. PICK b : b = [a EXCEPT !.annotations = x, !.continuous = y]
  BY Zenon
<1>7. a \in [annotations : X, continuous : Y, connected : Z, crashed : Z]
  BY Zenon, <1>4
<1>8. b.annotations = x /\ b.continuous = y /\ b.connected = a.connected /\ b.crashed = a.crashed
  BY <1>6, <1>7
<1>9. b \in [annotations : X, continuous : Y, connected : Z, crashed : Z]
  <2>1. PICK c : c = [a EXCEPT !.annotations = x]
    BY Zenon
  <2>2. c \in [annotations : X, continuous : Y, connected : Z, crashed : Z]
    BY <1>5, <1>7, <2>1
  <2>3. b = [c EXCEPT !.continuous = y]
    BY Zenon, <1>6, <2>1
  <2> QED
    BY <1>5, <2>2, <2>3
<1> QED
  BY Zenon, <1>4, <1>6, <1>8, <1>9 DEF With, SameCopy

\* annotateContinuousColor.
LEMMA ColorKeeps ==
    ASSUME NEW a, NEW w, Drawn(a, w), NEW text \in Texts,
           NEW b, b = annotateContinuousColor(a, text)
    PROVE  Drawn(b, w) /\ SameCopy(b, a) /\ Open(b, text)
<1>1. a \in Info /\ t \in Nat
  BY Zenon DEF Drawn
<1>2. PICK cl : cl = {Closed(c) : c \in a.continuous}
  BY Zenon
<1>3. cl \in SUBSET [Start : Nat, End : Nat, Description : Texts]
  BY Zenon, <1>1, <1>2, ClosedType
<1>4. b = [a EXCEPT !.annotations = @ \cup cl, !.continuous = {[start |-> t, desp |-> text]}]
  BY Zenon, <1>2 DEF annotateContinuousColor
<1>5. {[start |-> t, desp |-> text]} \in SUBSET [start : Nat, desp : Texts]
  BY <1>1
<1>6. a.annotations \cup cl \in SUBSET [Start : Nat, End : Nat, Description : Texts]
  BY Zenon, <1>1, <1>3, InfoFields
<1>7. /\ b \in Info /\ SameCopy(b, a)
      /\ b.annotations = a.annotations \cup cl /\ b.continuous = {[start |-> t, desp |-> text]}
  <2>1. PICK x, y : x = a.annotations \cup cl /\ y = {[start |-> t, desp |-> text]}
    BY Zenon
  <2>2. b = [a EXCEPT !.annotations = x, !.continuous = y]
    BY Zenon, <1>4, <2>1
  <2>3. With([a EXCEPT !.annotations = x, !.continuous = y], a, x, y)
    BY Zenon, <1>1, <1>5, <1>6, <2>1, InfoWith
  <2> QED
    BY Zenon, <2>1, <2>2, <2>3 DEF With
<1>8. \A c \in b.continuous : c.start = t /\ c.desp = text
  BY <1>7
<1>9. Open(b, text)
  BY Zenon, <1>7, <1>8 DEF Open
<1> QED
  BY Zenon, <1>2, <1>7, <1>8, <1>9, CloseKeeps

\* annotateContinuousEnd, when there is something to end.
LEMMA EndKeeps ==
    ASSUME NEW a, NEW w, Drawn(a, w), a.continuous # {},
           NEW b, b = annotateContinuousEnd(a)
    PROVE  Drawn(b, w) /\ SameCopy(b, a) /\ b.continuous = {}
<1>1. a \in Info /\ t \in Nat
  BY Zenon DEF Drawn
<1>2. PICK cl : cl = {Closed(c) : c \in a.continuous}
  BY Zenon
<1>3. cl \in SUBSET [Start : Nat, End : Nat, Description : Texts]
  BY Zenon, <1>1, <1>2, ClosedType
<1>4. b = [a EXCEPT !.annotations = @ \cup cl, !.continuous = {}]
  BY Zenon, <1>2 DEF annotateContinuousEnd
<1>5. {} \in SUBSET [start : Nat, desp : Texts]
  BY Zenon
<1>6. a.annotations \cup cl \in SUBSET [Start : Nat, End : Nat, Description : Texts]
  BY Zenon, <1>1, <1>3, InfoFields
<1>7. b \in Info /\ SameCopy(b, a) /\ b.annotations = a.annotations \cup cl /\ b.continuous = {}
  <2>1. PICK x, y : x = a.annotations \cup cl /\ y = {}
    BY Zenon
  <2>2. b = [a EXCEPT !.annotations = x, !.continuous = y]
    BY Zenon, <1>4, <2>1
  <2>3. With([a EXCEPT !.annotations = x, !.continuous = y], a, x, y)
    BY Zenon, <1>1, <1>5, <1>6, <2>1, InfoWith
  <2> QED
    BY Zenon, <2>1, <2>2, <2>3 DEF With
<1> QED
  BY Zenon, <1>2, <1>7, CloseKeeps

\* Being annotated is about the copy and what is open.
LEMMA SameText ==
    ASSUME NEW a, NEW b, SameCopy(a, b)
    PROVE  (IsFault(a) <=> IsFault(b)) /\ FaultText(a) = FaultText(b)
BY Zenon DEF SameCopy, IsFault, FaultText

\* annotateFault shows the copy.
LEMMA FaultKeeps ==
    ASSUME NEW a, NEW w, Drawn(a, w), ~IsFault(a) => a.continuous # {},
           NEW b, b = annotateFault(a)
    PROVE  Drawn(b, w) /\ SameCopy(b, a) /\ Annotated(b)
<1>1. CASE IsFault(a)
  <2>1. b = annotateContinuousColor(a, FaultText(a))
    BY Zenon, <1>1 DEF annotateFault
  <2>2. Drawn(b, w) /\ SameCopy(b, a) /\ Open(b, FaultText(a))
    BY Zenon, <2>1, FaultTextType, ColorKeeps
  <2> QED
    BY Zenon, <1>1, <2>2, SameText DEF Annotated
<1>2. CASE ~IsFault(a)
  <2>1. b = annotateContinuousEnd(a)
    BY Zenon, <1>2 DEF annotateFault
  <2>2. Drawn(b, w) /\ SameCopy(b, a) /\ b.continuous = {}
    BY Zenon, <1>2, <2>1, EndKeeps
  <2> QED
    BY Zenon, <1>2, <2>2, SameText DEF Annotated
<1> QED
  BY Zenon, <1>1, <1>2

\* A call that changes the copy to that of b annotates it.
LEMMA ChangeKeeps ==
    ASSUME NEW a, NEW w, Drawn(a, w), Annotated(a),
           NEW b \in Info, b.annotations = a.annotations, b.continuous = a.continuous,
           NEW c, c = IfChanged(a, b)
    PROVE  Drawn(c, w) /\ SameCopy(c, b) /\ Annotated(c)
<1>1. CASE a = b
  BY Zenon, <1>1 DEF IfChanged, SameCopy
<1>2. CASE a # b
  <2>1. c = annotateFault(b)
    BY Zenon, <1>2 DEF IfChanged
  <2>2. Drawn(b, w)
    BY Zenon DEF Drawn, Timeline, Faults, Begun
  <2>3. ASSUME ~IsFault(b), ~IsFault(a) PROVE FALSE
    <3>1. a \in Info
      BY Zenon DEF Drawn
    <3>2. /\ a.connected \in [Server -> BOOLEAN] /\ a.crashed \in [Server -> BOOLEAN]
          /\ b.connected \in [Server -> BOOLEAN] /\ b.crashed \in [Server -> BOOLEAN]
      BY Zenon, <3>1, InfoFields
    <3>3. \A i \in Server : a.connected[i] /\ b.connected[i] /\ ~a.crashed[i] /\ ~b.crashed[i]
      BY Zenon, <2>3 DEF IsFault
    <3>4. a.connected = b.connected
      BY <3>2, <3>3
    <3>5. a.crashed = b.crashed
      BY <3>2, <3>3
    <3> QED
      BY <1>2, <3>1, <3>4, <3>5 DEF Info
  <2>4. ~IsFault(b) => b.continuous # {}
    <3>1. IsFault(a) => a.continuous # {}
      BY Zenon DEF Annotated, Open
    <3> QED
      BY Zenon, <2>3, <3>1
  <2> QED
    BY Zenon, <2>1, <2>2, <2>4, FaultKeeps
<1> QED
  BY Zenon, <1>1, <1>2

\* The timeline of a is true, and shows a copy with the given parts.
Copied(a, w, conn, cr) == Drawn(a, w) /\ Annotated(a) /\ a.connected = conn /\ a.crashed = cr

\* An Info with another copy.
LEMMA CopyWith ==
    ASSUME NEW a \in Info, NEW conn \in [Server -> BOOLEAN], NEW cr \in [Server -> BOOLEAN]
    PROVE  /\ With([a EXCEPT !.connected = conn], [connected |-> conn, crashed |-> a.crashed],
                   a.annotations, a.continuous)
           /\ With([a EXCEPT !.crashed = cr], [connected |-> a.connected, crashed |-> cr],
                   a.annotations, a.continuous)
<1>1. PICK X : X = SUBSET [Start : Nat, End : Nat, Description : Texts]
  BY Zenon
<1>2. PICK Y : Y = SUBSET [start : Nat, desp : Texts]
  BY Zenon
<1>3. PICK Z : Z = [Server -> BOOLEAN]
  BY Zenon
<1>4. Info = [annotations : X, continuous : Y, connected : Z, crashed : Z]
  BY Zenon, <1>1, <1>2, <1>3 DEF Info
<1>5. conn \in Z /\ cr \in Z /\ a \in [annotations : X, continuous : Y, connected : Z, crashed : Z]
  BY Zenon, <1>3, <1>4
<1>6. PICK b : b = [a EXCEPT !.connected = conn]
  BY Zenon
<1>7. /\ b.annotations = a.annotations /\ b.continuous = a.continuous
      /\ b.connected = conn /\ b.crashed = a.crashed
      /\ b \in [annotations : X, continuous : Y, connected : Z, crashed : Z]
  BY <1>5, <1>6
<1>8. PICK c : c = [a EXCEPT !.crashed = cr]
  BY Zenon
<1>9. /\ c.annotations = a.annotations /\ c.continuous = a.continuous
      /\ c.connected = a.connected /\ c.crashed = cr
      /\ c \in [annotations : X, continuous : Y, connected : Z, crashed : Z]
  BY <1>5, <1>8
<1>10. With(b, [connected |-> conn, crashed |-> a.crashed], a.annotations, a.continuous)
  BY <1>4, <1>7 DEF With, SameCopy
<1>11. With(c, [connected |-> a.connected, crashed |-> cr], a.annotations, a.continuous)
  BY <1>4, <1>9 DEF With, SameCopy
<1> QED
  BY Zenon, <1>6, <1>8, <1>10, <1>11

\* AnnotateConnection.
LEMMA ConnectionKeeps ==
    ASSUME NEW a, NEW w, Drawn(a, w), Annotated(a), NEW conn \in [Server -> BOOLEAN]
    PROVE  Copied(AnnotateConnection(a, conn), w, conn, a.crashed)
<1>1. a \in Info /\ a.crashed \in [Server -> BOOLEAN]
  BY Zenon, InfoFields DEF Drawn
<1>2. PICK b : b = [a EXCEPT !.connected = conn]
  BY Zenon
<1>3. With(b, [connected |-> conn, crashed |-> a.crashed], a.annotations, a.continuous)
  BY Zenon, <1>1, <1>2, CopyWith
<1>4. b.connected = conn /\ b.crashed = a.crashed
  BY <1>3 DEF With, SameCopy
<1>5. PICK c : c = IfChanged(a, b)
  BY Zenon
<1>6. Drawn(c, w) /\ SameCopy(c, b) /\ Annotated(c)
  BY Zenon, <1>3, <1>5, ChangeKeeps DEF With
<1>7. AnnotateConnection(a, conn) = c
  BY Zenon, <1>2, <1>5 DEF AnnotateConnection
<1> QED
  BY Zenon, <1>4, <1>6, <1>7 DEF Copied, SameCopy

\* AnnotateShutdown and AnnotateRestart.
LEMMA CrashedKeeps ==
    ASSUME NEW a, NEW w, Drawn(a, w), Annotated(a), NEW s, NEW v \in BOOLEAN
    PROVE  Copied(IfChanged(a, SetCrashed(a, s, v)), w, a.connected,
                  [i \in Server |-> IF i \in s THEN v ELSE a.crashed[i]])
<1>1. a \in Info /\ a.crashed \in [Server -> BOOLEAN]
  BY Zenon, InfoFields DEF Drawn
<1>2. PICK cr : cr = [i \in Server |-> IF i \in s THEN v ELSE a.crashed[i]]
  BY Zenon
<1>3. cr \in [Server -> BOOLEAN]
  BY <1>1, <1>2
<1>4. PICK b : b = [a EXCEPT !.crashed = cr]
  BY Zenon
<1>5. With(b, [connected |-> a.connected, crashed |-> cr], a.annotations, a.continuous)
  BY Zenon, <1>1, <1>3, <1>4, CopyWith
<1>6. b.connected = a.connected /\ b.crashed = cr
  BY <1>5 DEF With, SameCopy
<1>7. PICK c : c = IfChanged(a, b)
  BY Zenon
<1>8. Drawn(c, w) /\ SameCopy(c, b) /\ Annotated(c)
  BY Zenon, <1>5, <1>7, ChangeKeeps DEF With
<1>9. SetCrashed(a, s, v) = b
  BY Zenon, <1>2, <1>4 DEF SetCrashed
<1> QED
  BY Zenon, <1>2, <1>6, <1>7, <1>8, <1>9 DEF Copied, SameCopy

\* The copy that AnnotateClearFailure makes.
LEMMA ClearedCopy ==
    ASSUME NEW a \in Info,
           NEW c, c = [a EXCEPT !.connected = NewInfo.connected, !.crashed = NewInfo.crashed]
    PROVE  /\ c \in Info /\ c.annotations = a.annotations /\ c.continuous = a.continuous
           /\ c.connected = NewInfo.connected /\ c.crashed = NewInfo.crashed
<1>2. NewInfo.connected \in [Server -> BOOLEAN] /\ NewInfo.crashed \in [Server -> BOOLEAN]
  BY DEF NewInfo
<1>3. PICK b : b = [a EXCEPT !.connected = NewInfo.connected]
  BY Zenon
<1>4. With(b, [connected |-> NewInfo.connected, crashed |-> a.crashed], a.annotations, a.continuous)
  BY Zenon, <1>2, <1>3, CopyWith
<1>5. c = [b EXCEPT !.crashed = NewInfo.crashed]
  BY Zenon, <1>3
<1>6. b \in Info /\ b.connected = NewInfo.connected
  BY <1>4 DEF With, SameCopy
<1>7. With(c, [connected |-> b.connected, crashed |-> NewInfo.crashed], b.annotations, b.continuous)
  BY Zenon, <1>2, <1>5, <1>6, CopyWith
<1> QED
  BY <1>4, <1>6, <1>7 DEF With, SameCopy

\* AnnotateClearFailure, when there is something to end.
LEMMA ClearKeeps ==
    ASSUME NEW a, NEW w, Drawn(a, w), a.continuous # {}
    PROVE  Copied(AnnotateClearFailure(a), w, NewInfo.connected, NewInfo.crashed)
<1>1. a \in Info
  BY Zenon DEF Drawn
<1>5. PICK c : c = [a EXCEPT !.connected = NewInfo.connected, !.crashed = NewInfo.crashed]
  BY Zenon
<1>8. /\ c \in Info /\ c.annotations = a.annotations /\ c.continuous = a.continuous
      /\ c.connected = NewInfo.connected /\ c.crashed = NewInfo.crashed
  BY Zenon, <1>1, <1>5, ClearedCopy
<1>9. Drawn(c, w)
  BY Zenon, <1>8 DEF Drawn, Timeline, Faults, Begun
<1>10. PICK d : d = annotateContinuousEnd(c)
  BY Zenon
<1>11. Drawn(d, w) /\ SameCopy(d, c) /\ d.continuous = {}
  BY Zenon, <1>8, <1>9, <1>10, EndKeeps
<1>12. ~IsFault(d)
  <2>1. \A i \in Server : NewInfo.connected[i] /\ ~NewInfo.crashed[i]
    BY DEF NewInfo
  <2> QED
    BY Zenon, <1>8, <1>11, <2>1 DEF IsFault, SameCopy
<1>13. AnnotateClearFailure(a) = d
  BY Zenon, <1>5, <1>10 DEF AnnotateClearFailure
<1> QED
  BY Zenon, <1>8, <1>11, <1>12, <1>13 DEF Copied, SameCopy, Annotated


\* AnnotateClearFailure, when there is nothing to end: the zero value that it adds
\* shows nothing.
LEMMA ClearNothing ==
    ASSUME NEW a, NEW w, Drawn(a, w), a.continuous = {},
           NEW b, b = AnnotateClearFailure(a)
    PROVE  /\ b \in Info /\ Timeline(b, w) /\ Annotated(b)
           /\ b.connected = NewInfo.connected /\ b.crashed = NewInfo.crashed
<1>d. a \in Info /\ Timeline(a, w) /\ t \in Nat
  BY Zenon DEF Drawn
<1>c. PICK c : c = [a EXCEPT !.connected = NewInfo.connected, !.crashed = NewInfo.crashed]
  BY Zenon
<1>1. /\ c \in Info /\ c.annotations = a.annotations /\ c.continuous = a.continuous
      /\ c.connected = NewInfo.connected /\ c.crashed = NewInfo.crashed
  BY Zenon, <1>d, <1>c, ClearedCopy
<1>z. PICK z : z = [Start |-> 0, End |-> t, Description |-> NoText]
  BY Zenon
<1>2. /\ z \in [Start : Nat, End : Nat, Description : Texts]
      /\ ~(z.Start > 0) /\ z.Description = NoText
  <2>1. NoText \in Texts
    BY TextType DEF NoText
  <2> QED
    BY <1>d, <1>z, <2>1
<1>3. PICK x, y : x = a.annotations \cup {z} /\ y = {}
  BY Zenon
<1>4. b = [c EXCEPT !.annotations = x, !.continuous = y]
  <2>1. b = annotateContinuousEnd(c)
    BY Zenon, <1>c DEF AnnotateClearFailure
  <2>2. {Closed(o) : o \in {[start |-> 0, desp |-> NoText]}} = {z}
    BY <1>z DEF Closed
  <2> QED
    BY Zenon, <1>1, <1>3, <2>1, <2>2 DEF annotateContinuousEnd
<1>5. x \in SUBSET [Start : Nat, End : Nat, Description : Texts] /\ y \in SUBSET [start : Nat, desp : Texts]
  BY Zenon, <1>d, <1>2, <1>3, InfoFields
<1>6. With(b, c, x, y)
  <2>1. With([c EXCEPT !.annotations = x, !.continuous = y], c, x, y)
    BY Zenon, <1>1, <1>5, InfoWith
  <2> QED
    BY Zenon, <1>4, <2>1
<1>7. /\ b \in Info /\ b.connected = NewInfo.connected /\ b.crashed = NewInfo.crashed
      /\ b.annotations = a.annotations \cup {z} /\ b.continuous = a.continuous
  BY Zenon, <1>1, <1>3, <1>6 DEF With, SameCopy
<1>8. Faults(b) = Faults(a)
  BY Zenon, <1>2, <1>7 DEF Faults
<1>9. Timeline(b, w)
  BY Zenon, <1>d, <1>7, <1>8 DEF Timeline
<1>10. ~IsFault(b)
  <2>1. \A i \in Server : NewInfo.connected[i] /\ ~NewInfo.crashed[i]
    BY DEF NewInfo
  <2> QED
    BY Zenon, <1>7, <2>1 DEF IsFault
<1> QED
  BY Zenon, <1>7, <1>9, <1>10 DEF Annotated

\* Every server of a whole network is up.
LEMMA HealthyUp == ASSUME Network = Healthy PROVE \A i \in Server : up[i]
<1>1. Network.crash = Server \ {i \in Server : up[i]} /\ Healthy.crash = {}
  BY DEF Network, Healthy, Text
<1> QED
  BY Zenon, <1>1

\* What is open shows the network, and something is when it is not whole.
LEMMA OpenShows ==
    ASSUME TimelineInv
    PROVE  (\A c \in an.continuous : c.desp = Network) /\ (Network # Healthy => an.continuous # {})
<1>1. CASE parted
  BY Zenon, <1>1 DEF TimelineInv, Open
<1>2. CASE ~parted /\ IsFault(an)
  <2>1. Open(an, FaultText(an)) /\ FaultText(an) = Network
    BY Zenon, <1>2, CopyShows DEF TimelineInv, Annotated
  <2> QED
    BY Zenon, <2>1 DEF Open
<1>3. CASE ~parted /\ ~IsFault(an)
  <2>1. an.continuous = {} /\ FaultText(an) = Network
    BY Zenon, <1>3, CopyShows DEF TimelineInv, Annotated
  <2>2. Network = Healthy
    BY Zenon, <1>3, <2>1, NoFaultText
  <2> QED
    BY Zenon, <2>1, <2>2
<1> QED
  BY Zenon, <1>1, <1>2, <1>3

\* The timeline at the time of a step, before the step annotates.
LEMMA BeforeStep == ASSUME TypeOK, TimelineInv PROVE Drawn(an, Append(was, Network))
<1>1. PICK w : w = Append(was, Network)
  BY Zenon
<1>2. an \in Info /\ was \in Seq(Texts) /\ Timeline(an, was)
  BY Zenon DEF TypeOK, TimelineInv
<1>3. Timeline(an, w)
  BY Zenon, <1>1, <1>2, OpenShows, MomentPasses
<1>4. Len(w) = t /\ t \in Nat /\ t > 0
  BY <1>1, <1>2, NetworkType DEF t, now
<1> QED
  BY Zenon, <1>1, <1>2, <1>3, <1>4 DEF Drawn, Begun

\* The timeline after a step.
LEMMA AfterStep ==
    ASSUME TypeOK, NEW a, Drawn(a, Append(was, Network)), Step(a), parted' \in BOOLEAN
    PROVE  TypeOK' /\ Timeline(an', was') /\ Begun(an')
<1>1. an' = a /\ was' = Append(was, Network) /\ now < MaxTime
  BY Zenon DEF Step
<1>2. an' \in Info /\ Timeline(an', was') /\ Begun(an')
  BY Zenon, <1>1 DEF Drawn
<1>3. was' \in Seq(Texts) /\ now' <= MaxTime
  BY <1>1, NetworkType, TimeAssumption DEF TypeOK, now
<1> QED
  BY Zenon, <1>2, <1>3 DEF TypeOK

\* A step that annotates a true copy of a precisely marked group.
LEMMA CopyStep ==
    ASSUME TypeOK, NEW a, NEW conn, NEW cr, Copied(a, Append(was, Network), conn, cr),
           Step(a), parted' = FALSE, Precise',
           \A i \in Server : (cr[i] <=> ~up'[i]) /\ (up'[i] => (conn[i] <=> connected'[i]))
    PROVE  TypeOK' /\ TimelineInv' /\ Begun(an')
<1>1. TypeOK' /\ Timeline(an', was') /\ Begun(an')
  BY Zenon, AfterStep DEF Copied
<1>2. an' = a
  BY Zenon DEF Step
<1>3. CopyTrue'
  BY Zenon, <1>2 DEF CopyTrue, Copied
<1>4. Annotated(an')
  BY Zenon, <1>2 DEF Copied
<1> QED
  BY Zenon, <1>1, <1>3, <1>4 DEF TimelineInv

\* ConnectOne and DisconnectAll, which AnnotateConnection follows.
LEMMA ConnectionStep ==
    ASSUME Counting, GrpTypeOK, TypeOK, TimelineInv,
           NEW i \in Server, ConnectOneAnnotated(i) \/ DisconnectAllAnnotated(i)
    PROVE  GrpTypeOK' /\ TypeOK' /\ TimelineInv' /\ Begun(an')
<1>1. /\ ConnectOne(i) \/ DisconnectAll(i)
      /\ Step(AnnotateConnection(an, connected')) /\ ~parted
  BY Zenon DEF ConnectOneAnnotated, DisconnectAllAnnotated
<1>p. parted' = FALSE
  BY Zenon, <1>1 DEF TypeOK, ConnectOneAnnotated, DisconnectAllAnnotated
<1>2. GrpTypeOK'
  BY Zenon, <1>1, ConnectStep, DisconnectStep
<1>3. Precise /\ CopyTrue /\ Annotated(an)
  BY Zenon, <1>1 DEF TimelineInv
<1>4. OneServer
  BY Zenon, <1>1 DEF OneServer
<1>5. Precise'
  BY Zenon, <1>3, <1>4, PreciseStep
<1>6. up' = up
  BY Zenon, <1>1 DEF ConnectOne, DisconnectAll
<1>7. connected' \in [Server -> BOOLEAN]
  BY Zenon, <1>2 DEF GrpTypeOK
<1>8. Copied(AnnotateConnection(an, connected'), Append(was, Network), connected', an.crashed)
  BY Zenon, <1>3, <1>7, BeforeStep, ConnectionKeeps
<1>9. \A k \in Server : (an.crashed[k] <=> ~up'[k]) /\ (up'[k] => (connected'[k] <=> connected'[k]))
  BY Zenon, <1>3, <1>6 DEF CopyTrue
<1> QED
  BY Zenon, <1>p, <1>1, <1>2, <1>5, <1>8, <1>9, CopyStep


\* ShutdownServer and AnnotateShutdown.
LEMMA ShutdownStep ==
    ASSUME Counting, GrpTypeOK, TypeOK, TimelineInv,
           NEW i \in Server, ShutdownServerAnnotated(i)
    PROVE  GrpTypeOK' /\ TypeOK' /\ TimelineInv' /\ Begun(an')
<1>1. /\ ShutdownServer(i) /\ ~parted
      /\ Step(IfChanged(an, SetCrashed(an, {i}, TRUE)))
  BY Zenon DEF ShutdownServerAnnotated, AnnotateShutdown
<1>p. parted' = FALSE
  BY Zenon, <1>1 DEF TypeOK, ShutdownServerAnnotated
<1>2. GrpTypeOK' /\ \A k \in Server : connected'[k] <=> k # i /\ connected[k]
  BY Zenon, <1>1, DisconnectStep
<1>3. Precise /\ CopyTrue /\ Annotated(an)
  BY Zenon, <1>1 DEF TimelineInv
<1>4. OneServer
  BY Zenon, <1>1 DEF OneServer
<1>5. Precise'
  BY Zenon, <1>3, <1>4, PreciseStep
<1>6. up \in [Server -> BOOLEAN] /\ up' = [up EXCEPT ![i] = FALSE]
  BY Zenon, <1>1 DEF ShutdownServer, GrpTypeOK
<1>7. PICK cr : cr = [k \in Server |-> IF k \in {i} THEN TRUE ELSE an.crashed[k]]
  BY Zenon
<1>8. Copied(IfChanged(an, SetCrashed(an, {i}, TRUE)), Append(was, Network), an.connected, cr)
  BY Zenon, <1>3, <1>7, BeforeStep, CrashedKeeps
<1>9. \A k \in Server : up'[k] <=> k # i /\ up[k]
  BY Zenon, <1>6
<1>10. \A k \in Server : cr[k] <=> k = i \/ an.crashed[k]
  BY Zenon, <1>7
<1>11. \A k \in Server :
          (cr[k] <=> ~up'[k]) /\ (up'[k] => (an.connected[k] <=> connected'[k]))
  BY Zenon, <1>2, <1>3, <1>9, <1>10 DEF CopyTrue
<1> QED
  BY Zenon, <1>p, <1>1, <1>2, <1>5, <1>8, <1>11, CopyStep

\* Restart, AnnotateRestart and AnnotateConnection.
LEMMA RestartOneStep ==
    ASSUME Counting, GrpTypeOK, TypeOK, TimelineInv,
           NEW i \in Server, RestartAnnotated(i)
    PROVE  GrpTypeOK' /\ TypeOK' /\ TimelineInv' /\ Begun(an')
<1>1. PICK b : b = IfChanged(an, SetCrashed(an, {i}, FALSE))
  BY Zenon
<1>2. Restart(i) /\ ~parted /\ Step(AnnotateConnection(b, connected'))
  BY Zenon, <1>1 DEF RestartAnnotated, AnnotateRestart
<1>p. parted' = FALSE
  BY Zenon, <1>2 DEF TypeOK, RestartAnnotated
<1>3. GrpTypeOK'
  BY Zenon, <1>2, RestartStep
<1>4. Precise /\ CopyTrue /\ Annotated(an)
  BY Zenon, <1>2 DEF TimelineInv
<1>5. Precise'
  <2>1. OneServer
    BY Zenon, <1>2 DEF OneServer
  <2> QED
    BY Zenon, <1>4, <2>1, PreciseStep
<1>6. up \in [Server -> BOOLEAN] /\ up' = [up EXCEPT ![i] = TRUE]
  BY Zenon, <1>2 DEF Restart, GrpTypeOK
<1>7. PICK cr : cr = [k \in Server |-> IF k \in {i} THEN FALSE ELSE an.crashed[k]]
  BY Zenon
<1>8. Copied(b, Append(was, Network), an.connected, cr)
  BY Zenon, <1>1, <1>4, <1>7, BeforeStep, CrashedKeeps
<1>9. connected' \in [Server -> BOOLEAN]
  BY Zenon, <1>3 DEF GrpTypeOK
<1>10. Drawn(b, Append(was, Network)) /\ Annotated(b) /\ b.crashed = cr
  BY Zenon, <1>8 DEF Copied
<1>11. Copied(AnnotateConnection(b, connected'), Append(was, Network), connected', cr)
  BY Zenon, <1>9, <1>10, ConnectionKeeps
<1>12. \A k \in Server : up'[k] <=> k = i \/ up[k]
  BY Zenon, <1>6
<1>13. \A k \in Server : cr[k] <=> k # i /\ an.crashed[k]
  BY Zenon, <1>7
<1>14. \A k \in Server :
          (cr[k] <=> ~up'[k]) /\ (up'[k] => (connected'[k] <=> connected'[k]))
  BY Zenon, <1>4, <1>12, <1>13 DEF CopyTrue
<1> QED
  BY Zenon, <1>p, <1>2, <1>3, <1>5, <1>11, <1>14, CopyStep

\* Shutdown of the whole group and AnnotateShutdownAll.
LEMMA ShutdownAllStep ==
    ASSUME Counting, GrpTypeOK, TypeOK, TimelineInv, Shutdown
    PROVE  GrpTypeOK' /\ TypeOK' /\ TimelineInv' /\ Begun(an')
<1>1. /\ up' = [i \in Server |-> FALSE] /\ connected' = [i \in Server |-> FALSE]
      /\ enabled' = [i \in Server |-> [j \in Server |-> FALSE]]
      /\ Step(IfChanged(an, SetCrashed(an, Server, TRUE))) /\ ~parted
  BY Zenon DEF Shutdown, AnnotateShutdown
<1>p. parted' = FALSE
  BY Zenon, <1>1 DEF TypeOK, Shutdown
<1>2. GrpTypeOK'
  BY <1>1 DEF GrpTypeOK
<1>3. Annotated(an)
  BY Zenon, <1>1 DEF TimelineInv
<1>4. \A k, l \in Server : enabled'[k][l] = FALSE /\ connected'[k] = FALSE /\ up'[k] = FALSE
  BY <1>1
<1>5. Precise'
  BY Zenon, <1>2, <1>4, PreciseIff
<1>6. PICK cr : cr = [k \in Server |-> IF k \in Server THEN TRUE ELSE an.crashed[k]]
  BY Zenon
<1>7. Copied(IfChanged(an, SetCrashed(an, Server, TRUE)), Append(was, Network), an.connected, cr)
  BY Zenon, <1>3, <1>6, BeforeStep, CrashedKeeps
<1>8. \A k \in Server : cr[k]
  BY Zenon, <1>6
<1>9. \A k \in Server :
          (cr[k] <=> ~up'[k]) /\ (up'[k] => (an.connected[k] <=> connected'[k]))
  BY Zenon, <1>4, <1>8
<1> QED
  BY Zenon, <1>p, <1>1, <1>2, <1>5, <1>7, <1>9, CopyStep


\* StartServers, with AnnotateRestartAll or AnnotateClearFailure.
LEMMA StartServersStep ==
    ASSUME Counting, GrpTypeOK, TypeOK, TimelineInv, StartServersAnnotated
    PROVE  GrpTypeOK' /\ TypeOK' /\ TimelineInv' /\ Begun(an')
<1>1. /\ StartServers /\ parted' = parted
      /\ \/ an.connected = NewInfo.connected /\ Step(IfChanged(an, SetCrashed(an, Server, FALSE)))
         \/ Step(AnnotateClearFailure(an))
  BY Zenon DEF StartServersAnnotated, AnnotateRestart
<1>2. /\ GrpTypeOK'
      /\ \A i, j \in Server : connected'[i] = TRUE /\ enabled'[i][j] = TRUE
  BY Zenon, <1>1, RestartStep
<1>3. 0 \in Server
  BY GrpAssumption DEF Server
<1>4. \A i \in Server : ~up[i] /\ up'[i]
  BY Zenon, <1>1 DEF StartServers
<1>5. ~parted /\ CopyTrue /\ Annotated(an)
  BY Zenon, <1>3, <1>4 DEF TimelineInv
<1>p. parted' = FALSE
  BY Zenon, <1>1, <1>5 DEF TypeOK
<1>6. Precise'
  BY Zenon, <1>2, PreciseIff
<1>n. \A k \in Server : NewInfo.connected[k] = TRUE /\ NewInfo.crashed[k] = FALSE
  BY DEF NewInfo
<1>7. CASE an.connected = NewInfo.connected /\ Step(IfChanged(an, SetCrashed(an, Server, FALSE)))
  <2>1. PICK cr : cr = [k \in Server |-> IF k \in Server THEN FALSE ELSE an.crashed[k]]
    BY Zenon
  <2>2. Copied(IfChanged(an, SetCrashed(an, Server, FALSE)), Append(was, Network), an.connected, cr)
    BY Zenon, <1>5, <2>1, BeforeStep, CrashedKeeps
  <2>3. \A k \in Server : ~cr[k]
    BY Zenon, <2>1
  <2>4. \A k \in Server :
            (cr[k] <=> ~up'[k]) /\ (up'[k] => (an.connected[k] <=> connected'[k]))
    BY Zenon, <1>2, <1>4, <1>7, <1>n, <2>3
  <2> QED
    BY Zenon, <1>p, <1>2, <1>6, <1>7, <2>2, <2>4, CopyStep
<1>8. CASE Step(AnnotateClearFailure(an))
  <2>1. IsFault(an)
    BY Zenon, <1>3, <1>4, <1>5 DEF CopyTrue, IsFault
  <2>2. an.continuous # {}
    BY Zenon, <1>5, <2>1 DEF Annotated, Open
  <2>3. Copied(AnnotateClearFailure(an), Append(was, Network), NewInfo.connected, NewInfo.crashed)
    BY Zenon, <2>2, BeforeStep, ClearKeeps
  <2>4. \A k \in Server : (NewInfo.crashed[k] <=> ~up'[k])
                          /\ (up'[k] => (NewInfo.connected[k] <=> connected'[k]))
    BY Zenon, <1>2, <1>4, <1>n
  <2> QED
    BY Zenon, <1>p, <1>2, <1>6, <1>8, <2>3, <2>4, CopyStep
<1> QED
  BY Zenon, <1>1, <1>7, <1>8

\* Partition and AnnotateTwoPartitions.
LEMMA PartStep ==
    ASSUME Counting, GrpTypeOK, TypeOK, TimelineInv,
           NEW s \in SUBSET Server, PartitionAnnotated(s)
    PROVE  GrpTypeOK' /\ TypeOK' /\ TimelineInv' /\ Begun(an')
<1>1. Partitioner(s) /\ Step(AnnotateTwoPartitions(an, s, Server \ s)) /\ parted' = TRUE
  BY Zenon DEF PartitionAnnotated
<1>2. GrpTypeOK' /\ \A i, j \in Server : enabled'[i][j] <=> (i \in s <=> j \in s)
  BY Zenon, <1>1, PartitionerStep
<1>3. \A i \in Server : up'[i]
  BY Zenon, <1>1 DEF Partitioner, Partition
<1>4. PICK text : text = Text({s, Server \ s}, {})
  BY Zenon
<1>5. text = Network'
  BY Zenon, <1>2, <1>3, <1>4, PartitionShows
<1>6. text \in Texts
  <2>1. {s, Server \ s} \in SUBSET SUBSET Server /\ {} \in SUBSET Server
    BY Zenon
  <2> QED
    BY Zenon, <1>4, <2>1, TextType
<1>7. PICK b : b = annotateContinuousColor(an, text)
  BY Zenon
<1>8. Drawn(b, Append(was, Network)) /\ Open(b, text)
  BY Zenon, <1>6, <1>7, BeforeStep, ColorKeeps
<1>9. Step(b)
  BY Zenon, <1>1, <1>4, <1>7 DEF AnnotateTwoPartitions
<1>10. TypeOK' /\ Timeline(an', was') /\ Begun(an')
  BY Zenon, <1>1, <1>8, <1>9, AfterStep
<1>11. Open(an', Network')
  BY Zenon, <1>5, <1>8, <1>9 DEF Step
<1> QED
  BY Zenon, <1>1, <1>2, <1>3, <1>10, <1>11 DEF TimelineInv

\* ConnectAll and AnnotateClearFailure, after the partitions.
LEMMA HealStep ==
    ASSUME Counting, GrpTypeOK, TypeOK, TimelineInv, Heal
    PROVE  GrpTypeOK' /\ TypeOK' /\ TimelineInv' /\ (parted => Begun(an'))
<1>1. /\ parted \/ Network = Healthy
      /\ SetNet(connectAll(Net)) /\ up' = up
      /\ Step(AnnotateClearFailure(an)) /\ parted' = FALSE
  BY Zenon DEF Heal
<1>2. connected' = AllOn.connected /\ enabled' = AllOn.enabled
  BY Zenon, <1>1, NetIs, AllOnSet
<1>3. GrpTypeOK'
  <2>1. SetNet(AllOn) /\ up' \in [Server -> BOOLEAN]
    BY Zenon, <1>1, <1>2 DEF SetNet, GrpTypeOK
  <2> QED
    BY Zenon, <2>1, AllOnFacts, NetSet
<1>u. \A i \in Server : up[i]
  BY Zenon, <1>1, HealthyUp DEF TimelineInv
<1>4. \A i, j \in Server : connected'[i] = TRUE /\ enabled'[i][j] = TRUE /\ up'[i]
  BY Zenon, <1>1, <1>2, <1>u, AllOnFacts
<1>5. Precise'
  BY Zenon, <1>3, <1>4, PreciseIff
<1>8. \A k \in Server : NewInfo.connected[k] = TRUE /\ NewInfo.crashed[k] = FALSE
  BY DEF NewInfo
<1>9. \A k \in Server : (NewInfo.crashed[k] <=> ~up'[k])
                        /\ (up'[k] => (NewInfo.connected[k] <=> connected'[k]))
  BY Zenon, <1>4, <1>8
<1>10. CASE an.continuous # {}
  <2>1. Copied(AnnotateClearFailure(an), Append(was, Network), NewInfo.connected, NewInfo.crashed)
    BY Zenon, <1>10, BeforeStep, ClearKeeps
  <2> QED
    BY Zenon, <1>1, <1>3, <1>5, <1>9, <2>1, CopyStep
<1>11. CASE an.continuous = {}
  <2>1. ~parted
    BY Zenon, <1>11 DEF TimelineInv, Open
  <2>2. PICK a : a = AnnotateClearFailure(an)
    BY Zenon
  <2>3. /\ a \in Info /\ Timeline(a, Append(was, Network)) /\ Annotated(a)
        /\ a.connected = NewInfo.connected /\ a.crashed = NewInfo.crashed
    BY Zenon, <1>11, <2>2, BeforeStep, ClearNothing
  <2>4. an' = a /\ was' = Append(was, Network) /\ now < MaxTime
    BY Zenon, <1>1, <2>2 DEF Step
  <2>5. TypeOK'
    <3>1. was' \in Seq(Texts) /\ now' <= MaxTime
      BY <2>4, NetworkType, TimeAssumption DEF TypeOK, now
    <3> QED
      BY Zenon, <1>1, <2>3, <2>4, <3>1 DEF TypeOK
  <2>6. CopyTrue'
    BY Zenon, <1>9, <2>3, <2>4 DEF CopyTrue
  <2> QED
    BY Zenon, <1>1, <1>3, <1>5, <2>1, <2>3, <2>4, <2>5, <2>6 DEF TimelineInv
<1> QED
  BY Zenon, <1>10, <1>11

\* A new test has an empty timeline.
LEMMA NewInfoIs ==
    /\ NewInfo \in Info /\ Timeline(NewInfo, <<>>) /\ Annotated(NewInfo) /\ Begun(NewInfo)
    /\ \A i \in Server : NewInfo.connected[i] = TRUE /\ NewInfo.crashed[i] = FALSE
<1>1. /\ NewInfo \in Info /\ NewInfo.annotations = {} /\ NewInfo.continuous = {}
      /\ \A i \in Server : NewInfo.connected[i] = TRUE /\ NewInfo.crashed[i] = FALSE
  BY DEF NewInfo, Info
<1>2. 1..Len(<<>>) = {}
  OBVIOUS
<1>3. Timeline(NewInfo, <<>>)
  BY Zenon, <1>1, <1>2 DEF Timeline, Faults
<1> QED
  BY Zenon, <1>1, <1>3 DEF Annotated, IsFault, Begun

\* The test at the start.
LEMMA AnStart ==
    ASSUME Counting, Init
    PROVE  GrpTypeOK /\ TypeOK /\ TimelineInv
<1>1. GrpInit /\ an = NewInfo /\ parted = FALSE /\ was = <<>>
  BY Zenon DEF Init
<1>2. GrpTypeOK /\ Precise
  BY Zenon, <1>1, GrpStart
<1>3. connected = AllOn.connected /\ up = [i \in Server |-> TRUE]
  BY Zenon, <1>1, NewNetIs DEF GrpInit
<1>4. CopyTrue
  BY Zenon, <1>1, <1>3, NewInfoIs, AllOnFacts DEF CopyTrue
<1>5. was \in Seq(Texts) /\ now <= MaxTime
  BY <1>1, TimeAssumption DEF now
<1>6. TypeOK
  BY Zenon, <1>1, <1>5, NewInfoIs DEF TypeOK
<1> QED
  BY Zenon, <1>1, <1>2, <1>4, <1>6, NewInfoIs DEF TimelineInv

\* AnnotateTest.
LEMMA AnnotateTestStep ==
    ASSUME Counting, AnnotateTest
    PROVE  GrpTypeOK' /\ TypeOK' /\ TimelineInv' /\ Begun(an')
<1>1. /\ up' = [i \in Server |-> TRUE] /\ SetNet(AllOn)
      /\ an' = NewInfo /\ parted' = FALSE /\ was' = <<>>
  BY Zenon, NewNetIs DEF AnnotateTest
<1>2. up' \in [Server -> BOOLEAN]
  BY <1>1
<1>3. GrpTypeOK' /\ connected' = AllOn.connected /\ enabled' = AllOn.enabled
  BY Zenon, <1>1, <1>2, AllOnFacts, NetSet
<1>4. Precise'
  BY Zenon, <1>3, AllOnFacts, PreciseIff
<1>5. CopyTrue'
  BY Zenon, <1>1, <1>3, NewInfoIs, AllOnFacts DEF CopyTrue
<1>6. was' \in Seq(Texts) /\ now' <= MaxTime
  BY <1>1, TimeAssumption DEF now
<1>7. TypeOK'
  BY Zenon, <1>1, <1>6, NewInfoIs DEF TypeOK
<1> QED
  BY Zenon, <1>1, <1>3, <1>4, <1>5, <1>7, NewInfoIs DEF TimelineInv

\* Every step keeps the inductive invariant.
LEMMA AnStep ==
    ASSUME Counting, GrpTypeOK, TypeOK, TimelineInv, [Next]_vars
    PROVE  GrpTypeOK' /\ TypeOK' /\ TimelineInv' /\ (Begun(an') \/ (Heal /\ ~parted))
<1>1. CASE UNCHANGED vars
  <2>1. /\ connected' = connected /\ enabled' = enabled /\ up' = up
        /\ an' = an /\ parted' = parted /\ was' = was
    BY Zenon, <1>1 DEF vars, grpVars
  <2>2. GrpTypeOK' /\ TypeOK'
    BY Zenon, <2>1 DEF GrpTypeOK, TypeOK, now
  <2>3. Network' = Network /\ (Precise' <=> Precise) /\ (CopyTrue' <=> CopyTrue)
    BY Zenon, <2>1 DEF Network, Precise, CopyTrue
  <2>4. TimelineInv'
    BY Zenon, <2>1, <2>3 DEF TimelineInv
  <2> QED
    BY Zenon, <2>1, <2>2, <2>4 DEF Begun
<1> QED
  BY Zenon, <1>1, ConnectionStep, ShutdownStep, RestartOneStep, ShutdownAllStep, StartServersStep,
     PartStep, HealStep, AnnotateTestStep DEF Next

\* What the timeline shows for a moment of the past, and for now.
LEMMA ShowsMoment ==
    ASSUME TypeOK, TimelineInv, NEW n \in 1..t, NEW net,
           net = IF n <= now THEN was[n] ELSE Network
    PROVE  Shown(n) \subseteq {net} /\ (net # Healthy => Shown(n) # {})
<1>1. an \in Info /\ was \in Seq(Texts) /\ Timeline(an, was) /\ now \in Nat /\ now = Len(was)
  BY DEF TypeOK, TimelineInv, now
<1>2. /\ \A d \in Faults(an) : d.Start \in Nat /\ d.End \in Nat
      /\ \A c \in an.continuous : c.start \in Nat
  BY Zenon, <1>1, InfoFields DEF Faults
<1>3. CASE n <= now
  <2>1. n \in 1..Len(was) /\ net = was[n]
    BY <1>1, <1>3
  <2>2. \A d \in Faults(an) : d.Start < n /\ n <= d.End => net = d.Description
    BY Zenon, <1>1, <2>1 DEF Timeline
  <2>3. \A c \in an.continuous : c.start < n => net = c.desp
    BY Zenon, <1>1, <2>1 DEF Timeline
  <2>4. net # Healthy => \/ \E d \in Faults(an) : d.Start < n /\ n <= d.End
                         \/ \E c \in an.continuous : c.start < n
    BY Zenon, <1>1, <2>1 DEF Timeline
  <2> QED
    BY Zenon, <2>2, <2>3, <2>4 DEF Shown
<1>4. CASE ~(n <= now)
  <2>1. n = Len(was) + 1 /\ net = Network
    BY <1>1, <1>4 DEF t
  <2>2. \A d \in Faults(an) : ~(n <= d.End)
    <3>1. \A d \in Faults(an) : d.End <= Len(was)
      BY Zenon, <1>1 DEF Timeline
    <3> QED
      BY <1>1, <1>2, <2>1, <3>1
  <2>3. \A c \in an.continuous : c.start < n
    <3>1. \A c \in an.continuous : c.start <= Len(was)
      BY Zenon, <1>1 DEF Timeline
    <3> QED
      BY <1>1, <1>2, <2>1, <3>1
  <2> QED
    BY Zenon, <2>1, <2>2, <2>3, OpenShows DEF Shown
<1> QED
  BY Zenon, <1>3, <1>4

-----------------------------------------------------------------------------
(* Crash and restart: acknowledged updates survive any number of restarts, *)
(* for any clients and updates.  RestartInv says where Server.saved points *)
(* at each step of the tester, and what each stage of a call knows about   *)
(* its update.                                                             *)

USE RestartAssumption

\* The persisters of the instances and their copies are distinct objects.
LEMMA PersisterFacts ==
    /\ \A n \in Inst : persister(n) \in Persister /\ copyOf(n) \in Persister
    /\ \A n, m \in Inst :
          /\ persister(n) = persister(m) => n = m
          /\ persister(n) # copyOf(m)
BY DEF Inst, Persister, persister, copyOf

\* Every variable keeps its type (Restart's TypeOK).
THEOREM RestartTypes ==
    RstSpec => []RstTypeOK
<1>1. RstInit => RstTypeOK
  BY PersisterFacts DEF RstInit, RstTypeOK, Inst, CallState, TestState
<1>2. RstTypeOK /\ [RstNext]_rstVars => RstTypeOK'
  <2> SUFFICES ASSUME RstTypeOK, [RstNext]_rstVars PROVE RstTypeOK'
    OBVIOUS
  <2> USE DEF RstTypeOK
  <2>1. CASE Tester
    <3>1. CASE DeleteServer
      BY Zenon, <3>1 DEF DeleteServer, callVars, TestState
    <3>2. CASE CopySaved
      BY Zenon, <3>2, PersisterFacts DEF CopySaved, callVars, TestState
    <3>3. CASE Kill
      BY Zenon, <3>3, PersisterFacts DEF Kill, callVars, TestState
    <3>4. CASE StartServer
      <4>1. inst + 1 \in Inst
        BY <3>4 DEF StartServer, Inst
      <4> QED BY Zenon, <3>4, <4>1, PersisterFacts DEF StartServer, callVars,
                 TestState
    <3>5. CASE AddServer
      BY Zenon, <3>5 DEF AddServer, callVars, TestState
    <3>6. CASE KillSave
      BY Zenon, <3>6, PersisterFacts DEF KillSave, callVars, TestState
    <3> QED BY Zenon, <2>1, <3>1, <3>2, <3>3, <3>4, <3>5, <3>6 DEF Tester
  <2>2. ASSUME NEW c \in Clnt, Enable(c) PROVE RstTypeOK'
    BY Zenon, <2>2 DEF Enable, testVars, callVars
  <2>3. ASSUME NEW c \in Clnt, NEW o \in Op, Call(c, o) PROVE RstTypeOK'
    BY Zenon, <2>3 DEF Call, testVars, CallState
  <2>4. ASSUME NEW c \in Clnt, Transport(c) PROVE RstTypeOK'
    <3>1. CASE Dispatch(c)
      BY Zenon, <3>1 DEF Dispatch, testVars, CallState
    <3>2. CASE LoseRequest(c)
      BY Zenon, <3>2 DEF LoseRequest, Fail, testVars, CallState
    <3>3. CASE Abandon(c)
      <4>1. (call[c] = "applied") \in BOOLEAN
        OBVIOUS
      <4>2. [op |-> arg[c], server |-> server[c], applied |-> call[c] = "applied"]
            \in [op : Op, server : Inst, applied : BOOLEAN]
        BY Zenon, <4>1
      <4>3. late' \in SUBSET [op : Op, server : Inst, applied : BOOLEAN]
        BY Zenon, <3>3, <4>2 DEF Abandon
      <4> QED BY Zenon, <3>3, <4>3 DEF Abandon, Fail, testVars, CallState
    <3>4. CASE LoseReply(c)
      BY Zenon, <3>4 DEF LoseReply, Fail, testVars, CallState
    <3>5. CASE Reply(c)
      BY Zenon, <3>5 DEF Reply, testVars, CallState
    <3>6. CASE Return(c)
      BY <3>6 DEF Return, testVars, CallState, Inst
    <3> QED BY Zenon, <2>4, <3>1, <3>2, <3>3, <3>4, <3>5, <3>6 DEF Transport
  <2>5. ASSUME NEW c \in Clnt, Handler(c) PROVE RstTypeOK'
    BY <2>5, PersisterFacts DEF Handler, Apply, Save, testVars,
       CallState
  <2>6. ASSUME NEW h \in late, LateHandler(h) PROVE RstTypeOK'
    <3>1. /\ h \in [op : Op, server : Inst, applied : BOOLEAN]
          /\ [h EXCEPT !.applied = TRUE] \in [op : Op, server : Inst, applied : BOOLEAN]
      BY Zenon
    <3>2. late' \in SUBSET [op : Op, server : Inst, applied : BOOLEAN]
      <4>1. late' \subseteq late \cup {[h EXCEPT !.applied = TRUE]}
        BY ZenonT(60), <2>6 DEF LateHandler
      <4> QED
        BY Zenon, <3>1, <4>1
    <3>3. disk' \in [Persister -> SUBSET Op] /\ state' \in [Inst -> SUBSET Op]
      BY <2>6, <3>1, PersisterFacts DEF LateHandler, Apply, Save
    <3> QED BY Zenon, <2>6, <3>2, <3>3 DEF LateHandler, testVars
  <2>7. CASE UNCHANGED rstVars
    BY Zenon, <2>7 DEF rstVars, testVars, callVars
  <2> QED BY Zenon, <2>1, <2>2, <2>3, <2>4, <2>5, <2>6, <2>7 DEF RstNext
<1> QED BY <1>1, <1>2, PTL DEF RstSpec

\* The tester's steps preserve the invariant: each copy is made while no client
\* can get a positive reply.
LEMMA TesterKeeps ==
    ASSUME RstTypeOK, RestartInv, Tester PROVE RestartInv'
<1> USE DEF RstTypeOK
<1>1. CASE DeleteServer
  BY Zenon, <1>1 DEF DeleteServer, callVars, RestartInv, TesterInv,
     SaveInv, HandlerInv, CallInv, Durable
<1>2. CASE CopySaved
  <2>1. disk'[saved'] = disk[saved]
    BY Zenon, <1>2, PersisterFacts DEF CopySaved
  <2>2. \A n \in Inst : disk'[persister(n)] = disk[persister(n)]
    BY Zenon, <1>2, PersisterFacts DEF CopySaved
  <2>3. 1..inst \subseteq Inst
    BY DEF Inst
  <2> QED BY Zenon, <1>2, <2>1, <2>2, <2>3 DEF CopySaved, callVars, RestartInv,
             TesterInv, SaveInv, HandlerInv, CallInv, Durable
<1>3. CASE Kill
  <2>1. inst \in 1..inst
    BY DEF Inst
  <2> QED BY Zenon, <1>3, <2>1 DEF Kill, callVars, RestartInv, TesterInv,
             SaveInv, HandlerInv, CallInv, Durable
<1>6. CASE KillSave
  <2>1. 1..inst \subseteq Inst /\ inst \in Inst
    BY DEF Inst
  <2>2. disk'[saved] = disk[saved]
    BY Zenon, <1>6, PersisterFacts DEF KillSave, RestartInv, TesterInv
  <2>3. \A n \in 1..inst : disk'[persister(n)] \subseteq state[n]
    <3>1. \A n \in 1..inst : n # inst => disk'[persister(n)] = disk[persister(n)]
      BY Zenon, <1>6, <2>1, PersisterFacts DEF KillSave
    <3>2. disk'[persister(inst)] = image
      BY Zenon, <1>6, <2>1, PersisterFacts DEF KillSave
    <3> QED BY Zenon, <1>6, <3>1, <3>2 DEF KillSave, RestartInv, SaveInv
  <2> QED BY Zenon, <1>6, <2>2, <2>3 DEF KillSave, callVars, RestartInv,
             TesterInv, SaveInv, HandlerInv, CallInv, Durable
<1>4. CASE StartServer
  <2>1. inst + 1 \in Inst /\ inst \in Nat /\ 1..inst \subseteq Inst
    BY <1>4 DEF StartServer, Inst
  <2>2. disk'[saved'] = disk[saved]
    BY Zenon, <1>4, <2>1, PersisterFacts DEF StartServer
  <2>3. \A n \in 1..inst :
          disk'[persister(n)] = disk[persister(n)] /\ state'[n] = state[n]
    BY <1>4, <2>1, PersisterFacts DEF StartServer
  <2>4. TesterInv'
    BY Zenon, <1>4 DEF StartServer, RestartInv, TesterInv
  <2>5. SaveInv'
    <3>1. disk'[persister(inst + 1)] \subseteq state'[inst + 1]
      BY Zenon, <1>4, <2>1, PersisterFacts DEF StartServer
    <3>2. \A n \in 1..inst' : n \in 1..inst \/ n = inst + 1
      BY <1>4, <2>1 DEF StartServer
    <3> QED BY Zenon, <1>4, <2>3, <3>1, <3>2 DEF StartServer, SaveInv,
               RestartInv
  <2>6. HandlerInv'
    <3>1. 1..inst \subseteq 1..inst'
      BY <1>4, <2>1 DEF StartServer
    <3> QED BY Zenon, <1>4, <3>1 DEF StartServer, callVars, HandlerInv,
               RestartInv
  <2>7. CallInv'
    <3>1. \A c \in Clnt : server[c] \in 1..inst /\ server[c] # inst'
      BY <1>4, <2>1 DEF StartServer, HandlerInv, RestartInv
    <3> QED BY Zenon, <1>4, <2>2, <2>3, <3>1 DEF StartServer, callVars, CallInv,
               RestartInv
  <2>8. Durable'
    BY Zenon, <1>4, <2>2 DEF StartServer, callVars, Durable, RestartInv
  <2> QED BY Zenon, <2>4, <2>5, <2>6, <2>7, <2>8 DEF RestartInv
<1>5. CASE AddServer
  BY Zenon, <1>5 DEF AddServer, callVars, RestartInv, TesterInv,
     SaveInv, HandlerInv, CallInv, Durable
<1> QED BY Zenon, <1>1, <1>2, <1>3, <1>4, <1>5, <1>6 DEF Tester

\* A handler's update of the memory of instance n only adds to it.
LEMMA ApplyKeeps ==
    ASSUME RstTypeOK, RestartInv,
           NEW n \in Inst, NEW o \in Op, Apply(n, o)
    PROVE  /\ \A m \in Inst : state[m] \subseteq state'[m]
           /\ o \in state'[n]
BY Zenon DEF Apply, RstTypeOK

\* A handler's save never takes anything out of a persister, and leaves every
\* other persister alone, the tester's copies in particular.
LEMMA SaveKeeps ==
    ASSUME RstTypeOK, RestartInv, NEW n \in 1..inst, Save(n)
    PROVE  /\ \A p \in Persister : disk[p] \subseteq disk'[p]
           /\ disk'[persister(n)] = state[n]
           /\ \A m \in Inst : m # n => disk'[persister(m)] = disk[persister(m)]
<1>1. n \in Inst /\ persister(n) \in Persister
  BY PersisterFacts DEF Inst, RstTypeOK
<1>2. disk[persister(n)] \subseteq state[n]
  BY Zenon DEF RestartInv, SaveInv
<1> QED BY Zenon, <1>1, <1>2, PersisterFacts DEF Save, RstTypeOK

\* What a step of a handler on instance n does to the parts of the invariant
\* that are not about its own call.
LEMMA HandlerKeeps ==
    ASSUME RstTypeOK, RestartInv,
           NEW n \in 1..inst, UNCHANGED <<testVars, acked>>,
           \/ (\E o \in Op : Apply(n, o)) /\ UNCHANGED disk
           \/ Save(n) /\ UNCHANGED state
    PROVE  /\ TesterInv' /\ SaveInv' /\ Durable'
           /\ \A m \in Inst : state[m] \subseteq state'[m]
           /\ \A p \in Persister : disk[p] \subseteq disk'[p]
<1>1. n \in Inst /\ 1..inst \subseteq Inst /\ saved \in Persister
  BY DEF Inst, RstTypeOK
<1>2. \A m \in Inst : state[m] \subseteq state'[m]
  BY Zenon, <1>1, ApplyKeeps
<1>3. \A p \in Persister : disk[p] \subseteq disk'[p]
  BY Zenon, SaveKeeps
<1>4. TesterInv'
  BY Zenon DEF testVars, RestartInv, TesterInv
<1>5. SaveInv'
  <2>1. \A m \in 1..inst : disk'[persister(m)] \subseteq state'[m]
    BY Zenon, <1>1, <1>2, SaveKeeps DEF SaveInv, RestartInv
  <2>2. pc = "killing" => image \subseteq state'[inst]
    BY Zenon, <1>2 DEF SaveInv, RestartInv, RstTypeOK
  <2> QED BY Zenon, <2>1, <2>2 DEF SaveInv, testVars
<1>6. Durable'
  BY Zenon, <1>1, <1>3 DEF Durable, RestartInv, testVars
<1> QED BY Zenon, <1>2, <1>3, <1>4, <1>5, <1>6

\* The network's steps preserve the invariant: a reply that passes isServerDead
\* comes from the instance that Server.saved belongs to.
LEMMA TransportKeeps ==
    ASSUME RstTypeOK, RestartInv,
           NEW c \in Clnt, Transport(c)
    PROVE  RestartInv'
<1> USE DEF RstTypeOK
<1>0. UNCHANGED <<servers, inst, pc, saved, image, disk, state, arg>>
  BY Zenon DEF Transport, Dispatch, LoseRequest, Abandon, LoseReply,
     Reply, Return, Fail, testVars
<1>1. TesterInv' /\ SaveInv'
  BY Zenon, <1>0 DEF RestartInv, TesterInv, SaveInv
<1>2. CASE Dispatch(c)
  <2>1. servers \in 1..inst
    BY <1>2 DEF Dispatch, RestartInv, TesterInv, Inst
  <2> QED BY Zenon, <1>0, <1>1, <1>2, <2>1 DEF Dispatch, RestartInv, HandlerInv,
             CallInv, Durable, CallState
<1>3. CASE LoseRequest(c) \/ LoseReply(c)
  BY Zenon, <1>0, <1>1, <1>3 DEF LoseRequest, LoseReply, Fail, RestartInv,
     HandlerInv, CallInv, Durable
<1>4. CASE Abandon(c)
  BY SMTT(30), <1>0, <1>1, <1>4 DEF Abandon, Fail, RestartInv, HandlerInv,
     CallInv, Durable
<1>5. CASE Reply(c)
  <2>1. server[c] = inst /\ pc = "up" /\ persister(server[c]) = saved
    BY <1>5 DEF Reply, isServerDead, RestartInv, TesterInv, HandlerInv,
       Inst
  <2>2. arg[c] \in disk[saved]
    BY Zenon, <1>5, <2>1 DEF Reply, RestartInv, CallInv
  <2>3. CallInv'
    BY Zenon, <1>0, <1>5, <2>2 DEF Reply, RestartInv, CallInv
  <2> QED BY Zenon, <1>0, <1>1, <1>5, <2>3 DEF Reply, RestartInv, HandlerInv,
             Durable
<1>6. CASE Return(c)
  <2>1. 1 \in 1..inst
    BY DEF Inst
  <2>2. HandlerInv'
    BY Zenon, <1>0, <1>6, <2>1 DEF Return, RestartInv, HandlerInv
  <2>3. CallInv'
    BY Zenon, <1>0, <1>6 DEF Return, RestartInv, CallInv
  <2>4. Durable'
    BY Zenon, <1>0, <1>6 DEF Return, RestartInv, CallInv, Durable
  <2> QED BY Zenon, <1>1, <2>2, <2>3, <2>4 DEF RestartInv
<1> QED BY Zenon, <1>2, <1>3, <1>4, <1>5, <1>6 DEF Transport

\* RestartInv is an invariant.
THEOREM RestartInvariant ==
    RstSpec => []RestartInv
<1>1. RstInit => RestartInv
  <2> SUFFICES ASSUME RstInit PROVE RestartInv
    OBVIOUS
  <2> USE DEF RstInit
  <2>1. TesterInv
    BY Zenon DEF TesterInv
  <2>2. SaveInv
    <3>1. persister(1) \in Persister
      BY PersisterFacts DEF Inst
    <3> QED BY <3>1 DEF SaveInv
  <2>3. HandlerInv
    BY DEF HandlerInv
  <2>4. CallInv /\ Durable
    BY Zenon DEF CallInv, Durable
  <2> QED BY Zenon, <2>1, <2>2, <2>3, <2>4 DEF RestartInv
<1>2. RstTypeOK /\ RestartInv /\ [RstNext]_rstVars => RestartInv'
  <2> SUFFICES ASSUME RstTypeOK, RestartInv, [RstNext]_rstVars PROVE RestartInv'
    OBVIOUS
  <2>0. 1..inst \subseteq Inst /\ saved \in Persister
    BY DEF RstTypeOK, Inst
  <2>1. CASE Tester
    BY Zenon, <2>1, TesterKeeps
  <2>2. ASSUME NEW c \in Clnt, Enable(c) PROVE RestartInv'
    BY Zenon, <2>2 DEF Enable, testVars, callVars, RestartInv,
       TesterInv, SaveInv, HandlerInv, CallInv, Durable
  <2>3. ASSUME NEW c \in Clnt, NEW o \in Op, Call(c, o) PROVE RestartInv'
    BY Zenon, <2>3 DEF Call, testVars, RestartInv, TesterInv, SaveInv,
       HandlerInv, CallInv, Durable, RstTypeOK
  <2>4. ASSUME NEW c \in Clnt, Transport(c) PROVE RestartInv'
    BY Zenon, <2>4, TransportKeeps
  <2>5. ASSUME NEW c \in Clnt, Handler(c) PROVE RestartInv'
    <3>0. server[c] \in 1..inst /\ server[c] \in Inst /\ arg[c] \in Op
          /\ persister(server[c]) \in Persister
      BY Zenon, <2>0, PersisterFacts DEF RestartInv, HandlerInv, RstTypeOK
    <3>1. /\ TesterInv' /\ SaveInv' /\ Durable'
          /\ \A m \in Inst : state[m] \subseteq state'[m]
          /\ \A p \in Persister : disk[p] \subseteq disk'[p]
      BY Zenon, <2>5, <3>0, HandlerKeeps DEF Handler
    <3>2. HandlerInv'
      BY Zenon, <2>5 DEF Handler, testVars, RestartInv, HandlerInv
    <3>3. CallInv'
      <4> SUFFICES ASSUME NEW d \in Clnt
                   PROVE /\ call'[d] = "applied" => arg'[d] \in state'[server'[d]]
                         /\ call'[d] = "returned" /\ server'[d] = inst' /\ pc' # "down" =>
                               arg'[d] \in disk'[persister(server'[d])]
                         /\ call'[d] = "replied" => arg'[d] \in disk'[saved']
        BY Zenon DEF CallInv
      <4>0. server[d] \in Inst /\ persister(server[d]) \in Persister
        BY Zenon, PersisterFacts DEF RstTypeOK
      <4>1. UNCHANGED <<arg, server, inst, pc, saved>> /\ (d # c => call'[d] = call[d])
        BY Zenon, <2>5 DEF Handler, testVars, RstTypeOK
      <4>2. CASE d # c
        BY Zenon, <2>0, <3>1, <4>0, <4>1, <4>2 DEF RestartInv, CallInv
      <4>3. CASE d = c /\ call[c] = "called"
        <5>1. Apply(server[c], arg[c]) /\ call'[c] = "applied"
          BY Zenon, <2>5, <4>3 DEF Handler, RstTypeOK
        <5> QED BY Zenon, <3>0, <4>1, <4>3, <5>1, ApplyKeeps
      <4>4. CASE d = c /\ call[c] = "applied"
        <5>1. Save(server[c]) /\ call'[c] = "returned"
          BY Zenon, <2>5, <4>4 DEF Handler, RstTypeOK
        <5>2. arg[c] \in state[server[c]]
          BY Zenon, <4>4 DEF RestartInv, CallInv
        <5> QED BY Zenon, <3>0, <4>1, <4>4, <5>1, <5>2, SaveKeeps
      <4> QED BY Zenon, <2>5, <4>2, <4>3, <4>4 DEF Handler
    <3> QED BY Zenon, <3>1, <3>2, <3>3 DEF RestartInv
  <2>6. ASSUME NEW h \in late, LateHandler(h) PROVE RestartInv'
    <3>0. h.server \in 1..inst /\ h.op \in Op
      BY Zenon DEF RestartInv, HandlerInv, RstTypeOK
    <3>1. /\ TesterInv' /\ SaveInv' /\ Durable'
          /\ \A m \in Inst : state[m] \subseteq state'[m]
          /\ \A p \in Persister : disk[p] \subseteq disk'[p]
      BY Zenon, <2>6, <3>0, HandlerKeeps DEF LateHandler
    <3>2. HandlerInv'
      <4>1. [h EXCEPT !.applied = TRUE].server = h.server
        BY Zenon DEF RstTypeOK
      <4>2. \A g \in late' : g \in late \/ g = [h EXCEPT !.applied = TRUE]
        BY Zenon, <2>6 DEF LateHandler
      <4> QED BY Zenon, <2>6, <3>0, <4>1, <4>2 DEF LateHandler, testVars,
                 RestartInv, HandlerInv
    <3>3. CallInv'
      <4>1. UNCHANGED <<call, arg, server, inst, pc, saved>>
        BY Zenon, <2>6 DEF LateHandler, testVars
      <4>2. \A d \in Clnt : server[d] \in Inst /\ persister(server[d]) \in Persister
        BY Zenon, PersisterFacts DEF RstTypeOK
      <4> QED BY Zenon, <2>0, <3>1, <4>1, <4>2 DEF RestartInv, CallInv
    <3> QED BY Zenon, <3>1, <3>2, <3>3 DEF RestartInv
  <2>7. CASE UNCHANGED rstVars
    BY Zenon, <2>7 DEF rstVars, testVars, callVars, RestartInv, TesterInv,
       SaveInv, HandlerInv, CallInv, Durable
  <2> QED BY Zenon, <2>1, <2>2, <2>3, <2>4, <2>5, <2>6, <2>7 DEF RstNext
<1> QED BY <1>1, <1>2, RestartTypes, PTL DEF RstSpec

\* Acknowledged updates are in the persister that the next instance gets.
THEOREM AcksAreDurable ==
    RstSpec => []Durable
<1>1. RestartInv => Durable
  BY Zenon DEF RestartInv
<1> QED BY <1>1, RestartInvariant, PTL

\* What is persisted is handed from instance to instance, and never taken back.
THEOREM PersistedIsKept ==
    RstSpec => NothingLost
<1>1. RstTypeOK /\ RestartInv /\ [RstNext]_rstVars =>
        [disk[saved] \subseteq disk'[saved']]_rstVars
  <2> SUFFICES ASSUME RstTypeOK, RestartInv, RstNext
               PROVE  disk[saved] \subseteq disk'[saved']
    BY Zenon DEF rstVars
  <2>0. saved \in Persister
    BY Zenon DEF RstTypeOK
  <2>1. CASE Tester
    <3>1. CASE CopySaved
      BY Zenon, <3>1, PersisterFacts DEF CopySaved, RstTypeOK
    <3>2. CASE StartServer
      <4>1. inst + 1 \in Inst
        BY <3>2 DEF StartServer, Inst, RstTypeOK
      <4> QED BY Zenon, <3>2, <4>1, PersisterFacts DEF StartServer, RstTypeOK
    <3>3. CASE KillSave
      <4>1. saved # persister(inst)
        BY Zenon, <3>3, PersisterFacts DEF KillSave, RestartInv, TesterInv,
           RstTypeOK
      <4> QED BY Zenon, <3>3, <4>1, PersisterFacts DEF KillSave, RstTypeOK
    <3> QED BY Zenon, <2>1, <3>1, <3>2, <3>3 DEF Tester, DeleteServer, Kill,
               AddServer
  <2>2. ASSUME NEW c \in Clnt, Handler(c) PROVE disk[saved] \subseteq disk'[saved']
    <3>1. server[c] \in 1..inst
      BY Zenon DEF RestartInv, HandlerInv
    <3> QED BY Zenon, <2>0, <2>2, <3>1, SaveKeeps DEF Handler, testVars
  <2>3. ASSUME NEW h \in late, LateHandler(h) PROVE disk[saved] \subseteq disk'[saved']
    <3>1. h.server \in 1..inst
      BY Zenon DEF RestartInv, HandlerInv
    <3> QED BY Zenon, <2>0, <2>3, <3>1, SaveKeeps DEF LateHandler, testVars
  <2>4. ASSUME NEW c \in Clnt, Enable(c) \/ Transport(c) \/ \E o \in Op : Call(c, o)
        PROVE  disk[saved] \subseteq disk'[saved']
    BY Zenon, <2>4 DEF Enable, Transport, Call, Dispatch, LoseRequest,
       Abandon, LoseReply, Reply, Return, Fail, testVars
  <2> QED BY Zenon, <2>1, <2>2, <2>3, <2>4 DEF RstNext
<1> QED BY <1>1, RestartTypes, RestartInvariant, PTL DEF RstSpec, NothingLost

-----------------------------------------------------------------------------
(* What holds in every state *)

\* The library's facts about finite sets and numbers.
Lib == INSTANCE FiniteSetTheorems

\* What the lemmas above assume of numbers and finite sets.
LEMMA Library == Counting
<1>1. ASSUME NEW T \in SUBSET Nat, T # {} PROVE \E x \in T : \A y \in T : x <= y
  <2> DEFINE R == Lib!OpToRel(<, Nat)
  <2>1. Lib!IsWellFoundedOn(R, Nat)
    BY Zenon, Lib!NatLessThanWellFounded
  <2>2. \A x, y \in Nat : <<x, y>> \in R <=> x < y
    BY DEF Lib!OpToRel
  <2> HIDE DEF R
  <2>3. PICK x \in T : \A y \in T : ~(<<y, x>> \in R)
    BY Zenon, <1>1, <2>1, Lib!WFMin
  <2>4. \A y \in T : ~(y < x)
    BY Zenon, <2>2, <2>3
  <2> QED
    BY <2>4
<1>2. ASSUME NEW n \in Nat, NEW f
      PROVE  Cardinality({f[i] : i \in 1..n}) \in 0..n
  <2> DEFINE S == {f[i] : i \in 1..n}
             h == [i \in 1..n |-> f[i]]
  <2>1. h \in [1..n -> S] /\ \A x \in S : \E i \in 1..n : h[i] = x
    BY Zenon
  <2>2. h \in Lib!Surjection(1..n, S)
    BY Zenon, <2>1 DEF Lib!Surjection
  <2>3. Lib!ExistsSurjection(1..n, S)
    BY Zenon, <2>2 DEF Lib!ExistsSurjection
  <2>4. Lib!IsFiniteSet(S)
    BY Zenon, <2>3, Lib!FS_NatSurjection
  <2> HIDE DEF S
  <2>5. Lib!Cardinality(S) \in Nat /\ Lib!Cardinality(S) <= n
    BY Zenon, <2>3, <2>4, Lib!FS_CardinalityType, Lib!FS_SurjCardinalityBound
  <2>6. Lib!Cardinality(S) = Cardinality(S)
    BY DEF Lib!Cardinality, Cardinality, Lib!IsFiniteSet, IsFiniteSet
  <2>7. Cardinality(S) \in 0..n
    BY <2>5, <2>6
  <2> QED
    BY Zenon, <2>7 DEF S
<1> QED
  BY Zenon, <1>1, <1>2 DEF Counting

\* Whatever a test does to the group, connected, enabled and up keep their types.
THEOREM GroupTypes ==
    GrpSpec => []GrpTypeOK
<1>1. GrpInit => GrpTypeOK /\ LinksMutual
  BY Zenon, Library, GrpStart
<1>2. GrpTypeOK /\ LinksMutual /\ [GrpNext]_grpVars => (GrpTypeOK /\ LinksMutual)'
  BY Zenon, Library, GrpStep
<1> QED
  BY <1>1, <1>2, PTL DEF GrpSpec

\* In every group the servers' links work both ways or not at all, and only between
\* servers on the net, whatever was disconnected, partitioned, shut down and
\* restarted.
THEOREM LinksStayMutual ==
    GrpSpec => []LinksMutual
<1>1. GrpInit => LinksMutual
  BY Zenon, Library, GrpStart
<1>2. GrpTypeOK /\ LinksMutual /\ [GrpNext]_grpVars => LinksMutual'
  BY Zenon, Library, GrpStep
<1> QED
  BY <1>1, <1>2, GroupTypes, PTL DEF GrpSpec

\* Partitioner's partitions join each side and cut every link between the two.
THEOREM PartitionsAreExact ==
    GrpSpec => PartitionExact
<1>1. GrpTypeOK => \A s \in SUBSET Server : Partitioner(s) =>
        \A i, j \in Server : enabled'[i][j] = (i \in s <=> j \in s)
  <2> SUFFICES ASSUME GrpTypeOK, NEW s \in SUBSET Server, Partitioner(s),
                      NEW i \in Server, NEW j \in Server
               PROVE  enabled'[i][j] = (i \in s <=> j \in s)
    BY Zenon
  <2>1. GrpTypeOK' /\ (enabled'[i][j] <=> (i \in s <=> j \in s))
    BY Zenon, Library, PartitionerStep
  <2>2. enabled'[i][j] \in BOOLEAN
    BY <2>1 DEF GrpTypeOK
  <2> QED
    BY Zenon, <2>1, <2>2
<1> QED
  BY <1>1, GroupTypes, PTL DEF PartitionExact

\* A partition around the leader leaves it with a minority, and the others of the
\* majority with each other.
THEOREM LeaderIsCutOff ==
    GrpSpec => LeaderCutOff
<1>1. GrpTypeOK => \A l \in Server : PartitionLeader(l) =>
        LET side == {j \in Server : enabled'[l][j]}
        IN  /\ 2 * Cardinality(side) < N
            /\ \A i, j \in Server \ side : enabled'[i][j]
  <2> SUFFICES ASSUME GrpTypeOK, NEW l \in Server, PartitionLeader(l)
               PROVE  LET side == {j \in Server : enabled'[l][j]}
                      IN  /\ 2 * Cardinality(side) < N
                          /\ \A i, j \in Server \ side : enabled'[i][j]
    BY Zenon
  <2>1. PICK q \in SUBSET Server :
            /\ \A i, j \in Server : enabled'[i][j] <=> (i \in q <=> j \in q)
            /\ l \in q /\ 2 * Cardinality(q) < N
    BY Zenon, Library, PartitionLeaderStep
  <2>2. {j \in Server : enabled'[l][j]} = q
    BY Zenon, <2>1
  <2> QED
    BY Zenon, <2>1, <2>2
<1> QED
  BY <1>1, GroupTypes, PTL DEF LeaderCutOff

\* connected is precise at the start and all operations but Partition keep it so.
THEOREM PreciseWithoutPartition ==
    GrpSpec => StaysPrecise
<1>1. GrpInit => Precise
  BY Zenon, Library, GrpStart
<1>2. GrpTypeOK => (Precise /\ OneServer => Precise')
  BY Zenon, Library, PreciseStep
<1> QED
  BY <1>1, <1>2, GroupTypes, PTL DEF StaysPrecise, GrpSpec

\* The inductive invariant holds in every test, with the types it rests on.
THEOREM TimelineInvariant ==
    Spec => [](GrpTypeOK /\ TypeOK /\ TimelineInv)
<1>1. Init => GrpTypeOK /\ TypeOK /\ TimelineInv
  BY Zenon, Library, AnStart
<1>2. GrpTypeOK /\ TypeOK /\ TimelineInv /\ [Next]_vars => (GrpTypeOK /\ TypeOK /\ TimelineInv)'
  BY Zenon, Library, AnStep
<1> QED
  BY <1>1, <1>2, PTL DEF Spec

\* The annotations, the copy of the state and the record of the past keep their
\* types, whatever a test does and annotates.
THEOREM AnnotationTypes ==
    Spec => []TypeOK
BY TimelineInvariant, PTL

\* For a group of any odd size and a test of any length, the timeline shows the
\* network as it was at every moment, and leaves no fault out.
THEOREM TimelineIsTrue ==
    Spec => []TimelineTrue
<1>1. TypeOK /\ TimelineInv => TimelineTrue
  BY Zenon, ShowsMoment DEF TimelineTrue
<1> QED
  BY <1>1, TimelineInvariant, PTL

\* For a group of any odd size and a test of any length, the zero value gets into
\* the timeline only when the failures of a partitioner are ended that made no
\* partition.
THEOREM AnnotationsBegin ==
    Spec => FaultsBegin
<1>1. GrpTypeOK /\ TypeOK /\ TimelineInv /\ [Next]_vars => [Begun(an') \/ (Heal /\ ~parted)]_vars
  BY Zenon, Library, AnStep
<1> QED
  BY <1>1, TimelineInvariant, PTL DEF Spec, FaultsBegin
=============================================================================
