--------------------------- MODULE SocketsProofs ----------------------------
(***************************************************************************)
(* What udp-ping-pong.js and the WebSocket programs of MCSockets keep, for *)
(* every number of clients, ticks, exchanges, pieces of a request, reads   *)
(* of a response and full buffers.                                         *)
(***************************************************************************)
EXTENDS MCSockets, Sequences, SequenceTheorems, FiniteSetTheorems,
        NaturalsInduction, TLAPS

-----------------------------------------------------------------------------
(* A step of the run is a step of its subject.                             *)

LEMMA Steps ==
  ASSUME [Next]_all
  PROVE  /\ subject' = subject
         /\ \A k \in Echoes : subject = k => [Eo(k)!Next]_(Eo(k)!vars)
         /\ subject = "pingpong" => [Pp!Next]_(Pp!vars)
         /\ \A p \in Handshakes : subject = p => [Ac(p)!Next]_(Ac(p)!vars)
         /\ \A p \in Talks : subject = p => [Ex(p)!Next]_(Ex(p)!vars)
<1> USE DEF Echoes, Handshakes, Talks, Rest2, Rest3, Rest4, Rest5, Rest6, Rest7, Rest8,
     Rest9, Rest10, Rest11, Rest12, Rest13
<1>1. ASSUME NEW k \in Echoes, NEW c \in Sockets(k), EoClient(k, c) \/ EoServer(k, c)
      PROVE  subject = k /\ subject' = subject /\ Eo(k)!Next
  BY <1>1 DEF EoClient, EoServer, Eo!Next
<1>2. CASE PpStep
  BY <1>2 DEF PpStep
<1>3. CASE ApStep
  BY <1>3 DEF ApStep
<1>4. CASE ExClient \/ ExServer
  BY <1>4 DEF ExClient, ExServer, Ex!Next
<1>5. CASE EpStep
  BY <1>5 DEF EpStep
<1>7. ASSUME NEW c \in Three, AcServer(c) \/ AcClient(c)
      PROVE  subject = "accept" /\ subject' = subject /\ Ac("accept")!Next
  BY <1>7 DEF AcServer, AcClient, Ac!Next, Peers
<1>8. CASE UNCHANGED all
  BY <1>8 DEF all, Eo!vars, Pp!vars, Ac!vars, Ex!vars, Ex!clientVars
<1> QED BY <1>1, <1>2, <1>3, <1>4, <1>5, <1>7, <1>8 DEF Next

-----------------------------------------------------------------------------
(* The streams of the echo programs.                                       *)

LEMMA EchoConstants ==
  ASSUME NEW k \in Echoes
  PROVE  /\ Message(k) \in Nat \ {0} /\ Buffer(k) \in Nat \ {0} /\ Extra(k) \in Nat
         /\ k = "unix" => Extra(k) = 0
         /\ \A S : Eo(k)!Cardinality(S) = Cardinality(S)
<1>1. Eo(k)!SizesAssumption
  BY Assumptions
<1>2. \A S : Eo(k)!Cardinality(S) = Cardinality(S)
  BY DEF Cardinality, Eo!Cardinality, IsFiniteSet, Eo!IsFiniteSet
<1> QED BY <1>1, <1>2 DEF Eo!SizesAssumption

\* A set of numbers that has a member has a least one; if it is bounded, it has
\* a greatest one.
LEMMA Least ==
  ASSUME NEW T \in SUBSET Nat, T # {}
  PROVE  \E x \in T : \A y \in T : x <= y
<1>1. IsWellFoundedOn(OpToRel(<, Nat), Nat)
  BY NatLessThanWellFounded, Zenon
<1>2. PICK x \in T : \A y \in T : ~(<<y, x>> \in OpToRel(<, Nat))
  BY <1>1, WFMin, Zenon
<1>3. ASSUME NEW y \in T PROVE x <= y
  <2>1. y \in Nat /\ x \in Nat
    OBVIOUS
  <2>2. ~(y < x)
    BY <1>2, <2>1 DEF OpToRel
  <2> QED BY <2>1, <2>2
<1> QED BY <1>3

LEMMA Greatest ==
  ASSUME NEW r \in Nat, NEW S, S # {}, \A e \in S : e \in Nat /\ e <= r
  PROVE  \E e \in S : \A o \in S : o <= e
<1> DEFINE T == {n \in Nat : \E e \in S : n = r - e}
<1>1. T \in SUBSET Nat /\ \A e \in S : r - e \in T
  OBVIOUS
<1>2. T # {}
  BY <1>1
<1>3. \A n \in T : \E e \in S : n = r - e
  OBVIOUS
<1> HIDE DEF T
<1>4. PICK n \in T : \A m \in T : n <= m
  BY <1>1, <1>2, Least
<1>5. PICK e \in S : n = r - e
  BY <1>3
<1>6. \A o \in S : o <= e
  BY <1>1, <1>4, <1>5
<1> QED BY <1>6

\* The octets that wait in a stream are as many as the place where its last
\* write ends.
LEMMA OctetsOf ==
  ASSUME NEW k \in Echoes, NEW s \in SUBSET (1..Buffer(k))
  PROVE  /\ Eo(k)!Octets(s) \in 0..Buffer(k)
         /\ \A e \in s : e \in Nat /\ 1 <= e /\ e <= Eo(k)!Octets(s)
         /\ s # {} => Eo(k)!Octets(s) \in s
<1>1. Buffer(k) \in Nat
  BY EchoConstants
<1>2. CASE s = {}
  BY <1>1, <1>2 DEF Eo!Octets
<1>3. CASE s # {}
  <2>0. \A e \in s : e \in Nat /\ 1 <= e /\ e <= Buffer(k)
    BY <1>1
  <2>1. \E e \in s : \A o \in s : o <= e
    BY <1>1, <1>3, <2>0, Greatest
  <2>2. Eo(k)!Octets(s) = CHOOSE e \in s : \A o \in s : o <= e
    BY <1>3 DEF Eo!Octets
  <2>3. Eo(k)!Octets(s) \in s /\ \A o \in s : o <= Eo(k)!Octets(s)
    BY <2>1, <2>2
  <2>4. Eo(k)!Octets(s) \in 0..Buffer(k)
    <3> DEFINE m == Eo(k)!Octets(s)
               b == Buffer(k)
    <3>1. m \in Nat /\ m <= b /\ b \in Nat
      BY <1>1, <2>0, <2>3
    <3> HIDE DEF m, b
    <3>2. m \in 0..b
      BY <3>1
    <3> QED BY <3>2 DEF m, b
  <2> QED BY <2>0, <2>3, <2>4
<1> QED BY <1>2, <1>3

LEMMA OctetsIs ==
  ASSUME NEW k \in Echoes, NEW s \in SUBSET (1..Buffer(k)), NEW m \in s, \A e \in s : e <= m
  PROVE  Eo(k)!Octets(s) = m
<1>1. Buffer(k) \in Nat
  BY EchoConstants
<1>2. Eo(k)!Octets(s) \in s /\ m <= Eo(k)!Octets(s) /\ m \in Nat
  BY OctetsOf
<1>3. Eo(k)!Octets(s) <= m /\ Eo(k)!Octets(s) \in 0..Buffer(k)
  BY <1>2, OctetsOf
<1> QED BY <1>1, <1>2, <1>3

\* A write into the stream adds its octets.
LEMMA PutOctets ==
  ASSUME NEW k \in Echoes, NEW s \in SUBSET (1..Buffer(k)), NEW n \in Nat,
         Eo(k)!Octets(s) + n <= Buffer(k)
  PROVE  /\ Eo(k)!Put(s, n) \in SUBSET (1..Buffer(k))
         /\ Eo(k)!Octets(Eo(k)!Put(s, n)) = Eo(k)!Octets(s) + n
<1> DEFINE o == Eo(k)!Octets(s)
           t == s \cup {o + n}
<1>1. Buffer(k) \in Nat /\ o \in 0..Buffer(k) /\ \A e \in s : e \in Nat /\ 1 <= e /\ e <= o
  BY EchoConstants, OctetsOf
<1>2. CASE n = 0
  BY <1>1, <1>2 DEF Eo!Put
<1>3. CASE n # 0
  <2>1. Eo(k)!Put(s, n) = t
    BY <1>3 DEF Eo!Put
  <2>4. o + n \in 1..Buffer(k)
    BY <1>1, <1>3
  <2>5. t \in SUBSET (1..Buffer(k)) /\ o + n \in t
    BY <2>4
  <2>6. \A e \in t : e \in s \/ e = o + n
    OBVIOUS
  <2> HIDE DEF t
  <2>7. ASSUME NEW e \in t PROVE e <= o + n
    <3>1. e \in s => e \in Nat /\ e <= o
      BY <1>1
    <3> HIDE DEF o
    <3>2. e \in Nat /\ o \in Nat
      BY <1>1, <2>4, <2>6, <3>1
    <3> QED BY <2>6, <3>1, <3>2
  <2>2. t \in SUBSET (1..Buffer(k)) /\ o + n \in t /\ \A e \in t : e <= o + n
    BY <2>5, <2>7
  <2>3. Eo(k)!Octets(t) = o + n
    BY <2>2, OctetsIs
  <2> QED BY <2>1, <2>2, <2>3
<1> QED BY <1>2, <1>3

\* A read takes the octets it returns from the stream.
LEMMA RestOctets ==
  ASSUME NEW k \in Echoes, NEW s \in SUBSET (1..Buffer(k)), NEW n \in 0..Eo(k)!Octets(s)
  PROVE  /\ Eo(k)!Rest(s, n) \in SUBSET (1..Buffer(k))
         /\ Eo(k)!Octets(Eo(k)!Rest(s, n)) = Eo(k)!Octets(s) - n
<1> DEFINE o == Eo(k)!Octets(s)
           t == Eo(k)!Rest(s, n)
<1>1. /\ Buffer(k) \in Nat /\ o \in 0..Buffer(k) /\ \A e \in s : e \in Nat /\ 1 <= e /\ e <= o
      /\ s # {} => o \in s
  BY EchoConstants, OctetsOf
<1>2. t = {e - n : e \in {i \in s : i > n}}
  BY DEF Eo!Rest
<1>3. t \in SUBSET (1..Buffer(k)) /\ \A e \in t : e <= o - n
  <2> SUFFICES ASSUME NEW e \in t PROVE e \in 1..Buffer(k) /\ e <= o - n
    OBVIOUS
  <2>1. PICK i \in s : i > n /\ e = i - n
    BY <1>2
  <2> QED BY <1>1, <2>1
<1>4. ASSUME o = n PROVE Eo(k)!Octets(t) = o - n
  <2>1. t = {}
    BY <1>1, <1>2, <1>4
  <2>2. Eo(k)!Octets({}) = 0
    BY DEF Eo!Octets
  <2> QED BY <1>1, <1>4, <2>1, <2>2
<1>5. ASSUME o # n PROVE Eo(k)!Octets(t) = o - n
  <2>1. s # {}
    BY <1>5 DEF Eo!Octets
  <2>2. o \in s /\ o > n
    BY <1>1, <1>5, <2>1
  <2>3. o - n \in t
    BY <1>2, <2>2
  <2> HIDE DEF t
  <2>4. Eo(k)!Octets(t) = o - n
    BY <1>3, <2>3, OctetsIs
  <2> QED BY <2>4
<1> QED BY <1>3, <1>4, <1>5

LEMMA NoCredit == ASSUME NEW x \in Nat, NEW c \in Nat PROVE x * (c + 1) \in Nat
  OBVIOUS

\* A write never takes more than there is room for; of a unix socket it takes
\* all there is room for.
LEMMA TakenOf ==
  ASSUME NEW k \in Echoes, NEW s \in SUBSET (1..Buffer(k)), NEW n \in Nat
  PROVE  /\ Eo(k)!Taken(s, n) \in 0..n
         /\ Eo(k)!Octets(s) + Eo(k)!Taken(s, n) <= Buffer(k)
         /\ k = "unix" /\ Eo(k)!Octets(s) + n <= Buffer(k) => Eo(k)!Taken(s, n) = n
<1> DEFINE o == Eo(k)!Octets(s)
           c == Eo(k)!Cardinality(s)
           x == Extra(k) * (c + 1)
           free == Buffer(k) - o - x
           Places == 1..Buffer(k)
<1>1. Buffer(k) \in Nat /\ Extra(k) \in Nat /\ o \in 0..Buffer(k)
  BY EchoConstants, OctetsOf
<1>2. c \in Nat
  <2>1. IsFiniteSet(Places)
    BY <1>1, FS_Interval
  <2>2. s \subseteq Places
    OBVIOUS
  <2> HIDE DEF Places
  <2>3. IsFiniteSet(s)
    BY <2>1, <2>2, FS_Subset
  <2>4. Cardinality(s) \in Nat
    BY <2>3, FS_CardinalityType
  <2> QED BY <2>4, EchoConstants
<1>3. Eo(k)!Taken(s, n) = IF free <= 0 THEN 0 ELSE IF free < n THEN free ELSE n
  BY DEF Eo!Taken
<1>4. k = "unix" => x = 0
  BY <1>2, EchoConstants
<1> HIDE DEF c
<1>5. x \in Nat
  BY <1>1, <1>2, NoCredit
<1> HIDE DEF x, o
<1>6. Eo(k)!Taken(s, n) \in 0..n /\ o + Eo(k)!Taken(s, n) <= Buffer(k)
  BY <1>1, <1>3, <1>5
<1>7. k = "unix" /\ o + n <= Buffer(k) => Eo(k)!Taken(s, n) = n
  BY <1>1, <1>3, <1>4, <1>5
<1> QED BY <1>6, <1>7 DEF o

-----------------------------------------------------------------------------
(* The echo programs.                                                      *)

\* What a write does, to a peer that is there or to one that is gone.
LEMMA WrittenOf ==
  ASSUME NEW k \in Echoes, NEW s \in SUBSET (1..Buffer(k)), NEW n \in Nat,
         NEW gone \in BOOLEAN, NEW w \in Eo(k)!Written(gone, s, n)
  PROVE  /\ Eo(k)!After(gone, s, w) \in SUBSET (1..Buffer(k)) /\ w \in 0..n
         /\ Eo(k)!Octets(Eo(k)!After(gone, s, w)) <= Eo(k)!Octets(s) + w
         /\ ~gone => /\ Eo(k)!Octets(Eo(k)!After(gone, s, w)) = Eo(k)!Octets(s) + w
                     /\ Eo(k)!Octets(s) + w <= Buffer(k)
                     /\ k = "unix" /\ Eo(k)!Octets(s) + n <= Buffer(k) => w = n
<1>1. Eo(k)!Octets(s) \in Nat /\ Buffer(k) \in Nat
  BY EchoConstants, OctetsOf
<1>2. CASE gone
  <2>1. Eo(k)!After(gone, s, w) = {} /\ w \in {0, n}
    BY <1>2 DEF Eo!After, Eo!Written
  <2>2. Eo(k)!Octets({}) = 0
    BY DEF Eo!Octets
  <2>3. {} \in SUBSET (1..Buffer(k)) /\ w \in 0..n
    BY <2>1
  <2>4. 0 <= Eo(k)!Octets(s) + w
    BY <1>1, <2>3
  <2> QED BY <1>2, <2>1, <2>2, <2>3, <2>4
<1>3. CASE ~gone
  <2>1. Eo(k)!After(gone, s, w) = Eo(k)!Put(s, w) /\ w = Eo(k)!Taken(s, n)
    BY <1>3 DEF Eo!After, Eo!Written
  <2>2. /\ w \in 0..n /\ Eo(k)!Octets(s) + w <= Buffer(k)
        /\ k = "unix" /\ Eo(k)!Octets(s) + n <= Buffer(k) => w = n
    BY <2>1, TakenOf
  <2>3. /\ Eo(k)!Put(s, w) \in SUBSET (1..Buffer(k))
        /\ Eo(k)!Octets(Eo(k)!Put(s, w)) = Eo(k)!Octets(s) + w
    BY <2>2, PutOctets
  <2> QED BY <1>1, <1>3, <2>1, <2>2, <2>3
<1> QED BY <1>2, <1>3

LEMMA EchoStart == ASSUME NEW k \in Echoes, Eo(k)!Init PROVE Eo(k)!IInv
<1>1. Message(k) \in Nat /\ k \in {"tcp", "unix", "bp"}
  BY EchoConstants DEF Echoes
<1>2. Eo(k)!Octets({}) = 0
  BY DEF Eo!Octets
<1>3. Eo(k)!TypeOK
  BY <1>1 DEF Eo!Init, Eo!TypeOK
<1>4. ASSUME NEW c \in Sockets(k) PROVE Eo(k)!Sound(c)
  <2>1. /\ s1[c] = "none" /\ s2[c] = "none" /\ s5[c] = 0 /\ s6[c] = 0
        /\ Eo(k)!Octets(s3[c]) = 0 /\ Eo(k)!Octets(s4[c]) = 0
    BY <1>2 DEF Eo!Init
  <2> QED BY <2>1 DEF Eo!Sound, Eo!NoMore, Eo!Around, Eo!Unsent, Eo!Pending, Eo!Fitted,
         Eo!Whole, Eo!Live
<1> QED BY <1>3, <1>4 DEF Eo!IInv

\* A step of one connection leaves the others as they are.
Apart(k, c) ==
  \A d \in Sockets(k) \ {c} :
    /\ s1'[d] = s1[d] /\ s2'[d] = s2[d] /\ s3'[d] = s3[d] /\ s4'[d] = s4[d]
    /\ s5'[d] = s5[d] /\ s6'[d] = s6[d]

\* A step of one connection keeps the invariant when that connection is left in
\* order: a program that is down stays down.
LEMMA EchoStep ==
  ASSUME NEW k \in Echoes, Eo(k)!IInv, NEW c \in Sockets(k),
         Eo(k)!TypeOK', Apart(k, c), Eo(k)!Sound(c)', s7 \subseteq s7'
  PROVE  Eo(k)!IInv'
<1> SUFFICES ASSUME NEW d \in Sockets(k), d # c PROVE Eo(k)!Sound(d)'
  BY DEF Eo!IInv
<1>1. /\ s1'[d] = s1[d] /\ s2'[d] = s2[d] /\ s3'[d] = s3[d] /\ s4'[d] = s4[d]
      /\ s5'[d] = s5[d] /\ s6'[d] = s6[d]
  BY DEF Apart
<1>2. Eo(k)!Around(d)' = Eo(k)!Around(d) /\ (Eo(k)!Live(d)' => Eo(k)!Live(d))
  BY <1>1 DEF Eo!Around, Eo!Live
<1>3. Eo(k)!Sound(d)
  BY DEF Eo!IInv
<1> QED BY <1>1, <1>2, <1>3 DEF Eo!Sound, Eo!NoMore, Eo!Unsent, Eo!Pending, Eo!Fitted, Eo!Whole

\* What the invariant says of one connection.
LEMMA EchoOf ==
  ASSUME NEW k \in Echoes, Eo(k)!IInv, NEW c \in Sockets(k)
  PROVE  /\ Buffer(k) \in Nat /\ Message(k) \in Nat \ {0} /\ Eo(k)!Octets({}) = 0
         /\ s3[c] \in SUBSET (1..Buffer(k)) /\ s4[c] \in SUBSET (1..Buffer(k))
         /\ Eo(k)!Octets(s3[c]) \in Nat /\ Eo(k)!Octets(s4[c]) \in Nat
         /\ s5[c] \in Nat /\ s5[c] <= Message(k) /\ s6[c] \in Nat /\ s6[c] <= Message(k)
         /\ Eo(k)!Octets(s3[c]) + Eo(k)!Octets(s4[c]) + s6[c] <= s5[c]
         /\ s1[c] \in {"none", "connecting"} => s5[c] = 0
         /\ s6[c] > 0 => s2[c] = "draining"
         /\ s2[c] = "draining" => k = "bp" /\ (s6[c] > 0 \/ "server" \in s7)
         /\ Eo(k)!Live(c) =>
              /\ s5[c] <= Buffer(k)
              /\ k # "bp" => Eo(k)!Octets(s3[c]) + Eo(k)!Octets(s4[c]) + s6[c] >= s5[c]
<1>1. Buffer(k) \in Nat /\ Message(k) \in Nat \ {0} /\ Eo(k)!Octets({}) = 0
  BY EchoConstants DEF Eo!Octets
<1>2. /\ s3[c] \in SUBSET (1..Buffer(k)) /\ s4[c] \in SUBSET (1..Buffer(k))
      /\ s5[c] \in 0..Message(k) /\ s6[c] \in 0..Message(k)
  BY DEF Eo!IInv, Eo!TypeOK
<1>3. Eo(k)!Octets(s3[c]) \in Nat /\ Eo(k)!Octets(s4[c]) \in Nat
  BY <1>1, <1>2, OctetsOf
<1>4. Eo(k)!Sound(c)
  BY DEF Eo!IInv
<1>5. /\ Eo(k)!Octets(s3[c]) + Eo(k)!Octets(s4[c]) + s6[c] <= s5[c]
      /\ s1[c] \in {"none", "connecting"} => s5[c] = 0
      /\ s6[c] > 0 => s2[c] = "draining"
      /\ s2[c] = "draining" => k = "bp" /\ (s6[c] > 0 \/ "server" \in s7)
  BY <1>4 DEF Eo!Sound, Eo!NoMore, Eo!Around, Eo!Unsent, Eo!Pending
<1>6. Eo(k)!Live(c) =>
        /\ s5[c] <= Buffer(k)
        /\ k # "bp" => Eo(k)!Octets(s3[c]) + Eo(k)!Octets(s4[c]) + s6[c] >= s5[c]
  BY <1>4 DEF Eo!Sound, Eo!Fitted, Eo!Whole, Eo!Around
<1> QED BY <1>1, <1>2, <1>3, <1>5, <1>6

LEMMA EchoClient ==
  ASSUME NEW k \in Echoes, Eo(k)!IInv, NEW c \in Sockets(k), Eo(k)!OnClient(c)
  PROVE  Eo(k)!IInv'
<1> DEFINE x == Eo(k)!Octets(s3[c])
           y == Eo(k)!Octets(s4[c])
           gone == Eo(k)!ServerGone(c)
<1> USE DEF Eo!Sound, Eo!NoMore, Eo!Unsent, Eo!Pending, Eo!Fitted, Eo!Whole, Eo!Around, Eo!Live
<1>t. Eo(k)!TypeOK /\ Eo(k)!Sound(c)
  BY DEF Eo!IInv
<1>g. /\ gone \in BOOLEAN
      /\ gone <=> s2[c] = "closed" \/ "server" \in s7
  BY Zenon DEF Eo!ServerGone
<1>1. CASE Eo(k)!StartClient(c)
  <2>1. /\ s1[c] = "none" /\ s1' = [s1 EXCEPT ![c] = "connecting"]
        /\ s2' = [s2 EXCEPT ![c] = "backlog"] /\ UNCHANGED <<s3, s4, s5, s6, s7>>
    BY <1>1 DEF Eo!StartClient
  <2>2. Eo(k)!TypeOK' /\ Apart(k, c)
    BY <1>t, <2>1 DEF Eo!TypeOK, Apart
  <2>3. s1'[c] = "connecting" /\ s2'[c] = "backlog"
    BY <1>t, <2>1 DEF Eo!TypeOK
  <2>4. s5[c] = 0 /\ ~(s6[c] > 0)
    BY <2>1, EchoOf
  <2>5. Eo(k)!Sound(c)'
    BY <1>t, <2>1, <2>3, <2>4
  <2> QED BY <2>1, <2>2, <2>5, EchoStep
<1>2. CASE Eo(k)!ClientConnect(c)
  <2>1. PICK w \in Eo(k)!Written(gone, s3[c], Message(k)) :
          /\ s1[c] = "connecting" /\ s1' = [s1 EXCEPT ![c] = "open"]
          /\ s3' = [s3 EXCEPT ![c] = Eo(k)!After(gone, s3[c], w)]
          /\ s5' = [s5 EXCEPT ![c] = w] /\ UNCHANGED <<s2, s4, s6, s7>>
    BY <1>2 DEF Eo!ClientConnect
  <2> DEFINE a == Eo(k)!After(gone, s3[c], w)
             z == Eo(k)!Octets(a)
  <2>2. x = 0 /\ y = 0 /\ s6[c] = 0
    BY <2>1, EchoOf
  <2>3. /\ a \in SUBSET (1..Buffer(k)) /\ w \in 0..Message(k) /\ z <= x + w
        /\ ~gone => z = x + w /\ x + w <= Buffer(k)
    BY <1>g, EchoOf, WrittenOf
  <2>4. z \in Nat
    BY <2>3, EchoOf, OctetsOf
  <2> HIDE DEF a, gone
  <2>5. Eo(k)!TypeOK' /\ Apart(k, c)
    BY <1>t, <2>1, <2>3 DEF Eo!TypeOK, Apart, a
  <2>6. s1'[c] = "open" /\ s3'[c] = a /\ s5'[c] = w
    BY <1>t, <2>1 DEF Eo!TypeOK, a
  <2>7. Eo(k)!Octets(s3'[c]) = z /\ Eo(k)!Octets(s4'[c]) = y
    BY <2>1, <2>6
  <2> HIDE DEF x, y, z
  <2>8. Eo(k)!NoMore(c)'
    BY <2>1, <2>2, <2>3, <2>4, <2>6, <2>7
  <2>9. Eo(k)!Fitted(c)' /\ Eo(k)!Whole(c)'
    BY <1>g, <2>1, <2>2, <2>3, <2>4, <2>6, <2>7
  <2>10. Eo(k)!Unsent(c)' /\ Eo(k)!Pending(c)'
    BY <1>t, <2>1, <2>6
  <2>11. Eo(k)!Sound(c)'
    BY <2>8, <2>9, <2>10 DEF Eo!Sound
  <2> QED BY <2>1, <2>5, <2>11, EchoStep
<1>3. ASSUME NEW n \in 1..y, Eo(k)!ClientEcho(c, n)
      PROVE  Eo(k)!IInv'
  <2>1. PICK w \in Eo(k)!Written(gone, s3[c], n) :
          /\ s1[c] = "open" /\ s3' = [s3 EXCEPT ![c] = Eo(k)!After(gone, s3[c], w)]
          /\ s7' = IF k # "unix" /\ w # n THEN s7 \union {"client"} ELSE s7
          /\ s4' = [s4 EXCEPT ![c] = Eo(k)!Rest(s4[c], n)]
          /\ UNCHANGED <<s1, s2, s5, s6>>
    BY <1>3 DEF Eo!ClientEcho
  <2> DEFINE a == Eo(k)!After(gone, s3[c], w)
             b == Eo(k)!Rest(s4[c], n)
             z == Eo(k)!Octets(a)
             v == Eo(k)!Octets(b)
  <2>2. /\ x \in Nat /\ y \in Nat /\ s6[c] \in Nat /\ s5[c] \in Nat /\ Buffer(k) \in Nat
        /\ x + y + s6[c] <= s5[c]
    BY EchoOf
  <2>3. /\ a \in SUBSET (1..Buffer(k)) /\ w \in 0..n /\ z <= x + w
        /\ ~gone => z = x + w /\ (k = "unix" /\ x + n <= Buffer(k) => w = n)
    BY <1>g, EchoOf, WrittenOf
  <2>4. b \in SUBSET (1..Buffer(k)) /\ v = y - n
    BY <2>2, EchoOf, RestOctets
  <2>5. z \in Nat
    BY <2>3, EchoOf, OctetsOf
  <2> HIDE DEF a, b, gone
  <2>6. Eo(k)!TypeOK' /\ Apart(k, c)
    BY <1>t, <2>1, <2>3, <2>4 DEF Eo!TypeOK, Apart, a, b
  <2>7. Eo(k)!Octets(s3'[c]) = z /\ Eo(k)!Octets(s4'[c]) = v
    BY <1>t, <2>1 DEF Eo!TypeOK, a, b
  <2>8. Eo(k)!Live(c) =>
          s5[c] <= Buffer(k) /\ (k # "bp" => x + y + s6[c] >= s5[c])
    BY EchoOf
  <2> HIDE DEF x, y, z, v
  <2>9. Eo(k)!NoMore(c)'
    BY <2>1, <2>2, <2>3, <2>4, <2>5, <2>7
  <2>10. ASSUME Eo(k)!Live(c)', k # "bp" PROVE Eo(k)!Around(c)' >= s5'[c]
    <3>1. Eo(k)!Live(c) /\ ~gone /\ (k = "unix" \/ w = n)
      BY <1>g, <2>1, <2>10
    <3>2. w = n
      BY <2>2, <2>3, <2>8, <2>10, <3>1
    <3> QED BY <2>1, <2>2, <2>3, <2>4, <2>7, <2>8, <2>10, <3>1, <3>2
  <2>11. Eo(k)!Unsent(c)' /\ Eo(k)!Pending(c)' /\ Eo(k)!Fitted(c)'
    BY <1>t, <2>1
  <2>12. Eo(k)!Sound(c)'
    BY <2>9, <2>10, <2>11
  <2>13. s7 \subseteq s7'
    BY <2>1
  <2> QED BY <2>6, <2>12, <2>13, EchoStep
<1>4. CASE Eo(k)!ClientEnd(c)
  <2>1. /\ s1[c] = "open" /\ s1' = [s1 EXCEPT ![c] = "closed"]
        /\ s4' = [s4 EXCEPT ![c] = {}] /\ UNCHANGED <<s2, s3, s5, s6, s7>>
    BY <1>4 DEF Eo!ClientEnd
  <2>2. Eo(k)!TypeOK' /\ Apart(k, c)
    BY <1>t, <2>1 DEF Eo!TypeOK, Apart
  <2>3. s1'[c] = "closed" /\ s4'[c] = {}
    BY <1>t, <2>1 DEF Eo!TypeOK
  <2>4. Eo(k)!Octets(s4'[c]) = 0 /\ x + 0 + s6[c] <= s5[c]
    BY <2>3, EchoOf
  <2>5. Eo(k)!Sound(c)'
    BY <1>t, <2>1, <2>3, <2>4
  <2> QED BY <2>1, <2>2, <2>5, EchoStep
<1> QED BY <1>1, <1>2, <1>3, <1>4 DEF Eo!OnClient

\* What write_buffer leaves pending of what it could not write.
LEMMA EchoServer ==
  ASSUME NEW k \in Echoes, Eo(k)!IInv, NEW c \in Sockets(k), Eo(k)!OnServer(c)
  PROVE  Eo(k)!IInv'
<1> DEFINE x == Eo(k)!Octets(s3[c])
           y == Eo(k)!Octets(s4[c])
           gone == Eo(k)!ClientGone(c)
<1> USE DEF Eo!Sound, Eo!NoMore, Eo!Unsent, Eo!Pending, Eo!Fitted, Eo!Whole, Eo!Around, Eo!Live
<1>t. Eo(k)!TypeOK /\ Eo(k)!Sound(c) /\ "server" \notin s7
  BY DEF Eo!IInv, Eo!OnServer
<1>g. /\ gone \in BOOLEAN
      /\ gone <=> s1[c] = "closed" \/ "client" \in s7
  BY Zenon DEF Eo!ClientGone
<1>o. /\ x \in Nat /\ y \in Nat /\ s6[c] \in Nat /\ s5[c] \in Nat /\ Buffer(k) \in Nat
      /\ x + y + s6[c] <= s5[c] /\ s5[c] <= Message(k) /\ Message(k) \in Nat
      /\ Eo(k)!Octets({}) = 0
      /\ s2[c] # "draining" => s6[c] = 0
  BY EchoOf
<1>1. CASE Eo(k)!Accept(c)
  <2>1. /\ s2[c] = "backlog" /\ s2' = [s2 EXCEPT ![c] = "open"]
        /\ UNCHANGED <<s1, s3, s4, s5, s6, s7>>
    BY <1>1 DEF Eo!Accept
  <2>2. Eo(k)!TypeOK' /\ Apart(k, c)
    BY <1>t, <2>1 DEF Eo!TypeOK, Apart
  <2>3. s2'[c] = "open"
    BY <1>t, <2>1 DEF Eo!TypeOK
  <2>4. Eo(k)!Sound(c)'
    BY <1>t, <1>o, <2>1, <2>3
  <2> QED BY <2>1, <2>2, <2>4, EchoStep
<1>2. ASSUME NEW n \in 1..x, Eo(k)!ServerEcho(c, n)
      PROVE  Eo(k)!IInv'
  <2>1. PICK w \in Eo(k)!Written(gone, s4[c], n) :
          /\ s2[c] = "open" /\ s4' = [s4 EXCEPT ![c] = Eo(k)!After(gone, s4[c], w)]
          /\ IF k = "bp" THEN Eo(k)!KeepRest(c, n, w) ELSE UNCHANGED <<s2, s6>>
          /\ s7' = IF k = "tcp" /\ w # n THEN s7 \union {"server"} ELSE s7
          /\ s3' = [s3 EXCEPT ![c] = Eo(k)!Rest(s3[c], n)]
          /\ UNCHANGED <<s1, s5>>
    BY <1>2 DEF Eo!ServerEcho
  <2> DEFINE a == Eo(k)!Rest(s3[c], n)
             b == Eo(k)!After(gone, s4[c], w)
             z == Eo(k)!Octets(a)
             v == Eo(k)!Octets(b)
  <2>2. /\ b \in SUBSET (1..Buffer(k)) /\ w \in 0..n /\ v <= y + w
        /\ ~gone => v = y + w /\ (k = "unix" /\ y + n <= Buffer(k) => w = n)
    BY <1>g, EchoOf, WrittenOf
  <2>3. a \in SUBSET (1..Buffer(k)) /\ z = x - n
    BY <1>o, EchoOf, RestOctets
  <2>4. v \in Nat
    BY <2>2, EchoOf, OctetsOf
  <2>5. \/ s2' = s2 /\ s6' = s6
        \/ k = "bp" /\ w > 0 /\ w # n /\ s2' = [s2 EXCEPT ![c] = "draining"]
           /\ s6' = [s6 EXCEPT ![c] = n - w]
        \/ k = "bp" /\ s2' = [s2 EXCEPT ![c] = "closed"] /\ s6' = s6
    BY <2>1 DEF Eo!KeepRest, Eo!ServerClose
  <2> HIDE DEF a, b, gone
  <2>6. /\ s6[c] = 0
        /\ \/ s2'[c] = "open" /\ s6'[c] = 0
           \/ k = "bp" /\ w > 0 /\ w # n /\ s2'[c] = "draining" /\ s6'[c] = n - w
           \/ k = "bp" /\ s2'[c] = "closed" /\ s6'[c] = 0
    BY <1>t, <1>o, <2>1, <2>5 DEF Eo!TypeOK
  <2>7. n - w \in 0..Message(k)
    BY <1>o, <2>2
  <2>8. /\ s3' \in [Sockets(k) -> SUBSET (1..Buffer(k))]
        /\ s4' \in [Sockets(k) -> SUBSET (1..Buffer(k))]
    BY <1>t, <2>1, <2>2, <2>3 DEF Eo!TypeOK, a, b
  <2>9. /\ s2' \in [Sockets(k) -> {"none", "backlog", "open", "draining", "closed"}]
        /\ s6' \in [Sockets(k) -> 0..Message(k)]
    BY <1>t, <2>5, <2>7 DEF Eo!TypeOK
  <2>10. Eo(k)!TypeOK'
    BY <1>t, <2>1, <2>8, <2>9 DEF Eo!TypeOK
  <2>11. Apart(k, c)
    BY <1>t, <2>1, <2>5 DEF Eo!TypeOK, Apart
  <2>12. Eo(k)!Octets(s3'[c]) = z /\ Eo(k)!Octets(s4'[c]) = v
    BY <1>t, <2>1 DEF Eo!TypeOK, a, b
  <2>13. Eo(k)!Live(c) =>
           s5[c] <= Buffer(k) /\ (k # "bp" => x + y + s6[c] >= s5[c])
    BY EchoOf
  <2> HIDE DEF x, y, z, v
  <2>14. Eo(k)!NoMore(c)'
    BY <1>o, <2>1, <2>2, <2>3, <2>4, <2>6, <2>12
  <2>15. ASSUME Eo(k)!Live(c)', k # "bp" PROVE Eo(k)!Around(c)' >= s5'[c]
    <3>1. Eo(k)!Live(c) /\ ~gone /\ s6'[c] = 0 /\ (k = "unix" \/ w = n)
      BY <1>g, <2>1, <2>6, <2>15 DEF Echoes
    <3>2. w = n
      BY <1>o, <2>2, <2>13, <2>15, <3>1
    <3> QED BY <1>o, <2>1, <2>2, <2>3, <2>4, <2>6, <2>12, <2>13, <2>15, <3>1, <3>2
  <2>16. Eo(k)!Unsent(c)' /\ Eo(k)!Fitted(c)'
    BY <1>t, <2>1, <2>6
  <2>17. Eo(k)!Pending(c)'
    BY <2>2, <2>6
  <2>18. Eo(k)!Sound(c)'
    BY <2>14, <2>15, <2>16, <2>17
  <2>19. s7 \subseteq s7'
    BY <2>1
  <2> QED BY <2>10, <2>11, <2>18, <2>19, EchoStep
<1>3. CASE Eo(k)!Drain(c)
  <2>1. /\ s2[c] = "draining" /\ s6' = [s6 EXCEPT ![c] = 0]
        /\ s7' = s7 \union {"server"} /\ UNCHANGED <<s1, s2, s3, s4, s5>>
    BY <1>3 DEF Eo!Drain
  <2> HIDE DEF gone
  <2>2. Eo(k)!TypeOK' /\ Apart(k, c)
    BY <1>t, <1>o, <2>1 DEF Eo!TypeOK, Apart
  <2>3. s6'[c] = 0
    BY <1>t, <2>1 DEF Eo!TypeOK
  <2>4. x + y + 0 <= s5[c]
    BY <1>o
  <2> HIDE DEF x, y
  <2>5. Eo(k)!NoMore(c)'
    BY <2>1, <2>3, <2>4 DEF x, y
  <2>6. Eo(k)!Unsent(c)' /\ Eo(k)!Fitted(c)' /\ Eo(k)!Pending(c)' /\ Eo(k)!Whole(c)'
    BY <1>t, <2>1, <2>3
  <2> QED BY <2>1, <2>2, <2>5, <2>6, EchoStep
<1>4. CASE Eo(k)!ServerEnd(c)
  <2>1. /\ s2[c] = "open" /\ s2' = [s2 EXCEPT ![c] = "closed"]
        /\ s3' = [s3 EXCEPT ![c] = {}] /\ UNCHANGED <<s1, s4, s5, s6, s7>>
    BY <1>4 DEF Eo!ServerEnd, Eo!ServerClose
  <2>2. Eo(k)!TypeOK' /\ Apart(k, c)
    BY <1>t, <2>1 DEF Eo!TypeOK, Apart
  <2>3. s2'[c] = "closed" /\ s3'[c] = {}
    BY <1>t, <2>1 DEF Eo!TypeOK
  <2>4. Eo(k)!Octets(s3'[c]) = 0 /\ 0 + y + s6[c] <= s5[c]
    BY <1>o, <2>3
  <2>5. Eo(k)!Sound(c)'
    BY <1>t, <1>o, <2>1, <2>3, <2>4
  <2> QED BY <2>1, <2>2, <2>5, EchoStep
<1> QED BY <1>1, <1>2, <1>3, <1>4 DEF Eo!OnServer

LEMMA EchoKeep ==
  ASSUME NEW k \in Echoes, Eo(k)!IInv, [Eo(k)!Next]_(Eo(k)!vars)
  PROVE  Eo(k)!IInv'
<1>1. CASE UNCHANGED Eo(k)!vars
  BY <1>1 DEF Eo!vars, Eo!IInv, Eo!TypeOK, Eo!Sound, Eo!NoMore, Eo!Unsent, Eo!Pending,
     Eo!Fitted, Eo!Whole, Eo!Around, Eo!Live
<1> QED BY <1>1, EchoClient, EchoServer DEF Eo!Next

\* Whatever goes round while both programs run is what the client sent first.
LEMMA EchoConserves == ASSUME NEW k \in Echoes, Eo(k)!IInv PROVE Eo(k)!Conserved
<1> SUFFICES ASSUME NEW c \in Sockets(k)
             PROVE  /\ Eo(k)!Whole(c) /\ Eo(k)!NoMore(c)
                    /\ Eo(k)!Live(c) => (s6[c] > 0 <=> s2[c] = "draining")
  BY DEF Eo!Conserved, Eo!NoneLost, Eo!NoDuplicates, Eo!KeptArmed, Eo!NoMore
<1> QED BY DEF Eo!IInv, Eo!Sound, Eo!Pending, Eo!Live

-----------------------------------------------------------------------------
(* udp-ping-pong.js.                                                       *)

LEMMA PingStart == ASSUME Pp!Init PROVE Pp!IInv
<1> Seconds \in Nat /\ Exchanges \in Nat
  BY Assumptions DEF Pp!RunsAssumption
<1>1. /\ s1 = [n \in {"ping", "pong"} |-> IF n = "pong" THEN 1 ELSE 0]
      /\ s2 = [n \in {"ping", "pong"} |-> IF n = "ping" THEN 1 ELSE 0]
      /\ s3 = [n \in {"ping", "pong"} |-> 0] /\ s4 = 0 /\ s5 = FALSE
  BY DEF Pp!Init, Pp!Nodes, Pp!Zero
<1>2. s5 \in BOOLEAN
  BY <1>1, Zenon
<1>3. Pp!TypeOK
  BY <1>1, <1>2 DEF Pp!TypeOK, Pp!Nodes
<1> QED BY <1>1, <1>3 DEF Pp!IInv, Pp!Ahead

LEMMA PingKeep ==
  ASSUME Pp!IInv, [Pp!Next]_(Pp!vars)
  PROVE  Pp!IInv'
<1> Seconds \in Nat /\ Exchanges \in Nat
  BY Assumptions DEF Pp!RunsAssumption
<1> USE DEF Pp!IInv, Pp!TypeOK, Pp!Nodes, Pp!Zero, Pp!Ahead
<1>1. CASE Pp!Tick
  BY <1>1 DEF Pp!Tick
<1>2. CASE Pp!Finish
  BY <1>2 DEF Pp!Finish
<1>3. ASSUME NEW n \in Pp!Nodes, Pp!Echo(n)
      PROVE  Pp!IInv'
  <2>1. CASE n = "ping"
    BY <1>3, <2>1 DEF Pp!Echo, Pp!Peer
  <2>2. CASE n = "pong"
    BY <1>3, <2>2 DEF Pp!Echo, Pp!Peer
  <2> QED BY <2>1, <2>2
<1>4. ASSUME NEW n \in Pp!Nodes, Pp!Lose(n)
      PROVE  Pp!IInv'
  BY <1>4 DEF Pp!Lose
<1>5. CASE UNCHANGED Pp!vars
  BY <1>5 DEF Pp!vars
<1> QED BY <1>1, <1>2, <1>3, <1>4, <1>5 DEF Pp!Next

\* The counts are in order around the datagram on its way.
LEMMA PingAgrees == ASSUME Pp!IInv PROVE Pp!FiguresAgree
<1> Exchanges \in Nat
  BY Assumptions DEF Pp!RunsAssumption
<1> DEFINE ri == s3["ping"]  ro == s3["pong"]  si == s2["ping"]  so == s2["pong"]
<1>1. /\ ri \in Nat /\ ro \in Nat /\ si \in Nat /\ so \in Nat
      /\ si - ri \in 0..1 /\ so = ro /\ ro - ri \in -1..1 /\ si - ro \in -1..1
  BY DEF Pp!IInv, Pp!TypeOK, Pp!Nodes, Pp!Ahead
<1> QED BY <1>1 DEF Pp!FiguresAgree, Pp!Nodes, Pp!Abs

-----------------------------------------------------------------------------
(* The handshakes of websocket/server.js.                                  *)

LEMMA AcceptStart == ASSUME NEW p \in Handshakes, Ac(p)!Init PROVE Ac(p)!IInv
<1> Ac(p)!UnitAssumption /\ Ac(p)!CutAssumption
  BY Assumptions
<1>1. Ac(p)!Waiting
  BY DEF Ac!UnitAssumption, Ac!Init, Ac!Waiting, Ac!Own, Ac!Pieces
<1>2. s7 \in BOOLEAN
  BY Zenon DEF Ac!Init
<1>3. Ac(p)!Buffered
  BY <1>2 DEF Ac!UnitAssumption, Ac!Init, Ac!Buffered, Ac!Pieces
<1>4. Ac(p)!Leftover
  BY DEF Ac!Init, Ac!Leftover
<1> QED BY <1>1, <1>3, <1>4 DEF Ac!IInv

\* What is left of a sequence when n elements were taken from its start.
LEMMA Behind ==
  ASSUME NEW S, NEW s \in Seq(S), NEW n \in 0..Len(s)
  PROVE  /\ SubSeq(s, n + 1, Len(s)) \in Seq(S)
         /\ \A i \in DOMAIN SubSeq(s, n + 1, Len(s)) :
              i + n \in DOMAIN s /\ SubSeq(s, n + 1, Len(s))[i] = s[i + n]
BY SubSeqProperties

\* What a read leaves of a connection is still of its client.
LEMMA AcceptRead ==
  ASSUME NEW p \in Handshakes, Ac(p)!Waiting, NEW c \in Peers(p), Ac(p)!Read(c)
  PROVE  Ac(p)!Waiting'
<1> Ac(p)!UnitAssumption
  BY Assumptions
<1> USE DEF Ac!UnitAssumption
<1> DEFINE bytes == Ac(p)!Bytes(c)
           left == SubSeq(s3[c], bytes + 1, Len(s3[c]))
<1>1. /\ s2' = s2 /\ s3' = [s3 EXCEPT ![c] = left]
      /\ \/ s6' = 0 /\ \E how \in {"open", "closed"} : s1' = [s1 EXCEPT ![c] = how]
         \/ s6' = s6 + bytes /\ s1' = s1
  BY DEF Ac!Read, Ac!Serve, Ac!Close
<1>2. bytes \in 0..Len(s3[c]) /\ s6 + bytes \in 0..RequestRoom
  BY DEF Ac!Bytes, Ac!Waiting
<1> HIDE DEF bytes
<1>3. left \in Seq(Ac(p)!Pieces) /\ \A i \in DOMAIN left : left[i].client = c
  BY <1>2, Behind DEF Ac!Waiting, Ac!Own
<1> HIDE DEF left
<1>4. s3' \in [Peers(p) -> Seq(Ac(p)!Pieces)] /\ Ac(p)!Own'
  BY <1>1, <1>3 DEF Ac!Waiting, Ac!Own
<1>5. s6' \in 0..RequestRoom
  BY <1>1, <1>2 DEF Ac!Waiting
<1>6. s1' \in [Peers(p) -> {"none", "new", "open", "closed"}]
  BY <1>1 DEF Ac!Waiting
<1> QED BY <1>1, <1>4, <1>5, <1>6 DEF Ac!Waiting

LEMMA AcceptWaits ==
  ASSUME NEW p \in Handshakes, Ac(p)!Waiting, [Ac(p)!Next]_(Ac(p)!vars)
  PROVE  Ac(p)!Waiting'
<1> Ac(p)!UnitAssumption /\ Ac(p)!CutAssumption
  BY Assumptions
<1> USE DEF Ac!UnitAssumption, Ac!CutAssumption
<1>1. ASSUME NEW c \in Peers(p), Ac(p)!ServerStep(c)
      PROVE  Ac(p)!Waiting'
  <2>1. CASE Ac(p)!OnConnect(c)
    BY <2>1 DEF Ac!OnConnect, Ac!Waiting, Ac!Own
  <2>2. CASE Ac(p)!ReadEnd(c)
    BY <2>2 DEF Ac!ReadEnd, Ac!Close, Ac!Waiting, Ac!Own
  <2>3. CASE Ac(p)!ReadError(c)
    BY <2>3 DEF Ac!ReadError, Ac!Waiting, Ac!Own
  <2> QED BY <1>1, <2>1, <2>2, <2>3, AcceptRead DEF Ac!ServerStep
<1>2. ASSUME NEW c \in Peers(p), Ac(p)!ClientStep(c)
      PROVE  Ac(p)!Waiting'
  <2>1. ASSUME NEW n \in 1..RequestUnits, Ac(p)!Send(c, n)
        PROVE  Ac(p)!Waiting'
    <3> DEFINE more == [i \in 1..n |-> Ac(p)!Piece(c, s2[c] + i)]
               whole == s3[c] \o more
    <3>1. s2[c] \in Nat
      BY DEF Ac!Waiting
    <3>2. more \in Seq(Ac(p)!Pieces) /\ \A i \in DOMAIN more : more[i].client = c
      BY <3>1 DEF Ac!Piece, Ac!Pieces
    <3>3. /\ s2[c] + n <= RequestUnits /\ s2' = [s2 EXCEPT ![c] = @ + n]
          /\ s3' = [s3 EXCEPT ![c] = whole] /\ s1' = s1 /\ s6' = s6
      BY <2>1 DEF Ac!Send
    <3> HIDE DEF more
    <3>4. whole \in Seq(Ac(p)!Pieces) /\ \A i \in DOMAIN whole : whole[i].client = c
      BY <3>2, ConcatProperties DEF Ac!Waiting, Ac!Own
    <3> HIDE DEF whole
    <3>5. s3' \in [Peers(p) -> Seq(Ac(p)!Pieces)] /\ Ac(p)!Own'
      BY <3>3, <3>4 DEF Ac!Waiting, Ac!Own
    <3> QED BY <3>1, <3>3, <3>5 DEF Ac!Waiting
  <2>2. ASSUME NEW how \in {"fin", "rst"}, Ac(p)!End(c, how)
        PROVE  Ac(p)!Waiting'
    BY <2>2 DEF Ac!End, Ac!Waiting, Ac!Own
  <2> QED BY <1>2, <2>1, <2>2 DEF Ac!ClientStep, Handshakes
<1>3. CASE UNCHANGED Ac(p)!vars
  BY <1>3 DEF Ac!vars, Ac!Waiting, Ac!Own
<1> QED BY <1>1, <1>2, <1>3 DEF Ac!Next

\* The first n elements of a sequence, and those from the n-th on.
LEMMA Ahead ==
  ASSUME NEW S, NEW s \in Seq(S), NEW n \in 0..Len(s)
  PROVE  SubSeq(s, 1, n) \in Seq(S) /\ Len(SubSeq(s, 1, n)) = n
<1>1. n \in Int /\ \A i \in 1..n : s[i] \in S
  OBVIOUS
<1> QED BY <1>1, SubSeqProperties

LEMMA From ==
  ASSUME NEW S, NEW s \in Seq(S), NEW n \in Nat \ {0}
  PROVE  /\ SubSeq(s, n, Len(s)) \in Seq(S)
         /\ Len(SubSeq(s, n, Len(s))) = IF n <= Len(s) THEN Len(s) - n + 1 ELSE 0
<1>1. n \in Int /\ Len(s) \in Int /\ \A i \in n..Len(s) : s[i] \in S
  OBVIOUS
<1> QED BY <1>1, SubSeqProperties

\* The key that is found is at a place of the text.
LEMMA KeyFound ==
  ASSUME NEW p \in Handshakes, NEW text \in Seq(Ac(p)!Pieces)
  PROVE  Ac(p)!KeyIn(text) \in 0..Len(text)
<1> DEFINE keys == {i \in DOMAIN text : text[i].unit = RequestKey}
<1>1. Ac(p)!KeyIn(text) = IF keys = {} THEN 0 ELSE CHOOSE i \in keys : \A j \in keys : j <= i
  BY DEF Ac!KeyIn
<1>2. Len(text) \in Nat /\ \A i \in keys : i \in Nat /\ i <= Len(text)
  OBVIOUS
<1> HIDE DEF keys
<1>3. CASE keys # {}
  <2>1. \E i \in keys : \A j \in keys : j <= i
    BY <1>2, <1>3, Greatest
  <2>2. Ac(p)!KeyIn(text) \in keys
    BY <1>1, <1>3, <2>1
  <2> QED BY <1>2, <2>2
<1> QED BY <1>1, <1>2, <1>3

\* What is read into the buffer stays within it, and the key that a client is
\* answered with is some client's.
LEMMA AcceptBuffer ==
  ASSUME NEW p \in Handshakes, Ac(p)!IInv, NEW c \in Peers(p), Ac(p)!Read(c)
  PROVE  Ac(p)!Buffered'
<1> Ac(p)!UnitAssumption
  BY Assumptions
<1> USE DEF Ac!UnitAssumption, Ac!IInv
<1> DEFINE bytes == Ac(p)!Bytes(c)
           text == SubSeq(s5, 1, s6) \o SubSeq(s3[c], 1, bytes)
           rest == SubSeq(s5, s6 + bytes + 1, Len(s5))
           key == Ac(p)!KeyIn(SubSeq(text, 1, bytes))
<1>1. /\ s5' = text \o rest /\ s7' = s7
      /\ \/ s6' = 0 /\ (s8' = s8 \/ (key # 0 /\ s8' = [s8 EXCEPT ![c] = text[key].client]))
         \/ s6' = s6 + bytes /\ s8' = s8
  BY DEF Ac!Read, Ac!Serve, Ac!Close, Ac!Buffered
<1>2. /\ bytes \in 0..Len(s3[c]) /\ s6 + bytes <= RequestRoom /\ s6 \in Nat
      /\ s3[c] \in Seq(Ac(p)!Pieces) /\ s5 \in Seq(Ac(p)!Pieces)
      /\ s6 \in 0..Len(s5) /\ Len(s5) \in Nat /\ Len(s5) <= RequestRoom
  BY DEF Ac!Bytes, Ac!Waiting, Ac!Buffered
<1> HIDE DEF bytes
<1>3. text \in Seq(Ac(p)!Pieces) /\ Len(text) = s6 + bytes
  BY <1>2, Ahead, ConcatProperties
<1>4. /\ rest \in Seq(Ac(p)!Pieces)
      /\ Len(rest) = IF s6 + bytes < Len(s5) THEN Len(s5) - (s6 + bytes) ELSE 0
  <2>1. s6 + bytes + 1 \in Nat \ {0} /\ Len(s5) \in Nat
    BY <1>2
  <2>2. /\ rest \in Seq(Ac(p)!Pieces)
        /\ Len(rest) = IF s6 + bytes + 1 <= Len(s5) THEN Len(s5) - (s6 + bytes + 1) + 1 ELSE 0
    BY <1>2, <2>1, From
  <2> QED BY <1>2, <2>1, <2>2
<1> HIDE DEF text, rest
<1>5. s5' \in Seq(Ac(p)!Pieces) /\ Len(s5') = Len(text) + Len(rest)
  BY <1>1, <1>3, <1>4, ConcatProperties
<1>6. s6' <= Len(s5') /\ Len(s5') <= RequestRoom
  <2> DEFINE held == Len(s5)
             behind == Len(rest)
  <2>1. s6' = 0 \/ s6' = s6 + bytes
    BY <1>1
  <2>2. behind = IF s6 + bytes < held THEN held - (s6 + bytes) ELSE 0
    BY <1>4
  <2>3. bytes \in Nat /\ s6 \in Nat /\ s6 + bytes <= RequestRoom
        /\ held \in Nat /\ held <= RequestRoom
    BY <1>2
  <2>4. Len(s5') = s6 + bytes + behind
    BY <1>3, <1>5
  <2> HIDE DEF held, behind
  <2> QED BY <2>1, <2>2, <2>3, <2>4
<1>7. s8' \in [Peers(p) -> Peers(p) \cup {Ac(p)!None}]
  <2>1. bytes \in 0..Len(text)
    BY <1>2, <1>3
  <2>2. key \in 0..bytes
    BY <1>3, <2>1, Ahead, KeyFound
  <2>3. key # 0 => text[key] \in Ac(p)!Pieces
    BY <1>3, <2>1, <2>2
  <2> HIDE DEF key
  <2>4. key # 0 => text[key].client \in Peers(p)
    BY <2>3 DEF Ac!Pieces
  <2> QED BY <1>1, <2>4 DEF Ac!Buffered
<1>8. s7' \in BOOLEAN
  BY <1>1, Zenon DEF Ac!Buffered
<1> QED BY <1>5, <1>6, <1>7, <1>8 DEF Ac!Buffered

\* What was waiting in the buffer is of clients in their handshake, and what a
\* read adds is of the client that was read, which is one of them.
LEMMA AcceptReadLeaves ==
  ASSUME NEW p \in Handshakes, Ac(p)!IInv, NEW c \in Peers(p), Ac(p)!Read(c)
  PROVE  Ac(p)!Leftover'
<1> Ac(p)!UnitAssumption
  BY Assumptions
<1> USE DEF Ac!UnitAssumption, Ac!IInv
<1> DEFINE bytes == Ac(p)!Bytes(c)
           held == SubSeq(s5, 1, s6)
           new == SubSeq(s3[c], 1, bytes)
           rest == SubSeq(s5, s6 + bytes + 1, Len(s5))
           text == held \o new
<1>1. /\ s1[c] = "new" /\ s5' = text \o rest
      /\ \/ s6' = 0
         \/ s6' = s6 + bytes /\ s1' = s1
  BY DEF Ac!Read, Ac!Serve, Ac!Close
<1>2. /\ bytes \in 0..Len(s3[c]) /\ s6 \in Nat /\ s6 \in 0..Len(s5)
      /\ s3[c] \in Seq(Ac(p)!Pieces) /\ s5 \in Seq(Ac(p)!Pieces)
  BY DEF Ac!Bytes, Ac!Waiting, Ac!Buffered
<1> HIDE DEF bytes
<1>3. /\ held \in Seq(Ac(p)!Pieces) /\ Len(held) = s6
      /\ new \in Seq(Ac(p)!Pieces) /\ Len(new) = bytes
  BY <1>2, Ahead
<1>4. \A i \in 1..s6 : s1[held[i].client] = "new"
  BY <1>2 DEF Ac!Leftover
<1>5. \A i \in 1..bytes : new[i].client = c
  BY <1>2 DEF Ac!Waiting, Ac!Own
<1>6. rest \in Seq(Ac(p)!Pieces)
  BY <1>2, From
<1> HIDE DEF held, new, rest
<1>7. /\ text \in Seq(Ac(p)!Pieces) /\ Len(text) = s6 + bytes
      /\ \A i \in 1..(s6 + bytes) :
           text[i] = IF i <= s6 THEN held[i] ELSE new[i - s6]
  BY <1>2, <1>3, ConcatProperties
<1> HIDE DEF text
<1>8. \A i \in 1..(s6 + bytes) : s5'[i] = text[i]
  BY <1>1, <1>2, <1>6, <1>7, ConcatProperties
<1>9. ASSUME NEW i \in 1..(s6 + bytes) PROVE s1[s5'[i].client] = "new"
  <2>1. CASE i <= s6
    <3>1. i \in 1..s6 /\ s5'[i] = held[i]
      BY <1>2, <1>7, <1>8, <2>1
    <3> QED BY <1>4, <3>1
  <2>2. CASE i > s6
    <3>1. i - s6 \in 1..bytes /\ s5'[i] = new[i - s6]
      BY <1>2, <1>7, <1>8, <2>2
    <3> QED BY <1>1, <1>5, <3>1
  <2> QED BY <1>2, <2>1, <2>2
<1>10. CASE s6' = 0
  BY <1>10 DEF Ac!Leftover
<1>11. CASE s6' = s6 + bytes /\ s1' = s1
  BY <1>9, <1>11 DEF Ac!Leftover
<1> QED BY <1>1, <1>10, <1>11

LEMMA AcceptLeaves ==
  ASSUME NEW p \in Handshakes, Ac(p)!IInv, [Ac(p)!Next]_(Ac(p)!vars)
  PROVE  Ac(p)!Leftover'
<1>1. ASSUME NEW c \in Peers(p), Ac(p)!ServerStep(c)
      PROVE  Ac(p)!Leftover'
  <2>1. CASE Ac(p)!OnConnect(c)
    <3>1. /\ s1' = [s1 EXCEPT ![c] = "new"] /\ UNCHANGED <<s5, s6>>
          /\ s1 \in [Peers(p) -> {"none", "new", "open", "closed"}]
      BY <2>1 DEF Ac!OnConnect, Ac!IInv, Ac!Waiting
    <3>2. ASSUME NEW i \in 1..s6 PROVE s5[i].client \in Peers(p)
      <4>1. s5 \in Seq(Ac(p)!Pieces) /\ i \in 1..Len(s5)
        BY DEF Ac!IInv, Ac!Waiting, Ac!Buffered
      <4>2. s5[i] \in Ac(p)!Pieces
        BY <4>1
      <4> QED BY <4>2 DEF Ac!Pieces
    <3> QED BY <3>1, <3>2 DEF Ac!IInv, Ac!Leftover
  <2>2. CASE Ac(p)!ReadEnd(c) \/ Ac(p)!ReadError(c)
    <3>1. s6' = 0
      BY <2>2 DEF Ac!ReadEnd, Ac!Close, Ac!ReadError
    <3> QED BY <3>1 DEF Ac!Leftover
  <2> QED BY <1>1, <2>1, <2>2, AcceptReadLeaves DEF Ac!ServerStep
<1>2. ASSUME NEW c \in Peers(p), Ac(p)!ClientStep(c)
      PROVE  UNCHANGED <<s1, s5, s6>>
  BY <1>2 DEF Ac!ClientStep, Ac!Send, Ac!End
<1>3. CASE UNCHANGED Ac(p)!vars
  BY <1>3 DEF Ac!vars, Ac!IInv, Ac!Leftover
<1>4. UNCHANGED <<s1, s5, s6>> => Ac(p)!Leftover'
  BY DEF Ac!IInv, Ac!Leftover
<1> QED BY <1>1, <1>2, <1>3, <1>4 DEF Ac!Next

LEMMA AcceptKeep ==
  ASSUME NEW p \in Handshakes, Ac(p)!IInv, [Ac(p)!Next]_(Ac(p)!vars)
  PROVE  Ac(p)!IInv'
<1>1. Ac(p)!Waiting'
  BY AcceptWaits DEF Ac!IInv
<1>2. Ac(p)!Buffered'
  <2>1. ASSUME NEW c \in Peers(p), Ac(p)!ServerStep(c)
        PROVE  Ac(p)!Buffered'
    <3>1. CASE Ac(p)!OnConnect(c)
      BY <3>1 DEF Ac!OnConnect, Ac!IInv, Ac!Buffered
    <3>2. CASE Ac(p)!ReadEnd(c)
      BY <3>2 DEF Ac!ReadEnd, Ac!Close, Ac!IInv, Ac!Buffered
    <3>3. CASE Ac(p)!ReadError(c)
      <4>1. s7' \in BOOLEAN /\ s6' = 0 /\ UNCHANGED <<s5, s8>>
        BY <3>3, Zenon DEF Ac!ReadError
      <4> QED BY <4>1 DEF Ac!IInv, Ac!Buffered
    <3> QED BY <2>1, <3>1, <3>2, <3>3, AcceptBuffer DEF Ac!ServerStep
  <2>2. ASSUME NEW c \in Peers(p), Ac(p)!ClientStep(c)
        PROVE  UNCHANGED <<s5, s6, s7, s8>>
    BY <2>2 DEF Ac!ClientStep, Ac!Send, Ac!End
  <2>3. CASE UNCHANGED Ac(p)!vars
    BY <2>3 DEF Ac!vars, Ac!IInv, Ac!Buffered
  <2>4. UNCHANGED <<s5, s6, s7, s8>> => Ac(p)!Buffered'
    BY DEF Ac!IInv, Ac!Buffered
  <2> QED BY <2>1, <2>2, <2>3, <2>4 DEF Ac!Next
<1>3. Ac(p)!Leftover'
  BY AcceptLeaves
<1> QED BY <1>1, <1>2, <1>3 DEF Ac!IInv

-----------------------------------------------------------------------------
(* websocket/client.js and its server.                                     *)

LEMMA Lengths ==
  ASSUME NEW S, NEW s \in Seq(S)
  PROVE  Len(s) \in Nat /\ (Len(s) = 0 <=> s = <<>>) /\ s \o <<>> = s
<1>1. s \o <<>> = s
  BY ConcatEmptySeq
<1>2. Len(s) = 0 <=> s = <<>>
  BY EmptySeq
<1>3. Len(s) \in Nat
  BY LenProperties
<1> QED BY <1>1, <1>2, <1>3, Zenon

LEMMA Joining ==
  ASSUME NEW S, NEW s \in Seq(S), NEW b \in Seq(S)
  PROVE  /\ s \o b \in Seq(S) /\ Len(s \o b) = Len(s) + Len(b)
         /\ \E n \in 0..Len(s \o b) : s = SubSeq(s \o b, 1, n)
<1>0. /\ SubSeq(s, 1, Len(s)) = s /\ Len(s) \in Nat /\ Len(b) \in Nat
      /\ Len(s) # 0 => Len(s) \in 1..Len(s) /\ 1 \in 1..Len(s)
  <2>1. Len(s) \in Nat /\ Len(b) \in Nat
    BY LenProperties
  <2>2. SubSeq(s, 1, Len(s)) = s
    BY SubSeqFull
  <2> QED BY <2>1, <2>2
<1> DEFINE j == s \o b
<1>1. j \in Seq(S) /\ Len(j) = Len(s) + Len(b)
  BY ConcatProperties
<1>2. s = SubSeq(j, 1, Len(s))
  <2>1. CASE Len(s) = 0
    <3>1. s = <<>>
      BY <2>1, Lengths
    <3>2. SubSeq(j, 1, 0) = <<>>
      BY SubSeqEmpty
    <3> QED BY <2>1, <3>1, <3>2, Zenon
  <2>2. CASE Len(s) # 0
    BY <1>0, <2>2, SubSeqOfConcat1, Zenon
  <2> QED BY <2>1, <2>2
<1>3. \E n \in 0..Len(j) : s = SubSeq(j, 1, n)
  <2> HIDE DEF j
  <2>1. Len(s) \in 0..Len(j)
    BY <1>0, <1>1
  <2> QED BY <1>2, <2>1
<1> QED BY <1>1, <1>3, Zenon

LEMMA Splitting ==
  ASSUME NEW S, NEW s \in Seq(S), NEW b \in Seq(S), Len(b) > 1
  PROVE  /\ Append(s, b[1]) \in Seq(S) /\ Len(Append(s, b[1])) = Len(s) + 1
         /\ Tail(b) \in Seq(S) /\ Tail(b) # <<>>
         /\ Append(s, b[1]) \o Tail(b) = s \o b
<1>1. b[1] \in S /\ b # <<>>
  OBVIOUS
<1>2. /\ Append(s, b[1]) \in Seq(S) /\ Len(Append(s, b[1])) = Len(s) + 1
      /\ Tail(b) \in Seq(S) /\ Len(Tail(b)) = Len(b) - 1
  BY <1>1
<1>3. Tail(b) # <<>>
  <2> DEFINE rest == Tail(b)
  <2>1. rest \in Seq(S) /\ Len(rest) # 0
    BY <1>2
  <2> HIDE DEF rest
  <2>2. rest # <<>>
    BY <2>1, Lengths
  <2> QED BY <2>2, Zenon DEF rest
<1>4. Append(s, b[1]) \o Tail(b) = s \o b
  <2>1. Len(Append(s, b[1]) \o Tail(b)) = Len(s \o b)
    BY <1>2, ConcatProperties
  <2>2. \A i \in 1..Len(s \o b) : (Append(s, b[1]) \o Tail(b))[i] = (s \o b)[i]
    BY <1>1, <1>2
  <2> QED BY <1>2, <2>1, <2>2, SeqEqual, ConcatProperties
<1> QED BY <1>2, <1>3, <1>4

\* What is given to send is on the wire or waits, in its order.
LEMMA Sending ==
  ASSUME NEW p \in Talks, NEW S, s5 \in Seq(S), NEW buf \in Seq(S), Len(buf) = 2,
         s3 = FALSE, Ex(p)!Send(buf, "frames")
  PROVE  /\ s1' = "frames" /\ s5' \in Seq(S) /\ s2' \in Seq(S) /\ s3' \in BOOLEAN
         /\ s5' \o s2' = s5 \o buf
         /\ IF s3' THEN s2' # <<>> ELSE s2' # <<>> => Len(s2') = 2
         /\ Len(s5') >= Len(s5)
         /\ ~s3' => \/ s2' = <<>> /\ Len(s5') = Len(s5) + 2
                    \/ s2' # <<>> /\ s5' = s5
<1>1. /\ Len(s5) \in Nat /\ buf # <<>> /\ <<>> \in Seq(S)
      /\ s3' \in BOOLEAN /\ s1' = "frames"
  <2>1. Len(s5) \in Nat /\ (Len(buf) = 0 <=> buf = <<>>)
    BY Lengths, Zenon
  <2>2. <<>> \in Seq(S)
    BY EmptySeq
  <2>3. s3' \in BOOLEAN
    BY Zenon DEF Ex!Send, Ex!WriteAll, Ex!Blocked, Ex!Short
  <2>4. s1' = "frames"
    BY DEF Ex!Send
  <2> QED BY <2>1, <2>2, <2>3, <2>4
<1>2. CASE Ex(p)!WriteAll(buf)
  <2> DEFINE j == s5 \o buf
  <2>1. s5' = j /\ s2' = <<>> /\ s3' = FALSE
    BY <1>2 DEF Ex!WriteAll
  <2>2. j \in Seq(S) /\ Len(j) = Len(s5) + 2
    <3>1. j \in Seq(S) /\ Len(j) = Len(s5) + Len(buf)
      BY Joining, Zenon
    <3> QED BY <3>1, Zenon
  <2> HIDE DEF j
  <2>3. j \o <<>> = j
    BY <2>2, Lengths, Zenon
  <2>4. s5' \o s2' = s5 \o buf
    BY <2>1, <2>3, Zenon DEF j
  <2>5. Len(s5') = Len(s5) + 2 /\ Len(s5') >= Len(s5) /\ s5' \in Seq(S)
    BY <1>1, <2>1, <2>2
  <2>6. ~s3' /\ s2' \in Seq(S)
    BY <1>1, <2>1, Zenon
  <2>7. IF s3' THEN s2' # <<>> ELSE s2' # <<>> => Len(s2') = 2
    BY <2>1, <2>6, Zenon
  <2>8. s2' = <<>>
    BY <2>1
  <2> QED BY <1>1, <2>4, <2>5, <2>6, <2>7, <2>8, Zenon
<1>3. CASE Ex(p)!Blocked(buf)
  BY <1>1, <1>3 DEF Ex!Blocked
<1>4. CASE Ex(p)!Short(buf)
  <2> DEFINE w == Append(s5, buf[1])  rest == Tail(buf)
  <2>1. s5' = w /\ s2' = rest /\ s3' = TRUE
    BY <1>4 DEF Ex!Short
  <2>2. /\ w \in Seq(S) /\ rest \in Seq(S) /\ w \o rest = s5 \o buf
        /\ Len(w) = Len(s5) + 1 /\ rest # <<>>
    <3>1. Len(buf) > 1
      OBVIOUS
    <3>2. \A b \in Seq(S) : Len(b) > 1 =>
            /\ Append(s5, b[1]) \in Seq(S) /\ Tail(b) \in Seq(S) /\ Tail(b) # <<>>
            /\ Append(s5, b[1]) \o Tail(b) = s5 \o b
            /\ Len(Append(s5, b[1])) = Len(s5) + 1
      BY Splitting, Zenon
    <3> QED BY <3>1, <3>2, Zenon
  <2> HIDE DEF w, rest
  <2> QED BY <1>1, <2>1, <2>2
<1> QED BY <1>2, <1>3, <1>4 DEF Ex!Send

LEMMA Messages ==
  ASSUME NEW p \in Talks, NEW n \in 0..2
  PROVE  Ex(p)!Message(n) \in Seq(Ex(p)!Given) /\ Len(Ex(p)!Message(n)) = 2
BY DEF Ex!Message, Ex!Given

LEMMA ExchangeStart == ASSUME NEW p \in Talks, Ex(p)!Init PROVE Ex(p)!IInv
<1>1. Reads(p) \in Nat \ {0}
  BY Assumptions DEF Ex!PartAssumption
<1>2. s3 \in BOOLEAN
  BY Zenon DEF Ex!Init
<1>3. <<>> \in Seq(Ex(p)!Given) /\ <<>> \in Seq(Ex(p)!Event) /\ Len(<<>>) = 0
  BY EmptySeq
<1>4. <<>> \o <<>> = <<>>
  BY <1>3, Lengths, Zenon
<1>5. Ex(p)!Typed
  BY <1>1, <1>2, <1>3 DEF Ex!Init, Ex!Typed
<1>6. Ex(p)!Before /\ Ex(p)!Waiting /\ Ex(p)!OnTheWay /\ Ex(p)!InOrder
  BY <1>3, <1>4 DEF Ex!Init, Ex!Before, Ex!Waiting, Ex!OnTheWay, Ex!InOrder,
     Ex!WireInOrder, Ex!EchoesOnly
<1>7. Ex(p)!Responded
  BY DEF Ex!Init, Ex!Responded
<1> QED BY <1>5, <1>6, <1>7 DEF Ex!IInv

\* Room on the wire for what is underway.
LEMMA Making ==
  ASSUME NEW n \in Nat, NEW a \in Nat, NEW u \in Nat, NEW v \in 0..1,
         NEW k \in Nat, NEW l \in Nat, 2 * (n + a + u) <= k - 2
  PROVE  /\ l = k + 2 => 2 * (n + a + v) <= l - 2
         /\ l >= k => 2 * n <= l - 2
OBVIOUS

\* A step of the client that gives a message to send, or sends again what waits:
\* what is underway of the messages before leaves room for one more.
LEMMA ExchangeSend ==
  ASSUME NEW p \in Talks, Ex(p)!IInv, s3 = FALSE, Len(s5) >= 2,
         NEW buf \in Seq(Ex(p)!Given), Len(buf) = 2, Ex(p)!Send(buf, "frames"),
         s4' \in Seq(Ex(p)!Given), s5 \o buf = s4',
         s8' \in Nat, s10 = Reads(p), s10' = s10, s11 >= 2, s11' = s11,
         s12' \in Seq(Ex(p)!Event), Ex(p)!Responded',
         2 * (s8' + Ex(p)!Coming' + Ex(p)!Unread) <= Len(s5) - 2
  PROVE  Ex(p)!IInv'
<1>1. Reads(p) \in Nat \ {0} /\ s5 \in Seq(Ex(p)!Given) /\ s11 \in Nat /\ Len(s5) \in Nat
  BY Assumptions, Lengths DEF Ex!PartAssumption, Ex!IInv, Ex!Typed
<1>2. /\ s1' = "frames" /\ s5' \in Seq(Ex(p)!Given) /\ s2' \in Seq(Ex(p)!Given)
      /\ s3' \in BOOLEAN
      /\ s5' \o s2' = s5 \o buf
      /\ IF s3' THEN s2' # <<>> ELSE s2' # <<>> => Len(s2') = 2
      /\ Len(s5') >= Len(s5)
      /\ ~s3' => \/ s2' = <<>> /\ Len(s5') = Len(s5) + 2
                 \/ s2' # <<>> /\ s5' = s5
  BY <1>1, Sending, Zenon
<1>3. Ex(p)!Typed'
  BY <1>1, <1>2 DEF Ex!Typed
<1>4. Ex(p)!Before' /\ Ex(p)!Waiting'
  BY <1>2 DEF Ex!Before, Ex!Waiting
<1>5. Len(s5') \in Nat /\ Ex(p)!Coming' \in Nat /\ Ex(p)!Unread \in Nat
  BY <1>2, Lengths DEF Ex!Coming, Ex!Unread
<1>6. Ex(p)!OnTheWay'
  <2> SUFFICES ASSUME ~s3'
               PROVE  2 * (s8' + Ex(p)!Coming' + Ex(p)!Unread') <= Len(s5') - 2
    BY DEF Ex!OnTheWay, Ex!Underway
  <2>1. CASE s2' = <<>> /\ Len(s5') = Len(s5) + 2
    <3>1. Ex(p)!Unread' \in 0..1
      BY DEF Ex!Unread
    <3> QED BY <1>1, <1>5, <2>1, <3>1, Making, Zenon
  <2>2. CASE s2' # <<>> /\ s5' = s5
    <3>1. Ex(p)!Unread' = Ex(p)!Unread
      BY <2>2 DEF Ex!Unread
    <3> QED BY <2>2, <3>1
  <2> QED BY <1>2, <2>1, <2>2
<1>7. Ex(p)!WireInOrder'
  BY <1>2, Zenon DEF Ex!WireInOrder
<1>8. Ex(p)!EchoesOnly'
  <2>1. Len(s5') >= Len(s5) /\ 0 \in 0..1
    BY <1>2
  <2>2. 2 * s8' <= Len(s5') - 2
    BY <1>1, <1>5, <2>1, Making, Zenon
  <2> QED BY <2>2 DEF Ex!EchoesOnly
<1> QED BY <1>3, <1>4, <1>6, <1>7, <1>8 DEF Ex!IInv, Ex!InOrder

\* With nothing waiting, the wire is what was given to send.
LEMMA Joined ==
  ASSUME NEW p \in Talks, Ex(p)!IInv, s1 # "closed", s2 = <<>>,
         NEW m \in Seq(Ex(p)!Given), s4' = s4 \o m
  PROVE  s5 \o m = s4' /\ s4' \in Seq(Ex(p)!Given)
<1>1. s4 \in Seq(Ex(p)!Given) /\ s5 \in Seq(Ex(p)!Given)
  BY DEF Ex!IInv, Ex!Typed
<1>2. s5 \o s2 = s4 /\ s5 \o <<>> = s5
  BY <1>1, ConcatEmptySeq DEF Ex!IInv, Ex!InOrder, Ex!WireInOrder
<1>3. s4 \o m \in Seq(Ex(p)!Given)
  BY <1>1, Joining
<1> QED BY <1>2, <1>3, Zenon

LEMMA ExchangeClient ==
  ASSUME NEW p \in Talks, Ex(p)!IInv, Ex(p)!ClientStep
  PROVE  Ex(p)!IInv'
<1>1. Reads(p) \in Nat \ {0}
  BY Assumptions DEF Ex!PartAssumption
<1>2. s4 \in Seq(Ex(p)!Given) /\ s5 \in Seq(Ex(p)!Given) /\ s2 \in Seq(Ex(p)!Given)
  BY DEF Ex!IInv, Ex!Typed
<1>3. CASE Ex(p)!Connected
  <2> DEFINE h == Ex(p)!Message(0)
  <2>1. /\ s1 = "connecting" /\ s1' = "handshake" /\ s4' = h /\ s5' = s5 \o h /\ s2' = <<>>
        /\ UNCHANGED <<s3, s7, s8, s9, s10, s11, s12>>
    BY <1>3 DEF Ex!Connected, Ex!WriteAll, Ex!Handshake
  <2>2. h \in Seq(Ex(p)!Given) /\ Len(h) = 2
    BY Messages
  <2>3. s5 = <<>>
    BY <1>2, <2>1, Lengths DEF Ex!IInv, Ex!Before
  <2> HIDE DEF h
  <2>4. s5' = h /\ s5' \o s2' = s4'
    <3>1. <<>> \o h = h /\ h \o <<>> = h
      BY <2>2, ConcatEmptySeq
    <3> QED BY <2>1, <2>3, <3>1, Zenon
  <2>5. Ex(p)!Typed'
    BY <2>1, <2>2, <2>4, EmptySeq DEF Ex!IInv, Ex!Typed
  <2>6. Ex(p)!Before' /\ Ex(p)!Responded'
    BY <2>1, <2>2, <2>4 DEF Ex!IInv, Ex!Before, Ex!Responded
  <2>7. Ex(p)!InOrder'
    <3>1. s8' = 0
      BY <2>1 DEF Ex!IInv, Ex!Before
    <3>2. s1' # "closed"
      BY <2>1
    <3>3. Ex(p)!WireInOrder'
      BY <2>4, <3>2, Zenon DEF Ex!WireInOrder
    <3>4. Ex(p)!EchoesOnly'
      BY <3>1 DEF Ex!EchoesOnly
    <3> QED BY <3>3, <3>4 DEF Ex!InOrder
  <2> QED BY <2>1, <2>5, <2>6, <2>7 DEF Ex!IInv, Ex!Waiting, Ex!OnTheWay
<1>4. CASE Ex(p)!Writable
  <2>1. /\ s1 = "frames" /\ s2 # <<>>
        /\ IF s3 THEN Ex(p)!Close ELSE Ex(p)!Send(s2, "frames")
        /\ UNCHANGED <<s4, s7, s8, s9, s10, s11, s12>>
    BY <1>4 DEF Ex!Writable
  <2>2. CASE s3
    <3>1. s1' = "closed" /\ s2' = <<>> /\ UNCHANGED <<s3, s4, s5, s8, s10, s11, s12>>
      BY <2>1, <2>2 DEF Ex!Close
    <3>2. s5 \o s2 = s4
      BY <2>1 DEF Ex!IInv, Ex!InOrder, Ex!WireInOrder
    <3>3. \E n \in 0..Len(s4) : s5 = SubSeq(s4, 1, n)
      <4>1. \E n \in 0..Len(s5 \o s2) : s5 = SubSeq(s5 \o s2, 1, n)
        BY <1>2, Joining, Zenon
      <4> QED BY <3>2, <4>1, Zenon
    <3>4. Ex(p)!Typed'
      BY <3>1, EmptySeq DEF Ex!IInv, Ex!Typed
    <3>5. Ex(p)!InOrder'
      BY <3>1, <3>3 DEF Ex!IInv, Ex!InOrder, Ex!WireInOrder, Ex!EchoesOnly
    <3> QED BY <3>1, <3>4, <3>5 DEF Ex!IInv, Ex!Before, Ex!Responded, Ex!Waiting, Ex!OnTheWay
  <2>3. CASE ~s3
    <3>1. s3 = FALSE /\ Len(s2) = 2 /\ s10 = Reads(p) /\ s11 >= 2 /\ s8 \in Nat
      BY <2>1, <2>3 DEF Ex!IInv, Ex!Typed, Ex!Waiting
    <3>2. s5 \o s2 = s4
      BY <2>1 DEF Ex!IInv, Ex!InOrder, Ex!WireInOrder
    <3>3. 2 * (s8' + Ex(p)!Coming' + Ex(p)!Unread) <= Len(s5) - 2
      BY <2>1, <2>3 DEF Ex!IInv, Ex!OnTheWay, Ex!Underway, Ex!Coming
    <3>4. Len(s5) >= 2
      <4>1. Ex(p)!Coming' \in 0..1 /\ Ex(p)!Unread \in 0..1 /\ Len(s5) \in Nat /\ s8' \in Nat
        BY <1>2, <2>1, <3>1, Lengths DEF Ex!Coming, Ex!Unread
      <4> QED BY <3>3, <4>1
    <3>5. Ex(p)!Responded' /\ s12' \in Seq(Ex(p)!Event)
      BY <2>1 DEF Ex!IInv, Ex!Typed, Ex!Responded
    <3> QED BY <1>2, <2>1, <2>3, <3>1, <3>2, <3>3, <3>4, <3>5, ExchangeSend
  <2> QED BY <2>2, <2>3
<1>5. CASE Ex(p)!ReadResponse
  <2> DEFINE m == Ex(p)!Message(1)
  <2>1. /\ s1 = "handshake" /\ s12' = <<>> /\ UNCHANGED <<s8, s9, s10, s11>>
        /\ \/ /\ \A part \in 1..Reads(p) : part \in DOMAIN s12 /\ s12[part] = <<"r", part>>
              /\ s4' = s4 \o m /\ Ex(p)!Send(m, "frames")
           \/ UNCHANGED <<s1, s2, s3, s4, s5>>
    BY <1>5 DEF Ex!ReadResponse
  <2>2. /\ s2 = <<>> /\ s3 = FALSE /\ s8 = 0 /\ Len(s5) = 2
        /\ s11 = IF s10 = 0 THEN 0 ELSE 2
    BY <2>1 DEF Ex!IInv, Ex!Before
  <2>3. s12' \in Seq(Ex(p)!Event) /\ Ex(p)!Responded'
    BY <2>1, EmptySeq DEF Ex!Responded
  <2>4. CASE UNCHANGED <<s1, s2, s3, s4, s5>>
    <3>1. Ex(p)!Typed' /\ Ex(p)!Before' /\ Ex(p)!InOrder'
      BY <2>1, <2>3, <2>4 DEF Ex!IInv, Ex!Typed, Ex!Before, Ex!InOrder, Ex!WireInOrder,
         Ex!EchoesOnly
    <3> QED BY <2>1, <2>3, <2>4, <3>1 DEF Ex!IInv, Ex!Waiting, Ex!OnTheWay
  <2>5. ASSUME \A part \in 1..Reads(p) : part \in DOMAIN s12 /\ s12[part] = <<"r", part>>,
               s4' = s4 \o m, Ex(p)!Send(m, "frames")
        PROVE  Ex(p)!IInv'
    <3>1. s10 = Reads(p)
      <4>1. Reads(p) \in DOMAIN s12 /\ s12[Reads(p)] = <<"r", Reads(p)>>
        BY <1>1, <2>5
      <4>2. Reads(p) <= s10 /\ s10 \in 0..Reads(p)
        BY <4>1 DEF Ex!IInv, Ex!Responded, Ex!Typed
      <4> QED BY <1>1, <4>2
    <3>2. m \in Seq(Ex(p)!Given) /\ Len(m) = 2
      BY Messages
    <3> HIDE DEF m
    <3>3. s5 \o m = s4' /\ s4' \in Seq(Ex(p)!Given)
      BY <1>2, <2>1, <2>2, <2>5, <3>2, Joined
    <3>4. s11 = 2 /\ Ex(p)!Coming' = 0 /\ Ex(p)!Unread = 0
      BY <1>1, <2>1, <2>2, <3>1 DEF Ex!Coming, Ex!Unread
    <3>5. 2 * (s8' + Ex(p)!Coming' + Ex(p)!Unread) <= Len(s5) - 2
      BY <2>1, <2>2, <3>4
    <3>6. s8' \in Nat /\ Len(s5) >= 2 /\ s11 >= 2
      BY <2>1, <2>2, <3>4
    <3> QED BY <2>1, <2>2, <2>3, <2>5, <3>1, <3>2, <3>3, <3>5, <3>6, ExchangeSend
  <2> QED BY <2>1, <2>4, <2>5
<1>6. CASE Ex(p)!ReadFrame
  <2> DEFINE m == Ex(p)!Message(2)
  <2>1. /\ s1 = "frames" /\ s2 = <<>> /\ s12 # <<>> /\ s12' = <<>> /\ s8' = s8 + 1
        /\ UNCHANGED <<s9, s10, s11>>
        /\ \/ s8 = 0 /\ s4' = s4 \o m /\ Ex(p)!Send(m, "frames")
           \/ UNCHANGED <<s1, s2, s3, s4, s5>>
    BY <1>6 DEF Ex!ReadFrame
  <2>2. /\ s3 = FALSE /\ s10 = Reads(p) /\ s11 >= 2 /\ s8 \in Nat /\ Len(s5) \in Nat
    BY <1>2, <2>1, Lengths DEF Ex!IInv, Ex!Typed, Ex!Waiting
  <2>3. s12' \in Seq(Ex(p)!Event) /\ Ex(p)!Responded'
    BY <2>1, EmptySeq DEF Ex!Responded
  <2>4. Ex(p)!Coming = 1 /\ Ex(p)!Coming' = 0 /\ Ex(p)!Unread \in 0..1
    BY <2>1 DEF Ex!Coming, Ex!Unread
  <2>5. 2 * (s8' + Ex(p)!Coming' + Ex(p)!Unread) <= Len(s5) - 2
    <3>1. 2 * (s8 + Ex(p)!Coming + Ex(p)!Unread) <= Len(s5) - 2
      BY <2>1, <2>2 DEF Ex!IInv, Ex!OnTheWay, Ex!Underway
    <3> QED BY <2>1, <2>2, <2>4, <3>1
  <2>6. CASE UNCHANGED <<s1, s2, s3, s4, s5>>
    <3>1. Ex(p)!Typed' /\ Ex(p)!Before' /\ Ex(p)!Waiting'
      BY <2>1, <2>2, <2>3, <2>6 DEF Ex!IInv, Ex!Typed, Ex!Before, Ex!Waiting
    <3>2. Ex(p)!Unread' = Ex(p)!Unread
      BY <2>1, <2>6 DEF Ex!Unread
    <3>3. Ex(p)!OnTheWay'
      BY <2>5, <2>6, <3>2 DEF Ex!OnTheWay, Ex!Underway
    <3>4. Ex(p)!WireInOrder'
      BY <2>6 DEF Ex!IInv, Ex!InOrder, Ex!WireInOrder
    <3>5. Ex(p)!EchoesOnly'
      BY <2>1, <2>2, <2>4, <2>5, <2>6 DEF Ex!EchoesOnly
    <3> QED BY <2>3, <3>1, <3>3, <3>4, <3>5 DEF Ex!IInv, Ex!InOrder
  <2>7. ASSUME s4' = s4 \o m, Ex(p)!Send(m, "frames")
        PROVE  Ex(p)!IInv'
    <3>1. m \in Seq(Ex(p)!Given) /\ Len(m) = 2
      BY Messages
    <3> HIDE DEF m
    <3>2. s5 \o m = s4' /\ s4' \in Seq(Ex(p)!Given)
      BY <1>2, <2>1, <2>7, <3>1, Joined
    <3>3. s8' \in Nat /\ Len(s5) >= 2
      BY <2>1, <2>2, <2>4, <2>5
    <3> QED BY <2>1, <2>2, <2>3, <2>5, <2>7, <3>1, <3>2, <3>3, ExchangeSend
  <2> QED BY <2>1, <2>6, <2>7
<1> QED BY <1>3, <1>4, <1>5, <1>6 DEF Ex!ClientStep

LEMMA ExchangeServer ==
  ASSUME NEW p \in Talks, Ex(p)!IInv, Ex(p)!ServerStep
  PROVE  Ex(p)!IInv'
<1>1. Reads(p) \in Nat \ {0} /\ Len(s5) \in Nat
  BY Assumptions, Lengths DEF Ex!PartAssumption, Ex!IInv, Ex!Typed
<1>2. UNCHANGED <<s1, s2, s3, s4, s5, s8>>
  BY DEF Ex!ServerStep, Ex!Respond, Ex!Echo, Ex!ServerClose, Ex!clientVars
<1>3. Ex(p)!InOrder'
  BY <1>2 DEF Ex!IInv, Ex!InOrder, Ex!WireInOrder, Ex!EchoesOnly
<1>4. CASE Ex(p)!Respond
  <2> DEFINE e == <<"r", s10 + 1>>
  <2>1. /\ Len(s5) >= 2 /\ s10 < Reads(p) /\ s10' = s10 + 1 /\ s11' = 2
        /\ s12' = Append(s12, e)
    BY <1>4 DEF Ex!Respond
  <2>2. s10 \in 0..Reads(p) /\ s12 \in Seq(Ex(p)!Event)
    BY DEF Ex!IInv, Ex!Typed
  <2>3. e \in Ex(p)!Event
    BY <1>1, <2>1, <2>2 DEF Ex!Event
  <2>4. s12' \in Seq(Ex(p)!Event)
    BY <2>1, <2>2, <2>3
  <2>5. Ex(p)!Typed'
    BY <1>1, <1>2, <2>1, <2>2, <2>4 DEF Ex!IInv, Ex!Typed
  <2>6. Ex(p)!Before'
    BY <1>1, <1>2, <2>1, <2>2 DEF Ex!IInv, Ex!Before
  <2>7. Ex(p)!Responded'
    <3> SUFFICES ASSUME NEW i \in DOMAIN s12', s12'[i][1] = "r"
                 PROVE  s12'[i][2] <= s10'
      BY DEF Ex!Responded
    <3>1. e[2] = s10 + 1
      OBVIOUS
    <3> HIDE DEF e
    <3>2. (i \in DOMAIN s12 /\ s12'[i] = s12[i]) \/ s12'[i] = e
      BY <2>1, <2>2
    <3>3. CASE i \in DOMAIN s12 /\ s12'[i] = s12[i]
      <4>1. s12[i][2] <= s10 /\ s12[i] \in Ex(p)!Event
        BY <2>2, <3>3 DEF Ex!IInv, Ex!Responded
      <4>2. s12[i][2] \in Nat
        BY <1>1, <4>1, <3>3 DEF Ex!Event
      <4> QED BY <2>1, <2>2, <3>3, <4>1, <4>2
    <3>4. CASE s12'[i] = e
      BY <2>1, <2>2, <3>1, <3>4
    <3> QED BY <3>2, <3>3, <3>4
  <2>8. s1 # "frames"
    BY <1>1, <2>1 DEF Ex!IInv, Ex!Waiting
  <2> QED BY <1>2, <1>3, <2>5, <2>6, <2>7, <2>8 DEF Ex!IInv, Ex!Waiting, Ex!OnTheWay
<1>5. CASE Ex(p)!Echo
  <2> DEFINE e == <<"echo", Len(s5)>>
  <2>1. /\ s10 = Reads(p) /\ Len(s5) > s11 /\ s11' = Len(s5) /\ s10' = s10
        /\ s12' = Append(s12, e)
    BY <1>5 DEF Ex!Echo
  <2>2. s12 \in Seq(Ex(p)!Event) /\ s11 \in Nat /\ e \in Ex(p)!Event
    BY <1>1 DEF Ex!IInv, Ex!Typed, Ex!Event
  <2>3. s12' \in Seq(Ex(p)!Event) /\ s12' # <<>>
    BY <2>1, <2>2
  <2>4. Ex(p)!Typed'
    BY <1>1, <1>2, <2>1, <2>3 DEF Ex!IInv, Ex!Typed
  <2>5. s1 \notin {"connecting", "handshake"}
    BY <1>1, <2>1, <2>2 DEF Ex!IInv, Ex!Before
  <2>6. Ex(p)!Responded'
    <3>1. e[1] # "r"
      OBVIOUS
    <3> HIDE DEF e
    <3>2. \A i \in DOMAIN s12' : (i \in DOMAIN s12 /\ s12'[i] = s12[i]) \/ s12'[i] = e
      BY <2>1, <2>2
    <3> QED BY <2>1, <3>1, <3>2 DEF Ex!IInv, Ex!Responded
  <2>7. Ex(p)!OnTheWay'
    <3>1. Ex(p)!Unread = 1 /\ Ex(p)!Unread' = 0
      BY <1>1, <1>2, <2>1, <2>2 DEF Ex!Unread
    <3>2. Ex(p)!Coming \in 0..1 /\ Ex(p)!Coming' \in 0..1 /\ s8 \in Nat
      BY DEF Ex!Coming, Ex!IInv, Ex!Typed
    <3> QED BY <1>1, <1>2, <3>1, <3>2 DEF Ex!IInv, Ex!OnTheWay, Ex!Underway
  <2>8. Ex(p)!Waiting'
    BY <1>1, <1>2, <2>1, <2>2 DEF Ex!IInv, Ex!Waiting
  <2> QED BY <1>2, <1>3, <2>4, <2>5, <2>6, <2>7, <2>8 DEF Ex!IInv, Ex!Before
<1>6. CASE Ex(p)!ServerClose
  <2>1. UNCHANGED <<s10, s11, s12>>
    BY <1>6 DEF Ex!ServerClose
  <2> QED BY <1>2, <1>3, <2>1 DEF Ex!IInv, Ex!Typed, Ex!Before, Ex!Responded, Ex!Waiting,
     Ex!OnTheWay, Ex!Underway, Ex!Coming, Ex!Unread
<1> QED BY <1>4, <1>5, <1>6 DEF Ex!ServerStep

LEMMA ExchangeKeep ==
  ASSUME NEW p \in Talks, Ex(p)!IInv, [Ex(p)!Next]_(Ex(p)!vars)
  PROVE  Ex(p)!IInv'
<1>1. CASE UNCHANGED Ex(p)!vars
  BY <1>1 DEF Ex!vars, Ex!clientVars, Ex!IInv, Ex!Typed, Ex!Before, Ex!Responded, Ex!Waiting,
     Ex!OnTheWay, Ex!Underway, Ex!Coming, Ex!Unread, Ex!InOrder, Ex!WireInOrder, Ex!EchoesOnly
<1> QED BY <1>1, ExchangeClient, ExchangeServer DEF Ex!Next

-----------------------------------------------------------------------------
(* The theorems.                                                           *)

LEMMA Started == Init => IInv
<1> SUFFICES ASSUME Init PROVE IInv
  OBVIOUS
<1> USE DEF Init, Echoes, Handshakes, Talks
<1>0. ASSUME NEW k \in Echoes, subject = k PROVE Eo(k)!IInv
  BY <1>0, EchoStart
<1>1. ASSUME subject = "pingpong" PROVE Pp!IInv
  BY <1>1, PingStart
<1>2. ASSUME NEW p \in Handshakes, subject = p PROVE Ac(p)!IInv
  BY <1>2, AcceptStart
<1>3. ASSUME NEW p \in Talks, subject = p PROVE Ex(p)!IInv
  BY <1>3, ExchangeStart
<1> QED BY <1>0, <1>1, <1>2, <1>3 DEF IInv

LEMMA Preserved == IInv /\ [Next]_all => IInv'
  BY Steps, EchoKeep, PingKeep, AcceptKeep, ExchangeKeep DEF IInv

LEMMA Inductive == Spec => []IInv
  BY Started, Preserved, PTL DEF Spec

\* The variables of the echo, ping-pong and WebSocket servers stay in their types:
\* no stream holds more than its socket has room for, what is pending is no more
\* than the payload, and websocket/server.js writes no byte past its buffer and
\* answers with no key but a client's.
THEOREM Typed == Spec => []TypeOK
<1>1. \A k \in Echoes : Eo(k)!IInv => Eo(k)!TypeOK
  BY DEF Eo!IInv
<1>2. Pp!IInv => Pp!TypeOK
  BY DEF Pp!IInv
<1>3. \A p \in Handshakes : Ac(p)!IInv => Ac(p)!TypeOK
  BY DEF Ac!IInv, Ac!Waiting, Ac!Buffered, Ac!TypeOK
<1>4. IInv => TypeOK
  BY <1>1, <1>2, <1>3 DEF IInv, TypeOK
<1> QED BY <1>4, Inductive, PTL

\* The echo servers lose no octet that goes round while both sides run, unless
\* echo-server-bp.js could not write it at all, they send none twice, and what
\* is pending is watched for, whatever the payload, the room in a socket and what
\* a write costs of it, and however a read cuts what was written.
THEOREM OctetsConserved == Spec => []Conserved
<1>1. IInv => Conserved
  BY EchoConserves DEF IInv, Conserved
<1> QED BY <1>1, Inductive, PTL

\* The figures udp-ping-pong.js prints for one second belong together, however
\* often the timer falls between the callbacks of its two sockets, and also when
\* the datagram is lost.
THEOREM FiguresTogether == Spec => []FiguresAgree
<1>1. IInv => FiguresAgree
  BY PingAgrees DEF IInv, FiguresAgree
<1> QED BY <1>1, Inductive, PTL

\* Every piece that waits in the one receive buffer of websocket/server.js is of a
\* client still in its handshake, for any number of clients, any size of the
\* buffer and any pieces their requests arrive in.
THEOREM LeftoverWaits == Spec => []Leftover
<1>1. IInv => Leftover
  BY DEF IInv, Leftover, Ac!IInv
<1> QED BY <1>1, Inductive, PTL

\* websocket/client.js puts what it is given to send on the wire in its order,
\* however often the socket is full, and never takes a message for received that
\* was not wholly written.
THEOREM SentInOrder == Spec => []InOrder
<1>1. IInv => InOrder
  BY DEF IInv, InOrder, Ex!IInv
<1> QED BY <1>1, Inductive, PTL

=============================================================================
