--------------------------- MODULE ServersProofs ----------------------------
(***************************************************************************)
(* What the servers of MCServers and their clients keep, for every number  *)
(* of connections, of pieces of a handshake, of tickets, records,          *)
(* descriptors and requests.                                               *)
(***************************************************************************)
EXTENDS MCServers, Sequences, FiniteSetTheorems, TLAPS

-----------------------------------------------------------------------------
(* A step of the run is a step of its subject.                             *)

LEMMA Steps ==
  ASSUME [Next]_all
  PROVE  /\ subject' = subject
         /\ \A p \in Plain : subject = p => [Ht(p)!Next]_(Ht(p)!vars)
         /\ \A p \in Secure : subject = p => [Hs(p)!Next]_(Hs(p)!vars)
         /\ \A p \in Bodies : subject = p => [Bb(p)!Next]_(Bb(p)!vars)
         /\ \A p \in Raw : subject = p => [Hl(p)!Next]_(Hl(p)!vars)
<1> USE DEF Plain, Secure, Bodies, Raw, Rest2, Rest3, Rest4, Rest5, Rest6, Rest7, Rest8,
     Rest9, Rest10, Rest11, Rest12, Rest13
<1>1. CASE HtStep
  BY <1>1 DEF HtStep
<1>2. CASE HsStep
  BY <1>2 DEF HsStep
<1>3. CASE BbStep
  BY <1>3 DEF BbStep
<1>4. CASE HlStep
  BY <1>4 DEF HlStep
<1>5. CASE UNCHANGED all
  BY <1>5 DEF all, Ht!vars, Ht!streams, Hs!vars, Hs!handshakes, Bb!vars, Hl!vars
<1> QED BY <1>1, <1>2, <1>3, <1>4, <1>5 DEF Next

-----------------------------------------------------------------------------
(* Counting connections.                                                   *)

\* The connections at one of some stages.
At(stage, stages) == {c \in Conns : stage[c] \in stages}

One(stage, stages) == IF stage \in stages THEN 1 ELSE 0

\* Nothing but the stage of c differs.
Only(c, f, g) == \A d \in Conns \ {c} : g[d] = f[d]

\* A count follows the one connection that a step is about.
LEMMA Counting ==
  ASSUME IsFiniteSet(Conns), NEW f, NEW g, NEW stages, NEW c \in Conns,
         Only(c, f, g), NEW n, NEW m, n = Cardinality(At(f, stages)),
         m = n + One(g[c], stages) - One(f[c], stages)
  PROVE  m = Cardinality(At(g, stages)) /\ m \in Nat
<1>1. IsFiniteSet(At(f, stages)) /\ IsFiniteSet(At(g, stages))
  BY FS_Subset DEF At
<1>2. /\ n \in Nat /\ Cardinality(At(g, stages)) \in Nat
  BY <1>1, FS_CardinalityType
<1>3. CASE f[c] \in stages <=> g[c] \in stages
  <2>1. At(g, stages) = At(f, stages)
    BY <1>3 DEF At, Only
  <2> QED BY <1>2, <1>3, <2>1 DEF One
<1>4. CASE f[c] \notin stages /\ g[c] \in stages
  <2>1. At(g, stages) = At(f, stages) \cup {c} /\ c \notin At(f, stages)
    BY <1>4 DEF At, Only
  <2> QED BY <1>1, <1>2, <1>4, <2>1, FS_AddElement DEF One
<1>5. CASE f[c] \in stages /\ g[c] \notin stages
  <2>1. At(g, stages) = At(f, stages) \ {c} /\ c \in At(f, stages)
    BY <1>5 DEF At, Only
  <2> QED BY <1>1, <1>2, <1>5, <2>1, FS_RemoveElement DEF One
<1> QED BY <1>3, <1>4, <1>5

-----------------------------------------------------------------------------
(* fetch/server.js with a big body.                                        *)

LEMMA BodyStart == ASSUME NEW p \in Bodies, Bb(p)!Init PROVE Bb(p)!IInv
<1> Bb(p)!SizesAssumption /\ Bb(p)!RoundsAssumption
  BY Assumptions
<1>1. s2 \in BOOLEAN /\ s3 \in BOOLEAN
  BY Zenon DEF Bb!Init
<1> QED BY <1>1 DEF Bodies, Bb!SizesAssumption, Bb!RoundsAssumption, Bb!Init, Bb!IInv,
     Bb!TypeOK, Bb!Figures, Bb!OneAnswer, Bb!NoPath, Bb!Paths

LEMMA BodyKeep ==
  ASSUME NEW p \in Bodies, Bb(p)!IInv, [Bb(p)!Next]_(Bb(p)!vars)
  PROVE  Bb(p)!IInv'
<1> Bb(p)!SizesAssumption /\ Bb(p)!RoundsAssumption /\ p \in {"fits", "cut"}
  BY Assumptions DEF Bodies
<1> USE DEF Bb!SizesAssumption, Bb!RoundsAssumption, Bb!IInv, Bb!TypeOK, Bb!Figures,
     Bb!OneAnswer, Bb!NoPath, Bb!Paths, Bb!Answer
<1> DEFINE size == Bb(p)!Answer(s1)
<1>0. size \in 1..BigAnswer
  OBVIOUS
<1>1. CASE Bb(p)!Respond
  <2>1. /\ s2 /\ s2' = FALSE /\ UNCHANGED <<s1, s5, s7>>
        /\ \E n \in Bb(p)!Sent(size) :
             /\ s4' = s4 + n
             /\ IF n = size THEN s6' = s6 + 1 /\ s3' = FALSE ELSE s3' = TRUE /\ s6' = s6
    BY <1>1 DEF Bb!Respond
  <2>2. Bb(p)!Sent(size) \subseteq 0..size
    BY <1>0 DEF Bb!Sent
  <2>3. s2' \in BOOLEAN /\ s3' \in BOOLEAN
    <3> HIDE DEF size
    <3> QED BY <2>1, Zenon
  <2>4. s1 # "none" /\ s5 = 0 /\ s4 = 0 /\ s6 = s7
    BY <2>1
  <2>5. PICK n \in 0..size :
          /\ s4' = n
          /\ IF n = size THEN s6' = s6 + 1 ELSE s6' = s6
    BY <1>0, <2>1, <2>2, <2>4
  <2> QED BY <1>0, <2>1, <2>3, <2>4, <2>5
<1>2. CASE Bb(p)!Read
  <2> HIDE DEF Bb!Figures
  <2>1. /\ s4 > 0 /\ s4' = s4 - 1 /\ UNCHANGED <<s2, s3, s6>>
        /\ IF s5 + 1 = size THEN s1' = "none" /\ s5' = 0 /\ s7' = s7 + 1
                            ELSE s5' = s5 + 1 /\ s1' = s1 /\ s7' = s7
    BY <1>2 DEF Bb!Read
  <2>2. /\ s1 # "none" /\ ~s2 /\ s5 < size /\ s5 + s4 <= size
        /\ (s6 = s7 + 1 <=> s5 + s4 = size)
    BY <1>0, <2>1
  <2>3. CASE s5 + 1 = size
    BY <1>0, <2>1, <2>2, <2>3 DEF Bb!Figures
  <2>4. CASE s5 + 1 # size
    <3>1. s5' + s4' = s5 + s4 /\ s5' < size /\ s4' \in 0..BigAnswer
      BY <1>0, <2>1, <2>2, <2>4
    <3> QED BY <1>0, <2>1, <2>2, <2>4, <3>1 DEF Bb!Figures
  <2> QED BY <2>3, <2>4
<1>3. ASSUME NEW path \in Bb(p)!Paths, Bb(p)!Ask(path) PROVE Bb(p)!IInv'
  BY <1>3 DEF Bb!Ask
<1>4. CASE UNCHANGED Bb(p)!vars
  BY <1>4 DEF Bb!vars
<1> QED BY <1>1, <1>2, <1>3, <1>4 DEF Bb!Next

-----------------------------------------------------------------------------
(* http/hello-c.c.                                                         *)

LEMMA HelloStart == ASSUME NEW p \in Raw, Hl(p)!Init PROVE Hl(p)!IInv
<1> USE DEF Hl!Init
<1>1. s4 \in BOOLEAN
  BY Zenon
<1>2. Hl(p)!TypeOK
  BY <1>1 DEF Hl!TypeOK
<1>3. Hl(p)!Matched /\ Hl(p)!OnceReported
  BY DEF Hl!Matched, Hl!OwnEvent, Hl!Answers, Hl!OnceReported
<1> QED BY <1>2, <1>3 DEF Hl!IInv

LEMMA HelloKeep ==
  ASSUME NEW p \in Raw, Hl(p)!IInv, [Hl(p)!Next]_(Hl(p)!vars)
  PROVE  Hl(p)!IInv'
<1> None \notin Conns
  BY Assumptions DEF Hl!HelloAssumption
<1> USE DEF Hl!IInv, Hl!TypeOK, Hl!Matched, Hl!OwnEvent, Hl!Answers, Hl!OnceReported
<1>1. ASSUME NEW c \in Conns, Hl(p)!ClientStep(c) PROVE Hl(p)!IInv'
  <2>1. CASE Hl(p)!Connect(c)
    BY <2>1 DEF Hl!Connect, Hl!net
  <2>2. CASE Hl(p)!Send(c)
    BY <2>2 DEF Hl!Send
  <2>3. CASE Hl(p)!Read(c)
    BY <2>3 DEF Hl!Read, Hl!net
  <2>4. CASE Hl(p)!Leave(c)
    BY <2>4 DEF Hl!Leave
  <2> QED BY <1>1, <2>1, <2>2, <2>3, <2>4 DEF Hl!ClientStep
<1>2. CASE Hl(p)!Wait
  <2>1. /\ s3' \subseteq Hl(p)!Events /\ s4' \in BOOLEAN
        /\ UNCHANGED <<s1, s2, s5, s6, s7, s8, s9, s10>>
    BY <1>2 DEF Hl!Wait, Hl!net
  <2>2. \A e \in s3' : /\ e \in [fd : Hl(p)!Fd, failed : BOOLEAN, conn : Conns]
                       /\ s1[e.fd] = e.conn /\ e.failed = Hl(p)!Failed(e.conn)
    <3> TAKE e \in s3'
    <3>1. PICK f \in Hl(p)!Fd :
            /\ s1[f] # None
            /\ e = [fd |-> f, failed |-> Hl(p)!Failed(s1[f]), conn |-> s1[f]]
      BY <2>1 DEF Hl!Events
    <3>2. Hl(p)!Failed(s1[f]) \in BOOLEAN
      BY Zenon DEF Hl!Failed
    <3> QED BY <3>1, <3>2
  <2> QED BY <2>1, <2>2
<1>3. CASE Hl(p)!AcceptOne
  <2>1. PICK c \in s2, f \in Hl(p)!Fd :
          s1[f] = None /\ s1' = [s1 EXCEPT ![f] = c] /\ s2' = s2 \ {c}
    BY <1>3 DEF Hl!AcceptOne, Hl!Free
  <2>2. UNCHANGED <<s3, s4, s5, s6, s7, s8, s9, s10>>
    BY <1>3 DEF Hl!AcceptOne, Hl!net
  <2> QED BY <2>1, <2>2
<1>4. CASE Hl(p)!AcceptEnds
  BY <1>4 DEF Hl!AcceptEnds, Hl!net
<1>5. CASE Hl(p)!Handle
  <2>1. PICK e \in s3 :
          /\ s3' = s3 \ {e}
          /\ IF e.failed THEN Hl(p)!Close(e) /\ UNCHANGED <<s6, s7, s8, s9>>
                         ELSE Hl(p)!Process(e)
    BY <1>5 DEF Hl!Handle
  <2>2. UNCHANGED <<s2, s4, s5, s10>>
    BY <1>5 DEF Hl!Handle, Hl!net
  <2>3. CASE s1' = [s1 EXCEPT ![e.fd] = None] /\ UNCHANGED <<s6, s7, s8, s9>>
    BY <2>1, <2>2, <2>3
  <2>4. CASE UNCHANGED <<s1, s6, s7, s8, s9>>
    BY <2>1, <2>2, <2>4
  <2>5. ASSUME NEW c \in Conns, s5[c] > s6[c], s6' = [s6 EXCEPT ![c] = s5[c]],
               Hl(p)!Respond(c), s1' = s1
        PROVE  Hl(p)!IInv'
    <3>1. s7' = [s7 EXCEPT ![c] = @ + 1]
      BY <2>5 DEF Hl!Respond
    <3>2. s8' \in [Conns -> Nat] /\ s9' \subseteq Conns
      BY <2>5 DEF Hl!Respond
    <3>3. s6' \in [Conns -> Nat] /\ s7' \in [Conns -> Nat]
      BY <2>5, <3>1
    <3>4. Hl(p)!TypeOK'
      BY <2>1, <2>2, <2>5, <3>2, <3>3
    <3>5. Hl(p)!Answers'
      BY <2>2, <2>5, <3>1
    <3>6. Hl(p)!OwnEvent' /\ Hl(p)!OnceReported'
      BY <2>1, <2>5
    <3> QED BY <3>4, <3>5, <3>6
  <2>6. s1[e.fd] = e.conn /\ e.conn \in Conns
    OBVIOUS
  <2>7. CASE e.failed
    BY <2>1, <2>3, <2>7 DEF Hl!Close
  <2>8. CASE ~e.failed
    <3> HIDE DEF Hl!IInv, Hl!TypeOK, Hl!Matched, Hl!OwnEvent, Hl!Answers, Hl!OnceReported
    <3>1. \/ UNCHANGED <<s1, s6, s7, s8, s9>>
          \/ s1' = [s1 EXCEPT ![e.fd] = None] /\ UNCHANGED <<s6, s7, s8, s9>>
          \/ /\ s5[e.conn] > s6[e.conn] /\ s6' = [s6 EXCEPT ![e.conn] = s5[e.conn]]
             /\ Hl(p)!Respond(e.conn) /\ s1' = s1
      BY <2>1, <2>6, <2>8 DEF Hl!Process, Hl!Close
    <3> QED BY <2>3, <2>4, <2>5, <2>6, <3>1
  <2> QED BY <2>7, <2>8
<1>6. CASE UNCHANGED Hl(p)!vars
  BY <1>6 DEF Hl!vars
<1> QED BY <1>1, <1>2, <1>3, <1>4, <1>5, <1>6 DEF Hl!Next, Hl!ServerStep

-----------------------------------------------------------------------------
(* hello-lo.js and the server of rows.                                     *)

LEMMA Answer ==
  ASSUME NEW p \in Plain
  PROVE  Ht(p)!Response \in {3, 4} /\ Ht(p)!Request = 2 /\ Ht(p)!ResponseHead = 2
<1>1. CASE p = "hello"
  BY <1>1 DEF Ht!Response, Ht!ResponseHead, Ht!HelloBody, Ht!Request
<1>2. CASE p = "rows"
  BY <1>2 DEF Ht!Response, Ht!ResponseHead, Ht!RowsBody, Ht!Request
<1> QED BY <1>1, <1>2 DEF Plain

LEMMA Torn ==
  ASSUME NEW p \in Plain
  PROVE  \A left, message : Ht(p)!Torn(left, message) \in BOOLEAN
  BY Zenon DEF Ht!Torn

LEMMA LoadCount ==
  ASSUME NEW p \in Plain
  PROVE  \A S : Ht(p)!Cardinality(S) = Cardinality(S)
  BY DEF Cardinality, Ht!Cardinality, IsFiniteSet, Ht!IsFiniteSet

LEMMA LoadStart == ASSUME NEW p \in Plain, Ht(p)!Init PROVE Ht(p)!IInv
<1>0. (IF p = "hello" THEN HelloBound ELSE RowsBound) \in Nat
  BY Assumptions DEF Ht!BoundAssumption
<1>1. s5 \in [Conns -> BOOLEAN] /\ s6 \in [Conns -> BOOLEAN]
  BY Zenon DEF Ht!Init
<1>2. Ht(p)!TypeOK
  BY <1>0, <1>1 DEF Ht!Init, Ht!TypeOK
<1>3. Ht(p)!Unused /\ Ht(p)!Asking /\ Ht(p)!Answering /\ Ht(p)!Honest
  BY Answer DEF Ht!Init, Ht!Unused, Ht!Asking, Ht!Answering, Ht!Honest, Ht!Torn
<1>4. Ht(p)!ConnCount
  <2>1. {c \in Conns : s1[c] = "open"} = {} /\ {c \in Conns : s2[c] = "open"} = {}
    BY DEF Ht!Init
  <2> QED BY <2>1, LoadCount, FS_EmptySet DEF Ht!Init, Ht!ConnCount
<1> QED BY <1>2, <1>3, <1>4 DEF Ht!IInv, Ht!Figures

\* The figures follow the sockets of the one connection that a step is about.
LEMMA LoadCounts ==
  ASSUME NEW p \in Plain, NEW c \in Conns, Ht(p)!ConnCount,
         Only(c, s1, s1'), Only(c, s2, s2'),
         s7' = s7 + One(s1'[c], {"open"}) - One(s1[c], {"open"}),
         s8' = s8 + One(s2'[c], {"open"}) - One(s2[c], {"open"})
  PROVE  Ht(p)!ConnCount' /\ s7' \in Nat /\ s8' \in Nat
<1>0. IsFiniteSet(Conns)
  BY Assumptions DEF Ht!ConnsAssumption, IsFiniteSet, Ht!IsFiniteSet
<1>1. \A f : {d \in Conns : f[d] = "open"} = At(f, {"open"})
  BY DEF At
<1>2. s7 = Cardinality(At(s1, {"open"})) /\ s8 = Cardinality(At(s2, {"open"}))
  BY <1>1, LoadCount DEF Ht!ConnCount
<1>3. s7' = Cardinality(At(s1', {"open"})) /\ s7' \in Nat
  BY <1>0, <1>2, Counting
<1>4. s8' = Cardinality(At(s2', {"open"})) /\ s8' \in Nat
  BY <1>0, <1>2, Counting
<1> QED BY <1>1, <1>3, <1>4, LoadCount DEF Ht!ConnCount

\* At most one message is on its way, whatever is cut, refused or reset.
LEMMA LoadKeep ==
  ASSUME NEW p \in Plain, Ht(p)!IInv, [Ht(p)!Next]_(Ht(p)!vars)
  PROVE  Ht(p)!IInv'
<1> (IF p = "hello" THEN HelloBound ELSE RowsBound) \in Nat
  BY Assumptions DEF Ht!BoundAssumption
<1> Ht(p)!Response \in {3, 4} /\ Ht(p)!Request = 2 /\ Ht(p)!ResponseHead = 2
  BY Answer
<1> USE DEF Ht!TypeOK, Ht!Unused, Ht!Asking, Ht!Answering, Ht!Honest, Ht!Torn
<1>0. Ht(p)!TypeOK /\ Ht(p)!ConnCount /\ Ht(p)!Honest /\ Ht(p)!Unused /\ Ht(p)!Asking /\ Ht(p)!Answering
  BY DEF Ht!IInv, Ht!Figures
<1> DEFINE Rest == Ht(p)!TypeOK' /\ Ht(p)!Unused' /\ Ht(p)!Asking' /\ Ht(p)!Answering' /\ Ht(p)!Honest'
<1>1. ASSUME NEW c \in Conns, Ht(p)!StartClient(c) PROVE Ht(p)!IInv'
  <2>1. Ht(p)!ConnCount' /\ s7' \in Nat /\ s8' \in Nat
    BY <1>0, <1>1, LoadCounts DEF Ht!StartClient, One, Only
  <2>2. Rest
    BY <1>0, <1>1, <2>1 DEF Ht!StartClient, Ht!streams
  <2> QED BY <2>1, <2>2 DEF Ht!IInv, Ht!Figures
<1>2. ASSUME NEW c \in Conns, Ht(p)!ClientConnect(c) PROVE Ht(p)!IInv'
  <2>1. Ht(p)!ConnCount' /\ s7' \in Nat /\ s8' \in Nat
    BY <1>0, <1>2, LoadCounts DEF Ht!ClientConnect, One, Only
  <2>2. Rest
    BY <1>0, <1>2, <2>1 DEF Ht!ClientConnect
  <2> QED BY <2>1, <2>2 DEF Ht!IInv, Ht!Figures
<1>3. ASSUME NEW c \in Conns, Ht(p)!ClientEnd(c) PROVE Ht(p)!IInv'
  <2>1. Ht(p)!ConnCount' /\ s7' \in Nat /\ s8' \in Nat
    BY <1>0, <1>3, LoadCounts DEF Ht!ClientEnd, Ht!ClientClose, One, Only
  <2>2. Rest
    BY <1>0, <1>3, <2>1 DEF Ht!ClientEnd, Ht!ClientClose
  <2> QED BY <2>1, <2>2 DEF Ht!IInv, Ht!Figures
<1>4. ASSUME NEW c \in Conns, Ht(p)!ConnectRefused(c) PROVE Ht(p)!IInv'
  <2>1. Ht(p)!ConnCount' /\ s7' \in Nat /\ s8' \in Nat
    BY <1>0, <1>4, LoadCounts DEF Ht!ConnectRefused, One, Only
  <2>2. Rest
    BY <1>0, <1>4, <2>1 DEF Ht!ConnectRefused, Ht!streams
  <2> QED BY <2>1, <2>2 DEF Ht!IInv, Ht!Figures
<1>5. ASSUME NEW c \in Conns, NEW n \in Ht(p)!Reads(s4[c]), Ht(p)!ClientNext(c, n) PROVE Ht(p)!IInv'
  <2>1. Ht(p)!ConnCount' /\ s7' \in Nat /\ s8' \in Nat
    BY <1>0, <1>5, LoadCounts DEF Ht!ClientNext, Ht!ClientRead, One, Only
  <2>2. /\ s1[c] = "open" /\ ~s6[c] /\ n \in 2..s4[c] /\ s4[c] = Ht(p)!Response
        /\ s9[c] = s10[c] + 1 /\ s3[c] = 0
    <3>1. s1[c] = "open" /\ n \in 1..s4[c]
      BY <1>0, <1>5 DEF Ht!ClientNext, Ht!ClientRead, Ht!Reads
    <3>2. ~s6[c] /\ n >= 2
      BY <1>5, <3>1 DEF Ht!ClientNext, Ht!ClientRead, Ht!Parse, Ht!TornResponse
    <3>3. s4[c] \in {0, Ht(p)!Response} /\ s9[c] # s10[c]
      BY <1>0, <3>1, <3>2
    <3> QED BY <1>0, <3>1, <3>2, <3>3
  <2>3. /\ UNCHANGED <<s1, s2, s5, s9>>
        /\ s10' = [s10 EXCEPT ![c] = @ + 1] /\ s4' = [s4 EXCEPT ![c] = @ - n]
        /\ s3' = [s3 EXCEPT ![c] = IF s2[c] = "closed" THEN 0 ELSE @ + 2]
        /\ s6' = [s6 EXCEPT ![c] = Ht(p)!Torn(s4[c] - n, Ht(p)!Response)]
    BY <1>5 DEF Ht!ClientNext, Ht!ClientRead
  <2>4. Ht(p)!TypeOK'
    <3> HIDE DEF Ht!Torn
    <3>1. s10[c] < IF p = "hello" THEN HelloBound ELSE RowsBound
      BY <1>5 DEF Ht!ClientNext
    <3>2. s6' \in [Conns -> BOOLEAN]
      BY <1>0, <2>3, Torn
    <3> QED BY <1>0, <2>1, <2>2, <2>3, <3>1, <3>2
  <2>5. Ht(p)!Asking' /\ Ht(p)!Unused' /\ Ht(p)!Honest'
    BY <1>0, <2>2, <2>3
  <2>6. Ht(p)!Answering'
    <3>1. s6'[c] <=> Ht(p)!Torn(s4'[c], Ht(p)!Response)
      <4> HIDE DEF Ht!Torn
      <4> QED BY <1>0, <2>3
    <3>2. \A d \in Conns \ {c} : s6'[d] = s6[d] /\ s4'[d] = s4[d]
      BY <1>0, <2>3
    <3>3. s4'[c] = s4[c] - n
      BY <1>0, <2>2, <2>3
    <3> QED BY <1>0, <2>2, <2>3, <3>1, <3>2, <3>3
  <2> QED BY <2>1, <2>4, <2>5, <2>6 DEF Ht!IInv, Ht!Figures
<1>6. ASSUME NEW c \in Conns, NEW n \in Ht(p)!Reads(s4[c]), Ht(p)!ClientWaits(c, n) PROVE Ht(p)!IInv'
  <2>1. Ht(p)!ConnCount' /\ s7' \in Nat /\ s8' \in Nat
    BY <1>0, <1>6, LoadCounts DEF Ht!ClientWaits, Ht!ClientRead, One, Only
  <2>2. s1[c] = "open" /\ n \in 1..s4[c]
    BY <1>0, <1>6 DEF Ht!ClientWaits, Ht!ClientRead, Ht!Reads
  <2>3. s6[c] \/ n = 1
    BY <1>6, <2>2 DEF Ht!ClientWaits, Ht!ClientRead, Ht!Parse
  <2>4. /\ UNCHANGED <<s1, s2, s3, s5, s9, s10>>
        /\ s4' = [s4 EXCEPT ![c] = @ - n]
        /\ s6' = [s6 EXCEPT ![c] = Ht(p)!Torn(s4[c] - n, Ht(p)!Response)]
    BY <1>6 DEF Ht!ClientWaits, Ht!ClientRead
  <2>5. Ht(p)!TypeOK'
    <3> HIDE DEF Ht!Torn
    <3>1. s6' \in [Conns -> BOOLEAN]
      BY <1>0, <2>4, Torn
    <3> QED BY <1>0, <2>1, <2>2, <2>4, <3>1
  <2>6. Ht(p)!Asking' /\ Ht(p)!Unused' /\ Ht(p)!Honest'
    BY <1>0, <2>2, <2>4
  <2>7. Ht(p)!Answering'
    <3>1. s6'[c] <=> Ht(p)!Torn(s4'[c], Ht(p)!Response)
      <4> HIDE DEF Ht!Torn
      <4> QED BY <1>0, <2>4
    <3>2. \A d \in Conns \ {c} : s6'[d] = s6[d] /\ s4'[d] = s4[d]
      BY <1>0, <2>4
    <3>3. s4'[c] = s4[c] - n
      BY <1>0, <2>4
    <3> QED BY <1>0, <2>2, <2>3, <2>4, <3>1, <3>2, <3>3
  <2> QED BY <2>1, <2>5, <2>6, <2>7 DEF Ht!IInv, Ht!Figures
<1>7. ASSUME NEW c \in Conns, NEW n \in Ht(p)!Reads(s4[c]), Ht(p)!ClientParseError(c, n) PROVE Ht(p)!IInv'
  <2>1. Ht(p)!ConnCount' /\ s7' \in Nat /\ s8' \in Nat
    BY <1>0, <1>7, LoadCounts DEF Ht!ClientParseError, Ht!ClientRead, Ht!ClientClose, One, Only
  <2>2. Rest
    BY <1>0, <1>7, <2>1 DEF Ht!ClientParseError, Ht!ClientRead, Ht!ClientClose, Ht!Reads, Ht!Parse, Ht!TornResponse, Ht!TornRequest
  <2> QED BY <2>1, <2>2 DEF Ht!IInv, Ht!Figures
<1>8. ASSUME NEW c \in Conns, Ht(p)!Accept(c) PROVE Ht(p)!IInv'
  <2>1. Ht(p)!ConnCount' /\ s7' \in Nat /\ s8' \in Nat
    BY <1>0, <1>8, LoadCounts DEF Ht!Accept, Ht!streams, One, Only
  <2>2. Rest
    BY <1>0, <1>8, <2>1 DEF Ht!Accept, Ht!streams
  <2> QED BY <2>1, <2>2 DEF Ht!IInv, Ht!Figures
<1>9. ASSUME NEW c \in Conns, Ht(p)!ServerEnd(c) PROVE Ht(p)!IInv'
  <2>1. Ht(p)!ConnCount' /\ s7' \in Nat /\ s8' \in Nat
    BY <1>0, <1>9, LoadCounts DEF Ht!ServerEnd, Ht!ServerClose, One, Only
  <2>2. Rest
    BY <1>0, <1>9, <2>1 DEF Ht!ServerEnd, Ht!ServerClose
  <2> QED BY <2>1, <2>2 DEF Ht!IInv, Ht!Figures
<1>10. ASSUME NEW c \in Conns, NEW n \in Ht(p)!Reads(s3[c]), Ht(p)!ServerAnswer(c, n) PROVE Ht(p)!IInv'
  <2>1. Ht(p)!ConnCount' /\ s7' \in Nat /\ s8' \in Nat
    BY <1>0, <1>10, LoadCounts DEF Ht!ServerAnswer, Ht!ServerRead, One, Only
  <2>2. s2[c] = "open" /\ n \in 1..s3[c]
    BY <1>0, <1>10 DEF Ht!ServerAnswer, Ht!ServerRead, Ht!Reads
  <2>3. n = s3[c] /\ s9[c] = s10[c] /\ s1[c] \in {"open", "closed"}
    <3>1. s5[c] \/ n >= 2
      BY <1>10, <2>2 DEF Ht!ServerAnswer, Ht!ServerRead, Ht!Parse
    <3> QED BY <1>0, <2>2, <3>1
  <2>4. /\ UNCHANGED <<s1, s2, s6, s10>>
        /\ s9' = [s9 EXCEPT ![c] = @ + 1] /\ s3' = [s3 EXCEPT ![c] = @ - n]
        /\ s4' = [s4 EXCEPT ![c] = IF s1[c] = "closed" THEN 0 ELSE @ + Ht(p)!Response]
        /\ s5' = [s5 EXCEPT ![c] = Ht(p)!Torn(s3[c] - n, 2)]
    BY <1>10 DEF Ht!ServerAnswer, Ht!ServerRead
  <2>5. Ht(p)!TypeOK'
    <3> HIDE DEF Ht!Torn
    <3>1. s5' \in [Conns -> BOOLEAN]
      BY <1>0, <2>4, Torn
    <3> QED BY <1>0, <2>1, <2>2, <2>4, <3>1
  <2>6. Ht(p)!Asking'
    <3>1. s5'[c] <=> Ht(p)!Torn(s3'[c], 2)
      <4> HIDE DEF Ht!Torn
      <4> QED BY <1>0, <2>4
    <3>2. \A d \in Conns \ {c} : s5'[d] = s5[d] /\ s3'[d] = s3[d]
      BY <1>0, <2>4
    <3>3. s3'[c] = 0
      BY <1>0, <2>3, <2>4
    <3> QED BY <1>0, <2>4, <3>1, <3>2, <3>3
  <2>7. Ht(p)!Unused' /\ Ht(p)!Honest'
    BY <1>0, <2>2, <2>3, <2>4
  <2>8. Ht(p)!Answering'
    BY <1>0, <2>3, <2>4
  <2> QED BY <2>1, <2>5, <2>6, <2>7, <2>8 DEF Ht!IInv, Ht!Figures
<1>11. ASSUME NEW c \in Conns, NEW n \in Ht(p)!Reads(s3[c]), Ht(p)!ServerWaits(c, n) PROVE Ht(p)!IInv'
  <2>1. Ht(p)!ConnCount' /\ s7' \in Nat /\ s8' \in Nat
    BY <1>0, <1>11, LoadCounts DEF Ht!ServerWaits, Ht!ServerRead, One, Only
  <2>2. s2[c] = "open" /\ n \in 1..s3[c]
    BY <1>0, <1>11 DEF Ht!ServerWaits, Ht!ServerRead, Ht!Reads
  <2>3. /\ UNCHANGED <<s1, s2, s4, s6, s9, s10>>
        /\ s3' = [s3 EXCEPT ![c] = @ - n]
        /\ s5' = [s5 EXCEPT ![c] = Ht(p)!Torn(s3[c] - n, 2)]
    BY <1>11 DEF Ht!ServerWaits, Ht!ServerRead
  <2>4. Ht(p)!TypeOK'
    <3> HIDE DEF Ht!Torn
    <3>1. s5' \in [Conns -> BOOLEAN]
      BY <1>0, <2>3, Torn
    <3> QED BY <1>0, <2>1, <2>2, <2>3, <3>1
  <2>5. Ht(p)!Asking'
    <3>1. s5'[c] <=> Ht(p)!Torn(s3'[c], 2)
      <4> HIDE DEF Ht!Torn
      <4> QED BY <1>0, <2>3
    <3>2. \A d \in Conns \ {c} : s5'[d] = s5[d] /\ s3'[d] = s3[d]
      BY <1>0, <2>3
    <3>3. s3'[c] = s3[c] - n
      BY <1>0, <2>3
    <3> QED BY <1>0, <2>2, <2>3, <3>1, <3>2, <3>3
  <2>6. Ht(p)!Unused' /\ Ht(p)!Honest'
    BY <1>0, <2>2, <2>3
  <2>7. Ht(p)!Answering'
    BY <1>0, <2>3
  <2> QED BY <2>1, <2>4, <2>5, <2>6, <2>7 DEF Ht!IInv, Ht!Figures
<1>12. ASSUME NEW c \in Conns, NEW n \in Ht(p)!Reads(s3[c]), Ht(p)!ServerParseError(c, n) PROVE Ht(p)!IInv'
  <2>1. Ht(p)!ConnCount' /\ s7' \in Nat /\ s8' \in Nat
    BY <1>0, <1>12, LoadCounts DEF Ht!ServerParseError, Ht!ServerRead, Ht!ServerClose, One, Only
  <2>2. Rest
    BY <1>0, <1>12, <2>1 DEF Ht!ServerParseError, Ht!ServerRead, Ht!ServerClose, Ht!Reads, Ht!Parse, Ht!TornResponse, Ht!TornRequest
  <2> QED BY <2>1, <2>2 DEF Ht!IInv, Ht!Figures
<1>13. CASE UNCHANGED Ht(p)!vars
  BY <1>0, <1>13, LoadCount DEF Ht!vars, Ht!IInv, Ht!Figures, Ht!ConnCount
<1> QED BY <1>1, <1>2, <1>3, <1>4, <1>5, <1>6, <1>7, <1>8, <1>9, <1>10, <1>11, <1>12, <1>13
    DEF Ht!Next, Ht!OnClient, Ht!OnServer

-----------------------------------------------------------------------------
(* Taking turns.                                                           *)

\* The moves of Rally.
Moved(was, is) ==
  \/ is = was
  \/ was \in {"off", "answered"} /\ is = "asked"
  \/ was = "asked" /\ is = "answered"
  \/ was \in {"off", "asked", "answered"} /\ is = "over"

\* A step that leaves every connection but one alone, and moves that one as Rally
\* does, is a step of Rally.
LEMMA Moves ==
  ASSUME subject \in Plain \cup Secure, subject' = subject, NEW c \in Conns,
         \A d \in Conns \ {c} : turns'[d] = turns[d], Moved(turns[c], turns'[c])
  PROVE  [Rallies!Next]_turns
<1>1. turns = [d \in Conns |-> turns[d]] /\ turns' = [d \in Conns |-> turns'[d]]
  BY DEF turns, Ht!turn, Hs!turn
<1> HIDE DEF turns
<1>2. turns' = [turns EXCEPT ![c] = turns'[c]]
  BY <1>1
<1> QED BY <1>1, <1>2
    DEF Moved, Rallies!Next, Rallies!Ask, Rallies!Answer, Rallies!End, Rallies!Move

LEMMA LoadTurns ==
  ASSUME NEW p \in Plain, subject = p, subject' = p, Ht(p)!IInv, [Ht(p)!Next]_(Ht(p)!vars)
  PROVE  [Rallies!Next]_turns
<1> DEFINE Turn(client, server, asked, told) ==
             IF "closed" \in {client, server} THEN "over"
             ELSE IF client # "open" THEN "off"
             ELSE IF asked = told THEN "asked"
             ELSE IF asked = told + 1 THEN "answered" ELSE "astray"
<1>1. \A c \in Conns : turns[c] = Turn(s1[c], s2[c], s9[c], s10[c])
  BY DEF turns, Ht!turn
<1>2. \A c \in Conns : turns'[c] = Turn(s1'[c], s2'[c], s9'[c], s10'[c])
  BY DEF turns, Ht!turn
<1>3. subject \in Plain \cup Secure /\ subject' = subject
  OBVIOUS
<1>4. ASSUME NEW c \in Conns,
             \A d \in Conns \ {c} :
               s1'[d] = s1[d] /\ s2'[d] = s2[d] /\ s9'[d] = s9[d] /\ s10'[d] = s10[d],
             Moved(Turn(s1[c], s2[c], s9[c], s10[c]), Turn(s1'[c], s2'[c], s9'[c], s10'[c]))
      PROVE  [Rallies!Next]_turns
  <2>1. \A d \in Conns \ {c} : turns'[d] = turns[d]
    BY <1>1, <1>2, <1>4
  <2> QED BY <1>1, <1>2, <1>3, <1>4, <2>1, Moves
<1>0. Ht(p)!TypeOK /\ Ht(p)!Honest /\ Ht(p)!Unused /\ Ht(p)!Asking /\ Ht(p)!Answering
  BY DEF Ht!IInv, Ht!Figures
<1> Ht(p)!Response \in {3, 4} /\ Ht(p)!Request = 2 /\ Ht(p)!ResponseHead = 2
  BY Answer
<1> USE DEF Ht!TypeOK, Ht!Unused, Ht!Asking, Ht!Answering, Ht!Honest, Ht!Torn, Moved
<1>5. ASSUME NEW c \in Conns, Ht(p)!StartClient(c) PROVE [Rallies!Next]_turns
  BY <1>0, <1>4, <1>5 DEF Ht!StartClient
<1>6. ASSUME NEW c \in Conns, Ht(p)!ClientConnect(c) PROVE [Rallies!Next]_turns
  BY <1>0, <1>4, <1>6 DEF Ht!ClientConnect
<1>7. ASSUME NEW c \in Conns, Ht(p)!ClientEnd(c) PROVE [Rallies!Next]_turns
  BY <1>0, <1>4, <1>7 DEF Ht!ClientEnd, Ht!ClientClose
<1>8. ASSUME NEW c \in Conns, Ht(p)!ConnectRefused(c) PROVE [Rallies!Next]_turns
  BY <1>0, <1>4, <1>8 DEF Ht!ConnectRefused
<1>9. ASSUME NEW c \in Conns, NEW n \in Ht(p)!Reads(s4[c]), Ht(p)!ClientNext(c, n) PROVE [Rallies!Next]_turns
  BY <1>0, <1>4, <1>9 DEF Ht!ClientNext, Ht!ClientRead, Ht!Reads, Ht!Parse, Ht!TornResponse
<1>10. ASSUME NEW c \in Conns, NEW n \in Ht(p)!Reads(s4[c]), Ht(p)!ClientWaits(c, n) PROVE [Rallies!Next]_turns
  BY <1>0, <1>4, <1>10 DEF Ht!ClientWaits, Ht!ClientRead
<1>11. ASSUME NEW c \in Conns, NEW n \in Ht(p)!Reads(s4[c]), Ht(p)!ClientParseError(c, n) PROVE [Rallies!Next]_turns
  BY <1>0, <1>4, <1>11 DEF Ht!ClientParseError, Ht!ClientRead, Ht!ClientClose
<1>12. ASSUME NEW c \in Conns, Ht(p)!Accept(c) PROVE [Rallies!Next]_turns
  BY <1>0, <1>4, <1>12 DEF Ht!Accept
<1>13. ASSUME NEW c \in Conns, Ht(p)!ServerEnd(c) PROVE [Rallies!Next]_turns
  BY <1>0, <1>4, <1>13 DEF Ht!ServerEnd, Ht!ServerClose
<1>14. ASSUME NEW c \in Conns, NEW n \in Ht(p)!Reads(s3[c]), Ht(p)!ServerAnswer(c, n) PROVE [Rallies!Next]_turns
  BY <1>0, <1>4, <1>14 DEF Ht!ServerAnswer, Ht!ServerRead, Ht!Reads, Ht!Parse
<1>15. ASSUME NEW c \in Conns, NEW n \in Ht(p)!Reads(s3[c]), Ht(p)!ServerWaits(c, n) PROVE [Rallies!Next]_turns
  BY <1>0, <1>4, <1>15 DEF Ht!ServerWaits, Ht!ServerRead
<1>16. ASSUME NEW c \in Conns, NEW n \in Ht(p)!Reads(s3[c]), Ht(p)!ServerParseError(c, n) PROVE [Rallies!Next]_turns
  <2>1. s2[c] = "open" /\ s2' = [s2 EXCEPT ![c] = "closed"] /\ UNCHANGED <<s1, s9, s10>>
    BY <1>16 DEF Ht!ServerParseError, Ht!ServerRead, Ht!ServerClose
  <2>2. s9[c] = s10[c] \/ s9[c] = s10[c] + 1
    BY <1>0
  <2>3. s2'[c] = "closed"
    BY <1>0, <2>1
  <2>4. Moved(Turn(s1[c], s2[c], s9[c], s10[c]), Turn(s1'[c], s2'[c], s9'[c], s10'[c]))
    BY <2>1, <2>2, <2>3
  <2> QED BY <1>0, <1>4, <2>1, <2>4
<1>17. CASE UNCHANGED Ht(p)!vars
  BY <1>17 DEF Ht!vars, turns, Ht!turn
<1> QED BY <1>5, <1>6, <1>7, <1>8, <1>9, <1>10, <1>11, <1>12, <1>13, <1>14, <1>15, <1>16, <1>17 DEF Ht!Next, Ht!OnClient, Ht!OnServer

-----------------------------------------------------------------------------
(* https-lo.js and fetch/server.js.                                        *)

LEMMA HttpsConstants ==
  ASSUME NEW p \in Secure
  PROVE  /\ (IF p = "fetch" THEN FetchFlights ELSE HttpsFlights) \in Nat \ {0}
         /\ (IF p = "fetch" THEN FetchTickets ELSE HttpsTickets) \in Nat
         /\ (IF p = "fetch" THEN FetchBound ELSE HttpsBound) \in Nat \ {0}
  BY Assumptions DEF Hs!FlightsAssumption, Hs!BoundAssumption

LEMMA HttpsCount ==
  ASSUME NEW p \in Secure
  PROVE  \A S : Hs(p)!Cardinality(S) = Cardinality(S)
  BY DEF Cardinality, Hs!Cardinality, IsFiniteSet, Hs!IsFiniteSet

Live == {"insecure", "secure"}

LEMMA HttpsCounts ==
  ASSUME NEW p \in Secure, NEW c \in Conns, Hs(p)!Figures,
         Only(c, s1, s1'), Only(c, s2, s2'),
         s8' = s8 + One(s1'[c], Live) - One(s1[c], Live),
         s9' = s9 + One(s2'[c], Live) - One(s2[c], Live)
  PROVE  Hs(p)!Figures' /\ s8' \in Nat /\ s9' \in Nat
<1>0. IsFiniteSet(Conns)
  BY Assumptions DEF Plain, Ht!ConnsAssumption, IsFiniteSet, Ht!IsFiniteSet
<1>1. \A f : {d \in Conns : f[d] \in {"insecure", "secure"}} = At(f, Live)
  BY DEF At, Live
<1>2. s8 = Cardinality(At(s1, Live)) /\ s9 = Cardinality(At(s2, Live))
  BY <1>1, HttpsCount DEF Hs!Figures
<1>3. s8' = Cardinality(At(s1', Live)) /\ s8' \in Nat
  BY <1>0, <1>2, Counting
<1>4. s9' = Cardinality(At(s2', Live)) /\ s9' \in Nat
  BY <1>0, <1>2, Counting
<1> QED BY <1>1, <1>3, <1>4, HttpsCount DEF Hs!Figures

LEMMA HttpsStart == ASSUME NEW p \in Secure, Hs(p)!Init PROVE Hs(p)!IInv
<1> USE HttpsConstants DEF Hs!Init
<1>1. s12 \in BOOLEAN
  BY Zenon
<1>2. Hs(p)!TypeOK
  BY <1>1 DEF Hs!TypeOK, Hs!AtServer, Hs!AtClient
<1>3. ASSUME NEW c \in Conns PROVE Hs(p)!Flight(c)
  BY DEF Hs!Flight, Hs!Later
<1>4. ASSUME NEW c \in Conns PROVE Hs(p)!Before(c) /\ Hs(p)!After(c)
  BY DEF Hs!Before, Hs!After
<1>5. Hs(p)!Figures
  <2>1. {c \in Conns : s1[c] \in {"insecure", "secure"}} = {}
    OBVIOUS
  <2>2. {c \in Conns : s2[c] \in {"insecure", "secure"}} = {}
    OBVIOUS
  <2> QED BY <2>1, <2>2, HttpsCount, FS_EmptySet DEF Hs!Figures
<1> QED BY <1>2, <1>3, <1>4, <1>5 DEF Hs!IInv, Hs!InTurn

\* The queues, behind names: what the proofs use of sequences is here.
Joined(s, r) == s \o r
Behind(s) == Tail(s)

LEMMA Queues ==
  ASSUME NEW p \in Secure
  PROVE  /\ <<>> \in Hs(p)!Later /\ <<>> \in Hs(p)!AtClient
         /\ <<"hello">> # <<>> /\ <<"request">> # <<>> /\ <<"finished">> # <<>>
         /\ <<"finished", "request">> # <<>>
         /\ \A s \in Hs(p)!Later :
              /\ s # <<"hello">> /\ s \in Hs(p)!AtServer
              /\ Joined(s, <<"request">>) \in Hs(p)!Later
              /\ Joined(s, <<"finished">>) \in Hs(p)!Later
              /\ Joined(s, <<"finished", "request">>) \in Hs(p)!Later
              /\ s # <<>> => Behind(s) \in Hs(p)!Later
         /\ \A s \in Hs(p)!AtServer :
              /\ Joined(s, <<"hello">>) \in Hs(p)!AtServer
              /\ Joined(s, <<"request">>) \in Hs(p)!AtServer
              /\ Joined(s, <<"finished">>) \in Hs(p)!AtServer
              /\ Joined(s, <<"finished", "request">>) \in Hs(p)!AtServer
              /\ s # <<>> => Behind(s) \in Hs(p)!AtServer
         /\ Joined(<<>>, <<"hello">>) = <<"hello">>
         /\ Joined(<<>>, <<"request">>) = <<"request">>
         /\ Joined(<<>>, <<"finished">>) = <<"finished">>
         /\ Joined(<<>>, <<"finished", "request">>) = <<"finished", "request">>
         /\ Behind(<<"hello">>) = <<>> /\ Behind(<<"request">>) = <<>> /\ Behind(<<"finished">>) = <<>>
         /\ Behind(<<"finished", "request">>) = <<"request">>
         /\ Hs(p)!TicketsBefore(Len(<<>>) + 1, <<>>)
         /\ \A s \in Hs(p)!AtClient :
              LET u == Joined(s, <<"answer">>)
              IN  /\ u \in Hs(p)!AtClient
                  /\ Hs(p)!TicketsBefore(Len(s) + 1, s) =>
                       u # <<>> /\ u[Len(u)] = "answer" /\ Hs(p)!TicketsBefore(Len(u), u)
<1> USE DEF Hs!Later, Hs!AtServer, Hs!AtClient, Hs!TicketsBefore, Joined, Behind
<1>1. /\ <<>> \in Hs(p)!Later /\ <<>> \in Hs(p)!AtClient /\ <<"hello">> # <<>>
      /\ <<"request">> # <<>> /\ <<"finished">> # <<>> /\ <<"finished", "request">> # <<>>
  OBVIOUS
<1>2. ASSUME NEW s \in Hs(p)!Later
      PROVE  s # <<"hello">> /\ s \in Hs(p)!AtServer /\ (s # <<>> => Behind(s) \in Hs(p)!Later)
  <2>1. s # <<"hello">>
    OBVIOUS
  <2>2. s \in Hs(p)!AtServer
    OBVIOUS
  <2>3. s # <<>> => Behind(s) \in Hs(p)!Later
    OBVIOUS
  <2> QED BY <2>1, <2>2, <2>3
<1>8. \A s \in Hs(p)!Later :
        /\ Joined(s, <<"request">>) \in Hs(p)!Later
        /\ Joined(s, <<"finished">>) \in Hs(p)!Later
        /\ Joined(s, <<"finished", "request">>) \in Hs(p)!Later
  OBVIOUS
<1>3. \A s \in Hs(p)!AtServer :
        /\ Joined(s, <<"hello">>) \in Hs(p)!AtServer
        /\ Joined(s, <<"request">>) \in Hs(p)!AtServer
        /\ Joined(s, <<"finished">>) \in Hs(p)!AtServer
        /\ Joined(s, <<"finished", "request">>) \in Hs(p)!AtServer
        /\ s # <<>> => Behind(s) \in Hs(p)!AtServer
  OBVIOUS
<1>4. /\ Joined(<<>>, <<"hello">>) = <<"hello">>
      /\ Joined(<<>>, <<"request">>) = <<"request">>
      /\ Joined(<<>>, <<"finished">>) = <<"finished">>
      /\ Joined(<<>>, <<"finished", "request">>) = <<"finished", "request">>
  OBVIOUS
<1>5. /\ Behind(<<"hello">>) = <<>> /\ Behind(<<"request">>) = <<>> /\ Behind(<<"finished">>) = <<>>
      /\ Behind(<<"finished", "request">>) = <<"request">>
  OBVIOUS
<1>6. Hs(p)!TicketsBefore(Len(<<>>) + 1, <<>>)
  OBVIOUS
<1>7. ASSUME NEW s \in Hs(p)!AtClient, NEW u, u = Joined(s, <<"answer">>)
      PROVE  /\ u \in Hs(p)!AtClient
             /\ Hs(p)!TicketsBefore(Len(s) + 1, s) =>
                  u # <<>> /\ u[Len(u)] = "answer" /\ Hs(p)!TicketsBefore(Len(u), u)
  BY <1>7
<1> HIDE DEF Hs!Later, Hs!AtServer, Hs!AtClient, Hs!TicketsBefore, Joined, Behind
<1> QED BY <1>1, <1>2, <1>3, <1>4, <1>5, <1>6, <1>7, <1>8

\* What the server sends when the handshake is over.
LEMMA Tickets ==
  ASSUME NEW p \in Secure
  PROVE  LET t == Hs(p)!SessionTickets
         IN  /\ t \in Hs(p)!AtClient /\ Hs(p)!TicketsBefore(Len(t) + 1, t)
             /\ \A s \in Hs(p)!AtClient : Joined(s, t) \in Hs(p)!AtClient
             /\ \A s, r \in Hs(p)!AtClient : Joined(s, r) \in Hs(p)!AtClient
             /\ \A s \in Hs(p)!AtClient : Joined(<<>>, s) = s
<1>1. /\ Hs(p)!SessionTickets \in Hs(p)!AtClient
      /\ Hs(p)!TicketsBefore(Len(Hs(p)!SessionTickets) + 1, Hs(p)!SessionTickets)
  BY HttpsConstants DEF Hs!SessionTickets, Hs!AtClient, Hs!TicketsBefore
<1>2. /\ \A s, r \in Hs(p)!AtClient : Joined(s, r) \in Hs(p)!AtClient
      /\ \A s \in Hs(p)!AtClient : Joined(<<>>, s) = s
  BY DEF Hs!AtClient, Joined
<1> QED BY <1>1, <1>2

\* The record that the client takes is the answer.
LEMMA AnswerTaken ==
  ASSUME NEW p \in Secure, NEW s \in Hs(p)!AtClient, NEW n \in 1..Len(s), NEW r,
         Hs(p)!TicketsBefore(n, s), s[n] # "ticket", r = SubSeq(s, n + 1, Len(s))
  PROVE  /\ r \in Hs(p)!AtClient /\ ~ Hs(p)!TicketsBefore(Len(s) + 1, s)
         /\ Hs(p)!TicketsBefore(Len(s), s) => r = <<>>
<1> USE DEF Hs!AtClient, Hs!TicketsBefore
<1>1. r \in Hs(p)!AtClient
  OBVIOUS
<1>2. ~ Hs(p)!TicketsBefore(Len(s) + 1, s)
  OBVIOUS
<1>3. ASSUME Hs(p)!TicketsBefore(Len(s), s) PROVE r = <<>>
  <2>1. n = Len(s)
    BY <1>3
  <2> QED BY <2>1
<1> QED BY <1>1, <1>2, <1>3

LEMMA OnlyTickets ==
  ASSUME NEW p \in Secure, NEW s \in Hs(p)!AtClient, s # <<>>,
         Hs(p)!TicketsBefore(Len(s) + 1, s)
  PROVE  s[Len(s)] = "ticket"
<1>1. Len(s) \in Nat /\ Len(s) # 0
  BY DEF Hs!AtClient
<1> QED BY <1>1 DEF Hs!TicketsBefore

\* The types of what belongs to one connection.
HttpsTypes(p, c) ==
  /\ s1[c] \in {"none", "connecting", "insecure", "secure", "closed"}
  /\ s2[c] \in {"none", "backlog", "insecure", "secure", "closed"}
  /\ s3[c] \in 0..(IF p = "fetch" THEN FetchFlights ELSE HttpsFlights)
  /\ s4[c] \in 0..(IF p = "fetch" THEN FetchFlights ELSE HttpsFlights)
  /\ s5[c] \in 0..(IF p = "fetch" THEN FetchFlights ELSE HttpsFlights)
  /\ s6[c] \in Hs(p)!AtServer /\ s7[c] \in Hs(p)!AtClient
  /\ s10[c] \in Nat /\ s11[c] \in 0..(IF p = "fetch" THEN FetchBound ELSE HttpsBound)

\* Nothing of any connection but c changes.
Touches(c) ==
  /\ s1' = [s1 EXCEPT ![c] = s1'[c]] /\ s2' = [s2 EXCEPT ![c] = s2'[c]]
  /\ s3' = [s3 EXCEPT ![c] = s3'[c]] /\ s4' = [s4 EXCEPT ![c] = s4'[c]]
  /\ s5' = [s5 EXCEPT ![c] = s5'[c]] /\ s6' = [s6 EXCEPT ![c] = s6'[c]]
  /\ s7' = [s7 EXCEPT ![c] = s7'[c]] /\ s10' = [s10 EXCEPT ![c] = s10'[c]]
  /\ s11' = [s11 EXCEPT ![c] = s11'[c]]

\* What remains to be shown of a step that is about c.
LEMMA HttpsMove ==
  ASSUME NEW p \in Secure, NEW c \in Conns, Hs(p)!IInv, Touches(c),
         HttpsTypes(p, c)', s12' \in BOOLEAN,
         s8' = s8 + One(s1'[c], Live) - One(s1[c], Live),
         s9' = s9 + One(s2'[c], Live) - One(s2[c], Live), Hs(p)!InTurn(c)'
  PROVE  Hs(p)!IInv'
<1>0. Hs(p)!TypeOK /\ Hs(p)!Figures /\ \A d \in Conns : Hs(p)!InTurn(d)
  BY DEF Hs!IInv
<1>1. /\ Only(c, s1, s1') /\ Only(c, s2, s2') /\ Only(c, s3, s3') /\ Only(c, s4, s4')
      /\ Only(c, s5, s5') /\ Only(c, s6, s6') /\ Only(c, s7, s7')
      /\ Only(c, s10, s10') /\ Only(c, s11, s11')
  BY <1>0 DEF Hs!TypeOK, Touches, Only
<1>2. Hs(p)!Figures' /\ s8' \in Nat /\ s9' \in Nat
  BY <1>0, <1>1, HttpsCounts
<1>3. Hs(p)!TypeOK'
  BY <1>0, <1>2 DEF Hs!TypeOK, HttpsTypes, Touches
<1>4. ASSUME NEW d \in Conns \ {c} PROVE Hs(p)!InTurn(d)'
  <2>1. /\ s1'[d] = s1[d] /\ s2'[d] = s2[d] /\ s3'[d] = s3[d] /\ s4'[d] = s4[d]
        /\ s5'[d] = s5[d] /\ s6'[d] = s6[d] /\ s7'[d] = s7[d] /\ s10'[d] = s10[d]
        /\ s11'[d] = s11[d]
    BY <1>1 DEF Only
  <2>2. Hs(p)!Flight(d) /\ Hs(p)!Before(d) /\ Hs(p)!After(d)
    BY <1>0 DEF Hs!InTurn
  <2>3. Hs(p)!Flight(d)'
    BY <2>1, <2>2 DEF Hs!Flight
  <2>4. Hs(p)!Before(d)'
    BY <2>1, <2>2 DEF Hs!Before
  <2>5. Hs(p)!After(d)'
    BY <2>1, <2>2 DEF Hs!After, Hs!TicketsBefore
  <2> QED BY <2>3, <2>4, <2>5 DEF Hs!InTurn
<1> QED BY <1>2, <1>3, <1>4 DEF Hs!IInv

\* A step of a TLS connection keeps to its figures and to the turns.
LEMMA HttpsKeep ==
  ASSUME NEW p \in Secure, Hs(p)!IInv, [Hs(p)!Next]_(Hs(p)!vars)
  PROVE  Hs(p)!IInv'
<1> /\ (IF p = "fetch" THEN FetchFlights ELSE HttpsFlights) \in Nat \ {0}
    /\ (IF p = "fetch" THEN FetchTickets ELSE HttpsTickets) \in Nat
    /\ (IF p = "fetch" THEN FetchBound ELSE HttpsBound) \in Nat \ {0}
  BY HttpsConstants
<1> s8 \in Nat /\ s9 \in Nat /\ s12 \in BOOLEAN
  BY DEF Hs!IInv, Hs!TypeOK
<1>0. /\ Hs(p)!TypeOK
      /\ \A c \in Conns : /\ HttpsTypes(p, c)
                          /\ Hs(p)!Flight(c) /\ Hs(p)!Before(c) /\ Hs(p)!After(c)
  BY DEF Hs!IInv, Hs!InTurn, Hs!TypeOK, HttpsTypes
<1>1. ASSUME NEW c \in Conns, Hs(p)!StartClient(c) /\ s12' = s12 PROVE Hs(p)!IInv'
  <2>0. HttpsTypes(p, c) /\ Hs(p)!Flight(c) /\ Hs(p)!Before(c) /\ Hs(p)!After(c)
    BY <1>0
  <2>1. Touches(c)
    BY <1>0, <1>1 DEF Hs!StartClient, Hs!handshakes, Hs!TypeOK, Touches
  <2>2. /\ s1[c] = "none" /\ s1'[c] = "connecting" /\ s2'[c] = "backlog"
        /\ UNCHANGED <<s3, s4, s5, s6, s7, s8, s9, s10, s11, s12>>
    BY <1>0, <1>1 DEF Hs!StartClient, Hs!handshakes, Hs!TypeOK
  <2>3. HttpsTypes(p, c)' /\ s12' \in BOOLEAN
    BY <2>0, <2>2 DEF HttpsTypes
  <2>4. /\ s8' = s8 + One(s1'[c], Live) - One(s1[c], Live)
        /\ s9' = s9 + One(s2'[c], Live) - One(s2[c], Live)
    BY <2>0, <2>2 DEF One, Live, Hs!Flight
  <2>5. Hs(p)!InTurn(c)'
    BY <2>0, <2>2, Queues DEF HttpsTypes, Hs!InTurn, Hs!Flight, Hs!Before, Hs!After
  <2> QED BY <2>1, <2>3, <2>4, <2>5, HttpsMove
<1>2. ASSUME NEW c \in Conns, Hs(p)!ClientConnect(c) /\ s12' = s12 PROVE Hs(p)!IInv'
  <2>0. HttpsTypes(p, c) /\ Hs(p)!Flight(c) /\ Hs(p)!Before(c) /\ Hs(p)!After(c)
    BY <1>0
  <2>1. Touches(c)
    BY <1>0, <1>2 DEF Hs!ClientConnect, Hs!handshakes, Hs!Send, Joined, Hs!TypeOK, Touches
  <2>2. /\ s1[c] = "connecting" /\ s1'[c] = "insecure" /\ s8' = s8 + 1
        /\ s6'[c] = IF s2[c] = "closed" THEN s6[c] ELSE Joined(s6[c], <<"hello">>)
        /\ UNCHANGED <<s2, s3, s4, s5, s7, s9, s10, s11, s12>>
    BY <1>0, <1>2 DEF Hs!ClientConnect, Hs!handshakes, Hs!Send, Joined, Hs!TypeOK
  <2>8. s6[c] = <<>> /\ s6'[c] = IF s2[c] = "closed" THEN <<>> ELSE <<"hello">>
    BY <2>0, <2>2, Queues DEF Hs!Flight
  <2>3. HttpsTypes(p, c)' /\ s12' \in BOOLEAN
    BY <2>0, <2>2, Queues DEF HttpsTypes
  <2>4. /\ s8' = s8 + One(s1'[c], Live) - One(s1[c], Live)
        /\ s9' = s9 + One(s2'[c], Live) - One(s2[c], Live)
    BY <2>2 DEF One, Live
  <2>6. Hs(p)!Flight(c)'
    BY <2>0, <2>2, <2>8, Queues DEF HttpsTypes, Hs!Flight
  <2>7. Hs(p)!Before(c)' /\ Hs(p)!After(c)'
    BY <2>0, <2>2, <2>8, Queues DEF HttpsTypes, Hs!Flight, Hs!Before, Hs!After
  <2>5. Hs(p)!InTurn(c)'
    BY <2>6, <2>7 DEF Hs!InTurn
  <2> QED BY <2>1, <2>3, <2>4, <2>5, HttpsMove
<1>3. ASSUME NEW c \in Conns, Hs(p)!HandshakeDone(c) /\ s12' = s12 PROVE Hs(p)!IInv'
  <2>0. HttpsTypes(p, c) /\ Hs(p)!Flight(c) /\ Hs(p)!Before(c) /\ Hs(p)!After(c)
    BY <1>0
  <2>1. Touches(c)
    BY <1>0, <1>3 DEF Hs!HandshakeDone, Hs!handshakes, Hs!Send, Joined, Hs!TypeOK, Touches
  <2>2. /\ s1[c] = "insecure" /\ s1'[c] = "secure" /\ s4[c] = s5[c] /\ s4'[c] = 0 /\ s5'[c] = 0
        /\ s4[c] > 0 \/ s7[c] # <<>>
        /\ s2[c] = "closed" => s6'[c] = s6[c]
        /\ s2[c] # "closed" /\ s5[c] = 0 => s6'[c] = Joined(s6[c], <<"request">>)
        /\ s2[c] # "closed" /\ s5[c] # 0 => s6'[c] = Joined(s6[c], <<"finished", "request">>)
        /\ UNCHANGED <<s2, s3, s7, s8, s9, s10, s11, s12>>
    BY <1>0, <1>3 DEF Hs!HandshakeDone, Hs!handshakes, Hs!Send, Joined, Hs!TypeOK
  <2>8. s3[c] = 0 /\ s6[c] \in Hs(p)!Later /\ s6[c] # <<"hello">>
    BY <2>0, <2>2 DEF HttpsTypes, Hs!Flight
  <2>9. s6'[c] \in Hs(p)!Later
    BY <2>2, <2>8, Queues
  <2>3. HttpsTypes(p, c)' /\ s12' \in BOOLEAN
    BY <2>0, <2>2, Queues DEF HttpsTypes
  <2>4. /\ s8' = s8 + One(s1'[c], Live) - One(s1[c], Live)
        /\ s9' = s9 + One(s2'[c], Live) - One(s2[c], Live)
    BY <2>2 DEF One, Live
  <2>6. Hs(p)!Flight(c)'
    <3>1. s3'[c] = 0 /\ s4'[c] = 0 /\ s5'[c] = 0 /\ s1'[c] = "secure" /\ s6'[c] # <<"hello">>
      BY <2>2, <2>8, <2>9, Queues
    <3> QED BY <2>9, <3>1 DEF Hs!Flight
  <2>7. ASSUME s2[c] # "closed" PROVE Hs(p)!Before(c)' /\ Hs(p)!After(c)'
    <3>1. CASE s5[c] = 0
      <4>1. s2[c] = "secure"
        BY <2>0, <2>2, <2>7, <3>1 DEF Hs!Before
      <4>2. s10[c] = s11[c] /\ s6[c] = <<>> /\ Hs(p)!TicketsBefore(Len(s7[c]) + 1, s7[c])
        BY <2>0, <2>2, <4>1 DEF Hs!After
      <4>3. s6'[c] = <<"request">>
        BY <2>2, <2>7, <3>1, <4>2, Queues
      <4> QED BY <2>2, <4>1, <4>2, <4>3 DEF Hs!Before, Hs!After
    <3>2. CASE s5[c] # 0
      <4>1. /\ s6[c] = <<>> /\ s2[c] # "secure" /\ s7[c] = <<>> /\ s10[c] = s11[c]
        BY <2>0, <2>2, <2>7, <2>8, <3>2 DEF HttpsTypes, Hs!Before
      <4>2. s6'[c] = <<"finished", "request">>
        BY <2>2, <2>7, <3>2, <4>1, Queues
      <4> QED BY <2>2, <4>1, <4>2 DEF Hs!Before, Hs!After
    <3> QED BY <3>1, <3>2
  <2>5. Hs(p)!InTurn(c)'
    BY <2>2, <2>6, <2>7 DEF Hs!InTurn, Hs!Before, Hs!After
  <2> QED BY <2>1, <2>3, <2>4, <2>5, HttpsMove
<1>4. ASSUME NEW c \in Conns, NEW n \in 0..s3[c], Hs(p)!HandshakeWaits(c, n) /\ s12' = s12 PROVE Hs(p)!IInv'
  <2>0. HttpsTypes(p, c) /\ Hs(p)!Flight(c) /\ Hs(p)!Before(c) /\ Hs(p)!After(c)
    BY <1>0
  <2>1. Touches(c)
    BY <1>0, <1>4 DEF Hs!HandshakeWaits, Hs!handshakes, Hs!Send, Joined, Hs!TypeOK, Touches
  <2>2. /\ s1[c] = "insecure" /\ 0 < s4[c] /\ s4[c] < s5[c] /\ s4'[c] = 0
        /\ s5'[c] = s5[c] - s4[c] - n /\ s3'[c] = s3[c] - n
        /\ s2[c] = "closed" \/ s5'[c] # 0 => s6'[c] = s6[c]
        /\ s2[c] # "closed" /\ s5'[c] = 0 => s6'[c] = Joined(s6[c], <<"finished">>)
        /\ UNCHANGED <<s1, s2, s7, s8, s9, s10, s11, s12>>
    BY <1>0, <1>4 DEF Hs!HandshakeWaits, Hs!handshakes, Hs!Send, Joined, Hs!TypeOK
  <2>8. /\ s3[c] + s4[c] <= s5[c] /\ s6[c] \in Hs(p)!Later /\ s6[c] # <<"hello">>
        /\ s5'[c] \in Nat /\ s5'[c] < s5[c] /\ s3'[c] \in Nat /\ s3'[c] <= s3[c]
        /\ s3'[c] <= s5'[c]
    <3>1. s3[c] \in Nat /\ s4[c] \in Nat /\ s5[c] \in Nat
      BY <2>0 DEF HttpsTypes
    <3>2. s3[c] + s4[c] <= s5[c] /\ s6[c] \in Hs(p)!Later /\ s6[c] # <<"hello">>
      BY <2>0, <2>2, <3>1 DEF Hs!Flight
    <3> QED BY <2>2, <3>1, <3>2
  <2>9. s6'[c] \in Hs(p)!Later
    BY <2>2, <2>8, Queues
  <2>3. HttpsTypes(p, c)' /\ s12' \in BOOLEAN
    <3>1. s6'[c] \in Hs(p)!AtServer
      BY <2>9, Queues
    <3>2. /\ s3'[c] \in 0..(IF p = "fetch" THEN FetchFlights ELSE HttpsFlights)
          /\ s4'[c] \in 0..(IF p = "fetch" THEN FetchFlights ELSE HttpsFlights)
          /\ s5'[c] \in 0..(IF p = "fetch" THEN FetchFlights ELSE HttpsFlights)
      BY <2>0, <2>2, <2>8 DEF HttpsTypes
    <3> QED BY <2>0, <2>2, <3>1, <3>2 DEF HttpsTypes
  <2>4. /\ s8' = s8 + One(s1'[c], Live) - One(s1[c], Live)
        /\ s9' = s9 + One(s2'[c], Live) - One(s2[c], Live)
    BY <2>2 DEF One, Live
  <2>6. Hs(p)!Flight(c)'
    <3>1. s1'[c] = "insecure" /\ s6'[c] # <<"hello">>
      BY <2>2, <2>9, Queues
    <3>2. s3'[c] + s4'[c] <= s5'[c]
      BY <2>2, <2>8
    <3> QED BY <2>9, <3>1, <3>2 DEF Hs!Flight
  <2>7. ASSUME s2[c] # "closed" PROVE Hs(p)!Before(c)' /\ Hs(p)!After(c)'
    <3>1. s6[c] = <<>> /\ s2[c] # "secure" /\ s7[c] = <<>> /\ s10[c] = s11[c]
      BY <2>0, <2>2, <2>7, <2>8 DEF HttpsTypes, Hs!Before
    <3>2. s6'[c] = IF s5'[c] = 0 THEN <<"finished">> ELSE <<>>
      BY <2>2, <2>7, <3>1, Queues
    <3> QED BY <2>2, <3>1, <3>2 DEF Hs!Before, Hs!After
  <2>5. Hs(p)!InTurn(c)'
    BY <2>2, <2>6, <2>7 DEF Hs!InTurn, Hs!Before, Hs!After
  <2> QED BY <2>1, <2>3, <2>4, <2>5, HttpsMove
<1>5. ASSUME NEW c \in Conns, Hs(p)!HandshakeFails(c) PROVE Hs(p)!IInv'
  <2>0. HttpsTypes(p, c) /\ Hs(p)!Flight(c) /\ Hs(p)!Before(c) /\ Hs(p)!After(c)
    BY <1>0
  <2>1. Touches(c)
    BY <1>0, <1>5 DEF Hs!HandshakeFails, Hs!ClientClose, Hs!TypeOK, Touches
  <2>2. /\ s1[c] = "insecure" /\ s1'[c] = "closed" /\ s4'[c] = 0 /\ s7'[c] = <<>> /\ s8' = s8 - 1
        /\ s12' \in BOOLEAN /\ UNCHANGED <<s2, s3, s5, s6, s9, s10, s11>>
    BY <1>0, <1>5 DEF Hs!HandshakeFails, Hs!ClientClose, Hs!TypeOK
  <2>3. HttpsTypes(p, c)' /\ s12' \in BOOLEAN
    BY <2>0, <2>2, Queues DEF HttpsTypes
  <2>4. /\ s8' = s8 + One(s1'[c], Live) - One(s1[c], Live)
        /\ s9' = s9 + One(s2'[c], Live) - One(s2[c], Live)
    BY <2>2 DEF One, Live
  <2>5. Hs(p)!InTurn(c)'
    BY <2>0, <2>2, Queues DEF HttpsTypes, Hs!InTurn, Hs!Flight, Hs!Before, Hs!After
  <2> QED BY <2>1, <2>3, <2>4, <2>5, HttpsMove
<1>6. ASSUME NEW c \in Conns, Hs(p)!ClientNext(c) /\ s12' = s12 PROVE Hs(p)!IInv'
  <2>0. HttpsTypes(p, c) /\ Hs(p)!Flight(c) /\ Hs(p)!Before(c) /\ Hs(p)!After(c)
    BY <1>0
  <2>1. Touches(c)
    BY <1>0, <1>6 DEF Hs!ClientNext, Hs!handshakes, Hs!Send, Joined, Hs!TypeOK, Touches
  <2>2. /\ s1[c] = "secure" /\ s11'[c] = s11[c] + 1
        /\ s11[c] < (IF p = "fetch" THEN FetchBound ELSE HttpsBound)
        /\ s6'[c] = IF s2[c] = "closed" THEN s6[c] ELSE Joined(s6[c], <<"request">>)
        /\ UNCHANGED <<s1, s2, s3, s4, s5, s8, s9, s10, s12>>
    BY <1>0, <1>6 DEF Hs!ClientNext, Hs!handshakes, Hs!Send, Joined, Hs!TypeOK
  <2>8. /\ s7'[c] \in Hs(p)!AtClient /\ ~ Hs(p)!TicketsBefore(Len(s7[c]) + 1, s7[c])
        /\ Hs(p)!TicketsBefore(Len(s7[c]), s7[c]) => s7'[c] = <<>>
    <3>1. PICK n \in 1..Len(s7[c]) :
            /\ Hs(p)!TicketsBefore(n, s7[c]) /\ s7[c][n] # "ticket"
            /\ s7' = [s7 EXCEPT ![c] = SubSeq(@, n + 1, Len(@))]
      BY <1>6 DEF Hs!ClientNext
    <3>2. s7'[c] = SubSeq(s7[c], n + 1, Len(s7[c]))
      BY <1>0, <3>1 DEF Hs!TypeOK
    <3>3. s7[c] \in Hs(p)!AtClient
      BY <2>0 DEF HttpsTypes
    <3> QED BY <3>1, <3>2, <3>3, AnswerTaken
  <2>3. HttpsTypes(p, c)' /\ s12' \in BOOLEAN
    <3>1. s6'[c] \in Hs(p)!AtServer
      BY <2>0, <2>2, Queues DEF HttpsTypes
    <3>2. s11'[c] \in 0..(IF p = "fetch" THEN FetchBound ELSE HttpsBound)
      BY <2>0, <2>2 DEF HttpsTypes
    <3> QED BY <2>0, <2>2, <2>8, <3>1, <3>2 DEF HttpsTypes
  <2>4. /\ s8' = s8 + One(s1'[c], Live) - One(s1[c], Live)
        /\ s9' = s9 + One(s2'[c], Live) - One(s2[c], Live)
    BY <2>2 DEF One, Live
  <2>6. Hs(p)!Flight(c)'
    BY <2>0, <2>2, Queues DEF HttpsTypes, Hs!Flight
  <2>7. ASSUME s2[c] = "closed" PROVE Hs(p)!InTurn(c)'
    BY <2>2, <2>6, <2>7 DEF Hs!InTurn, Hs!Before, Hs!After
  <2>9. ASSUME s2[c] # "closed" PROVE Hs(p)!InTurn(c)'
    <3>1. s5[c] = 0 /\ s2[c] = "secure"
      <4>1. s5[c] = 0
        BY <2>0, <2>2, <2>9 DEF HttpsTypes, Hs!Before
      <4>2. s7[c] # <<>>
        BY <2>8, Queues
      <4> QED BY <2>0, <2>2, <2>9, <4>1, <4>2 DEF Hs!Before
    <3>2. /\ s10[c] = s11[c] + 1 /\ s6[c] = <<>>
          /\ Hs(p)!TicketsBefore(Len(s7[c]), s7[c])
      BY <2>0, <2>2, <2>8, <2>9, <3>1 DEF Hs!After
    <3>3. s6'[c] = <<"request">> /\ s7'[c] = <<>>
      BY <2>2, <2>8, <2>9, <3>2, Queues
    <3> QED BY <2>0, <2>2, <2>6, <2>9, <3>1, <3>2, <3>3, Queues
         DEF HttpsTypes, Hs!InTurn, Hs!Before, Hs!After
  <2>5. Hs(p)!InTurn(c)'
    BY <2>7, <2>9
  <2> QED BY <2>1, <2>3, <2>4, <2>5, HttpsMove
<1>7. ASSUME NEW c \in Conns, Hs(p)!ClientBlocked(c) /\ s12' = s12 PROVE Hs(p)!IInv'
  <2>0. HttpsTypes(p, c) /\ Hs(p)!Flight(c) /\ Hs(p)!Before(c) /\ Hs(p)!After(c)
    BY <1>0
  <2>1. Touches(c)
    BY <1>0, <1>7 DEF Hs!ClientBlocked, Hs!handshakes, Hs!TypeOK, Touches
  <2>2. /\ s1[c] = "secure" /\ s7[c] # <<>> /\ Hs(p)!TicketsBefore(Len(s7[c]) + 1, s7[c])
        /\ s7'[c] = <<>> /\ UNCHANGED <<s1, s2, s3, s4, s5, s6, s8, s9, s10, s11, s12>>
    BY <1>0, <1>7 DEF Hs!ClientBlocked, Hs!handshakes, Hs!TypeOK
  <2>3. HttpsTypes(p, c)' /\ s12' \in BOOLEAN
    BY <2>0, <2>2, Queues DEF HttpsTypes
  <2>4. /\ s8' = s8 + One(s1'[c], Live) - One(s1[c], Live)
        /\ s9' = s9 + One(s2'[c], Live) - One(s2[c], Live)
    BY <2>2 DEF One, Live
  <2>6. Hs(p)!Flight(c)' /\ Hs(p)!Before(c)'
    BY <2>0, <2>2 DEF HttpsTypes, Hs!Flight, Hs!Before
  <2>7. ~ (s7[c][Len(s7[c])] = "answer")
    BY <2>0, <2>2, OnlyTickets DEF HttpsTypes
  <2>8. Hs(p)!After(c)'
    BY <2>0, <2>2, <2>7, Queues DEF Hs!After
  <2>5. Hs(p)!InTurn(c)'
    BY <2>6, <2>8 DEF Hs!InTurn
  <2> QED BY <2>1, <2>3, <2>4, <2>5, HttpsMove
<1>8. ASSUME NEW c \in Conns, Hs(p)!ClientEnd(c) /\ s12' = s12 PROVE Hs(p)!IInv'
  <2>0. HttpsTypes(p, c) /\ Hs(p)!Flight(c) /\ Hs(p)!Before(c) /\ Hs(p)!After(c)
    BY <1>0
  <2>1. Touches(c)
    BY <1>0, <1>8 DEF Hs!ClientEnd, Hs!ClientClose, Hs!TypeOK, Touches
  <2>2. /\ s1[c] = "secure" /\ s1'[c] = "closed" /\ s4'[c] = 0 /\ s7'[c] = <<>> /\ s8' = s8 - 1
        /\ UNCHANGED <<s2, s3, s5, s6, s9, s10, s11, s12>>
    BY <1>0, <1>8 DEF Hs!ClientEnd, Hs!ClientClose, Hs!TypeOK
  <2>3. HttpsTypes(p, c)' /\ s12' \in BOOLEAN
    BY <2>0, <2>2, Queues DEF HttpsTypes
  <2>4. /\ s8' = s8 + One(s1'[c], Live) - One(s1[c], Live)
        /\ s9' = s9 + One(s2'[c], Live) - One(s2[c], Live)
    BY <2>2 DEF One, Live
  <2>5. Hs(p)!InTurn(c)'
    BY <2>0, <2>2, Queues DEF HttpsTypes, Hs!InTurn, Hs!Flight, Hs!Before, Hs!After
  <2> QED BY <2>1, <2>3, <2>4, <2>5, HttpsMove
<1>9. ASSUME NEW c \in Conns, Hs(p)!Accept(c) /\ s12' = s12 PROVE Hs(p)!IInv'
  <2>0. HttpsTypes(p, c) /\ Hs(p)!Flight(c) /\ Hs(p)!Before(c) /\ Hs(p)!After(c)
    BY <1>0
  <2>1. Touches(c)
    BY <1>0, <1>9 DEF Hs!Accept, Hs!handshakes, Hs!TypeOK, Touches
  <2>2. /\ s2[c] = "backlog" /\ s2'[c] = "insecure" /\ s9' = s9 + 1
        /\ UNCHANGED <<s1, s3, s4, s5, s6, s7, s8, s10, s11, s12>>
    BY <1>0, <1>9 DEF Hs!Accept, Hs!handshakes, Hs!TypeOK
  <2>3. HttpsTypes(p, c)' /\ s12' \in BOOLEAN
    BY <2>0, <2>2 DEF HttpsTypes
  <2>4. /\ s8' = s8 + One(s1'[c], Live) - One(s1[c], Live)
        /\ s9' = s9 + One(s2'[c], Live) - One(s2[c], Live)
    BY <2>2 DEF One, Live
  <2>6. Hs(p)!Flight(c)'
    BY <2>0, <2>2, Queues DEF HttpsTypes, Hs!Flight
  <2>7. Hs(p)!Before(c)' /\ Hs(p)!After(c)'
    BY <2>0, <2>2 DEF Hs!Before, Hs!After
  <2>5. Hs(p)!InTurn(c)'
    BY <2>6, <2>7 DEF Hs!InTurn
  <2> QED BY <2>1, <2>3, <2>4, <2>5, HttpsMove
<1>10. ASSUME NEW c \in Conns, Hs(p)!ServerFlight(c) /\ s12' = s12 PROVE Hs(p)!IInv'
  <2>0. HttpsTypes(p, c) /\ Hs(p)!Flight(c) /\ Hs(p)!Before(c) /\ Hs(p)!After(c)
    BY <1>0
  <2>1. Touches(c)
    BY <1>0, <1>10 DEF Hs!ServerFlight, Hs!TypeOK, Touches
  <2>2. /\ s2[c] = "insecure" /\ s6[c] = <<"hello">> /\ s6'[c] = <<>>
        /\ s3'[c] = (IF p = "fetch" THEN FetchFlights ELSE HttpsFlights)
        /\ UNCHANGED <<s1, s2, s4, s5, s7, s8, s9, s10, s11, s12>>
    BY <1>0, <1>10 DEF Hs!ServerFlight, Hs!TypeOK
  <2>3. HttpsTypes(p, c)' /\ s12' \in BOOLEAN
    BY <2>0, <2>2, Queues DEF HttpsTypes
  <2>4. /\ s8' = s8 + One(s1'[c], Live) - One(s1[c], Live)
        /\ s9' = s9 + One(s2'[c], Live) - One(s2[c], Live)
    BY <2>2 DEF One, Live
  <2>5. Hs(p)!InTurn(c)'
    BY <2>0, <2>2, Queues DEF HttpsTypes, Hs!InTurn, Hs!Flight, Hs!Before, Hs!After
  <2> QED BY <2>1, <2>3, <2>4, <2>5, HttpsMove
<1>11. ASSUME NEW c \in Conns, Hs(p)!ServerSecure(c) /\ s12' = s12 PROVE Hs(p)!IInv'
  <2>0. HttpsTypes(p, c) /\ Hs(p)!Flight(c) /\ Hs(p)!Before(c) /\ Hs(p)!After(c)
    BY <1>0
  <2>1. Touches(c)
    BY <1>0, <1>11 DEF Hs!ServerSecure, Hs!handshakes, Hs!Reply, Joined, Behind, Hs!TypeOK, Touches
  <2>2. /\ s2[c] = "insecure" /\ s2'[c] = "secure" /\ s6[c] # <<>> /\ Head(s6[c]) = "finished"
        /\ UNCHANGED <<s1, s3, s4, s5, s8, s9, s11, s12>>
        /\ s1[c] = "closed" => s7'[c] = s7[c]
        /\ \/ /\ s6'[c] = Behind(s6[c]) /\ s10' = s10
              /\ s1[c] # "closed" => s7'[c] = Joined(s7[c], Hs(p)!SessionTickets)
           \/ /\ Behind(s6[c]) # <<>> /\ s6'[c] = <<>> /\ s10'[c] = s10[c] + 1
              /\ s1[c] # "closed" => s7'[c] = Joined(s7[c], Joined(Hs(p)!SessionTickets, <<"answer">>))
    BY <1>0, <1>11 DEF Hs!ServerSecure, Hs!handshakes, Hs!Reply, Joined, Behind, Hs!TypeOK
  <2>9. s6[c] # <<"hello">> /\ s6[c] \in Hs(p)!Later
    BY <2>0, <2>2 DEF Hs!Flight
  <2>3. HttpsTypes(p, c)' /\ s12' \in BOOLEAN
    <3>1. s6'[c] \in Hs(p)!AtServer
      BY <2>2, <2>9, Queues
    <3>2. s7'[c] \in Hs(p)!AtClient
      BY <2>0, <2>2, Queues, Tickets DEF HttpsTypes
    <3>3. s10'[c] \in Nat
      BY <2>0, <2>2 DEF HttpsTypes
    <3> QED BY <2>0, <2>2, <3>1, <3>2, <3>3 DEF HttpsTypes
  <2>4. /\ s8' = s8 + One(s1'[c], Live) - One(s1[c], Live)
        /\ s9' = s9 + One(s2'[c], Live) - One(s2[c], Live)
    BY <2>2 DEF One, Live
  <2>6. Hs(p)!Flight(c)'
    BY <2>0, <2>2, <2>9, Queues DEF HttpsTypes, Hs!Flight
  <2>7. ASSUME s1[c] = "closed" PROVE Hs(p)!InTurn(c)'
    BY <2>2, <2>6, <2>7 DEF Hs!InTurn, Hs!Before, Hs!After
  <2>8. ASSUME s1[c] # "closed" PROVE Hs(p)!InTurn(c)'
    <3>1. /\ s5[c] = 0 /\ s7[c] = <<>> /\ s10[c] = s11[c]
          /\ s6[c] = IF s1[c] = "secure" THEN <<"finished", "request">> ELSE <<"finished">>
      BY <2>0, <2>2, <2>8, <2>9 DEF HttpsTypes, Hs!Before
    <3>2. CASE /\ s6'[c] = Behind(s6[c]) /\ s10' = s10
               /\ s7'[c] = Joined(s7[c], Hs(p)!SessionTickets)
      <4>1. s7'[c] = Hs(p)!SessionTickets
        BY <3>1, <3>2, Tickets
      <4>2. s6'[c] = IF s1[c] = "secure" THEN <<"request">> ELSE <<>>
        BY <3>1, <3>2, Queues
      <4>3. Hs(p)!TicketsBefore(Len(s7'[c]) + 1, s7'[c])
        BY <4>1, Tickets
      <4> QED BY <2>2, <2>6, <2>8, <3>1, <3>2, <4>2, <4>3 DEF Hs!InTurn, Hs!Before, Hs!After
    <3>3. CASE /\ Behind(s6[c]) # <<>> /\ s6'[c] = <<>> /\ s10'[c] = s10[c] + 1
               /\ s7'[c] = Joined(s7[c], Joined(Hs(p)!SessionTickets, <<"answer">>))
      <4>1. s1[c] = "secure"
        BY <3>1, <3>3, Queues
      <4>2. s7'[c] = Joined(Hs(p)!SessionTickets, <<"answer">>)
        BY <3>1, <3>3, Queues, Tickets
      <4>3. /\ s7'[c] # <<>> /\ s7'[c][Len(s7'[c])] = "answer"
            /\ Hs(p)!TicketsBefore(Len(s7'[c]), s7'[c])
        BY <4>2, Queues, Tickets
      <4> QED BY <2>2, <2>6, <2>8, <3>1, <3>3, <4>1, <4>3 DEF Hs!InTurn, Hs!Before, Hs!After
    <3> QED BY <2>2, <2>8, <3>2, <3>3
  <2>5. Hs(p)!InTurn(c)'
    BY <2>7, <2>8
  <2> QED BY <2>1, <2>3, <2>4, <2>5, HttpsMove
<1>12. ASSUME NEW c \in Conns, Hs(p)!ServerAnswer(c) /\ s12' = s12 PROVE Hs(p)!IInv'
  <2>0. HttpsTypes(p, c) /\ Hs(p)!Flight(c) /\ Hs(p)!Before(c) /\ Hs(p)!After(c)
    BY <1>0
  <2>1. Touches(c)
    BY <1>0, <1>12 DEF Hs!ServerAnswer, Hs!handshakes, Hs!Reply, Joined, Behind, Hs!TypeOK, Touches
  <2>2. /\ s2[c] = "secure" /\ s6[c] # <<>> /\ s6'[c] = Behind(s6[c]) /\ s10'[c] = s10[c] + 1
        /\ s7'[c] = IF s1[c] = "closed" THEN s7[c] ELSE Joined(s7[c], <<"answer">>)
        /\ UNCHANGED <<s1, s2, s3, s4, s5, s8, s9, s11, s12>>
    BY <1>0, <1>12 DEF Hs!ServerAnswer, Hs!handshakes, Hs!Reply, Joined, Behind, Hs!TypeOK
  <2>3. HttpsTypes(p, c)' /\ s12' \in BOOLEAN
    <3>1. s6'[c] \in Hs(p)!AtServer /\ s7'[c] \in Hs(p)!AtClient
      BY <2>0, <2>2, Queues DEF HttpsTypes
    <3> QED BY <2>0, <2>2, <3>1 DEF HttpsTypes
  <2>4. /\ s8' = s8 + One(s1'[c], Live) - One(s1[c], Live)
        /\ s9' = s9 + One(s2'[c], Live) - One(s2[c], Live)
    BY <2>2 DEF One, Live
  <2>6. Hs(p)!Flight(c)'
    BY <2>0, <2>2, Queues DEF HttpsTypes, Hs!Flight
  <2>7. ASSUME s1[c] = "closed" PROVE Hs(p)!InTurn(c)'
    BY <2>2, <2>6, <2>7 DEF Hs!InTurn, Hs!Before, Hs!After
  <2>8. ASSUME s1[c] # "closed" PROVE Hs(p)!InTurn(c)'
    <3>1. /\ s1[c] = "secure" /\ s6[c] = <<"request">> /\ s10[c] = s11[c]
          /\ Hs(p)!TicketsBefore(Len(s7[c]) + 1, s7[c])
      BY <2>0, <2>2, <2>8 DEF Hs!After
    <3>2. /\ s6'[c] = <<>> /\ s7'[c] # <<>> /\ s7'[c][Len(s7'[c])] = "answer"
          /\ Hs(p)!TicketsBefore(Len(s7'[c]), s7'[c])
      BY <2>0, <2>2, <2>8, <3>1, Queues DEF HttpsTypes
    <3>3. s5[c] = 0
      BY <2>0, <2>2, <2>8, <3>1 DEF Hs!Before, HttpsTypes
    <3> QED BY <2>2, <2>6, <2>8, <3>1, <3>2, <3>3 DEF Hs!InTurn, Hs!Before, Hs!After
  <2>5. Hs(p)!InTurn(c)'
    BY <2>7, <2>8
  <2> QED BY <2>1, <2>3, <2>4, <2>5, HttpsMove
<1>13. ASSUME NEW c \in Conns, Hs(p)!ServerWriteFails(c) /\ s12' = s12 PROVE Hs(p)!IInv'
  <2>0. HttpsTypes(p, c) /\ Hs(p)!Flight(c) /\ Hs(p)!Before(c) /\ Hs(p)!After(c)
    BY <1>0
  <2>1. Touches(c)
    BY <1>0, <1>13 DEF Hs!ServerWriteFails, Hs!ServerClose, Hs!handshakes, Behind, Hs!TypeOK, Touches
  <2>2. /\ s1[c] = "closed" /\ s6[c] # <<>> /\ s2[c] = "secure"
        /\ UNCHANGED <<s1, s3, s4, s5, s7, s8, s10, s11, s12>>
        /\ \/ s6'[c] = <<>> /\ s2'[c] = "closed" /\ s9' = s9 - 1
           \/ s6'[c] = Behind(s6[c]) /\ UNCHANGED <<s2, s9>>
    BY <1>0, <1>13 DEF Hs!ServerWriteFails, Hs!ServerClose, Hs!handshakes, Behind, Hs!TypeOK
  <2>3. HttpsTypes(p, c)' /\ s12' \in BOOLEAN
    BY <2>0, <2>2, Queues DEF HttpsTypes
  <2>4. /\ s8' = s8 + One(s1'[c], Live) - One(s1[c], Live)
        /\ s9' = s9 + One(s2'[c], Live) - One(s2[c], Live)
    BY <2>2 DEF One, Live
  <2>6. Hs(p)!Flight(c)'
    BY <2>0, <2>2, Queues DEF HttpsTypes, Hs!Flight
  <2>5. Hs(p)!InTurn(c)'
    BY <2>2, <2>6 DEF Hs!InTurn, Hs!Before, Hs!After
  <2> QED BY <2>1, <2>3, <2>4, <2>5, HttpsMove
<1>14. ASSUME NEW c \in Conns, Hs(p)!ServerEnd(c) /\ s12' = s12 PROVE Hs(p)!IInv'
  <2>0. HttpsTypes(p, c) /\ Hs(p)!Flight(c) /\ Hs(p)!Before(c) /\ Hs(p)!After(c)
    BY <1>0
  <2>1. Touches(c)
    BY <1>0, <1>14 DEF Hs!ServerEnd, Hs!ServerClose, Hs!handshakes, Hs!TypeOK, Touches
  <2>2. /\ s2[c] \in {"insecure", "secure"} /\ s2'[c] = "closed" /\ s6'[c] = <<>> /\ s9' = s9 - 1
        /\ UNCHANGED <<s1, s3, s4, s5, s7, s8, s10, s11, s12>>
    BY <1>0, <1>14 DEF Hs!ServerEnd, Hs!ServerClose, Hs!handshakes, Hs!TypeOK
  <2>3. HttpsTypes(p, c)' /\ s12' \in BOOLEAN
    BY <2>0, <2>2, Queues DEF HttpsTypes
  <2>4. /\ s8' = s8 + One(s1'[c], Live) - One(s1[c], Live)
        /\ s9' = s9 + One(s2'[c], Live) - One(s2[c], Live)
    BY <2>2 DEF One, Live
  <2>5. Hs(p)!InTurn(c)'
    BY <2>0, <2>2, Queues DEF HttpsTypes, Hs!InTurn, Hs!Flight, Hs!Before, Hs!After
  <2> QED BY <2>1, <2>3, <2>4, <2>5, HttpsMove
<1>15. ASSUME NEW c \in Conns, Hs(p)!Arrive(c) /\ s12' = s12 PROVE Hs(p)!IInv'
  <2>0. HttpsTypes(p, c) /\ Hs(p)!Flight(c) /\ Hs(p)!Before(c) /\ Hs(p)!After(c)
    BY <1>0
  <2>1. Touches(c)
    BY <1>0, <1>15 DEF Hs!Arrive, Hs!TypeOK, Touches
  <2>2. /\ s3[c] > 0 /\ s3'[c] = s3[c] - 1 /\ s4'[c] = (IF s1[c] = "closed" THEN 0 ELSE s4[c] + 1)
        /\ UNCHANGED <<s1, s2, s5, s6, s7, s8, s9, s10, s11, s12>>
    BY <1>0, <1>15 DEF Hs!Arrive, Hs!TypeOK
  <2>3. HttpsTypes(p, c)' /\ s12' \in BOOLEAN
    <3>1. /\ s3[c] \in Nat /\ s4[c] \in Nat /\ s3[c] + s4[c] <= s5[c]
          /\ s5[c] \in 0..(IF p = "fetch" THEN FetchFlights ELSE HttpsFlights)
      BY <2>0 DEF HttpsTypes, Hs!Flight
    <3>2. /\ s3'[c] \in 0..(IF p = "fetch" THEN FetchFlights ELSE HttpsFlights)
          /\ s4'[c] \in 0..(IF p = "fetch" THEN FetchFlights ELSE HttpsFlights)
      BY <2>2, <3>1
    <3> QED BY <2>0, <2>2, <3>2 DEF HttpsTypes
  <2>4. /\ s8' = s8 + One(s1'[c], Live) - One(s1[c], Live)
        /\ s9' = s9 + One(s2'[c], Live) - One(s2[c], Live)
    BY <2>2 DEF One, Live
  <2>6. Hs(p)!Flight(c)'
    <3>1. s3[c] \in Nat /\ s4[c] \in Nat /\ s5[c] \in Nat /\ s3[c] + s4[c] <= s5[c]
      BY <2>0 DEF HttpsTypes, Hs!Flight
    <3>2. s3'[c] + s4'[c] <= s5'[c]
      BY <2>2, <3>1
    <3> QED BY <2>0, <2>2, <3>1, <3>2 DEF Hs!Flight
  <2>7. Hs(p)!Before(c)' /\ Hs(p)!After(c)'
    BY <2>0, <2>2 DEF Hs!Before, Hs!After
  <2>5. Hs(p)!InTurn(c)'
    BY <2>6, <2>7 DEF Hs!InTurn
  <2> QED BY <2>1, <2>3, <2>4, <2>5, HttpsMove
<1>16. CASE UNCHANGED Hs(p)!vars
  BY <1>16, HttpsCount DEF Hs!vars, Hs!handshakes, Hs!IInv, Hs!TypeOK, Hs!Figures, Hs!InTurn,
     Hs!Flight, Hs!Before, Hs!After
<1> QED BY <1>1, <1>2, <1>3, <1>4, <1>5, <1>6, <1>7, <1>8, <1>9, <1>10, <1>11, <1>12, <1>13,
       <1>14, <1>15, <1>16 DEF Hs!Next, Hs!OnClient, Hs!OnServer, Hs!Deliver

\* The turns of a TLS connection: what a step adds to is told by what holds before
\* and after it.
LEMMA HttpsTurns ==
  ASSUME NEW p \in Secure, subject = p, subject' = p, Hs(p)!IInv, Hs(p)!IInv',
         [Hs(p)!Next]_(Hs(p)!vars)
  PROVE  [Rallies!Next]_turns
<1> DEFINE Turn(client, server, asked, told) ==
             IF "closed" \in {client, server} THEN "over"
             ELSE IF client # "secure" THEN "off"
             ELSE IF asked = told THEN "asked"
             ELSE IF asked = told + 1 THEN "answered" ELSE "astray"
           Kept(client, server, asked, told) ==
             "closed" \notin {client, server} =>
               asked = told \/ (client = "secure" /\ asked = told + 1)
<1>0. /\ s1 \in [Conns -> {"none", "connecting", "insecure", "secure", "closed"}]
      /\ s2 \in [Conns -> {"none", "backlog", "insecure", "secure", "closed"}]
      /\ s10 \in [Conns -> Nat] /\ s11 \in [Conns -> Nat]
  BY HttpsConstants DEF Hs!IInv, Hs!TypeOK
<1>1. \A c \in Conns : turns[c] = Turn(s1[c], s2[c], s10[c], s11[c])
  BY DEF turns, Hs!turn, Plain, Secure
<1>2. \A c \in Conns : turns'[c] = Turn(s1'[c], s2'[c], s10'[c], s11'[c])
  BY DEF turns, Hs!turn, Plain, Secure
<1>3. subject \in Plain \cup Secure /\ subject' = subject
  OBVIOUS
<1>5. \A c \in Conns : /\ s1[c] = "none" => s2[c] = "none"
                       /\ Kept(s1[c], s2[c], s10[c], s11[c])
                       /\ Kept(s1'[c], s2'[c], s10'[c], s11'[c])
  <2> TAKE c \in Conns
  <2>1. Hs(p)!Flight(c) /\ Hs(p)!Before(c) /\ Hs(p)!After(c) /\ Hs(p)!Before(c)' /\ Hs(p)!After(c)'
    BY DEF Hs!IInv, Hs!InTurn
  <2> QED BY <2>1 DEF Hs!Flight, Hs!Before, Hs!After
<1>4. ASSUME NEW c \in Conns,
             \A d \in Conns \ {c} :
               s1'[d] = s1[d] /\ s2'[d] = s2[d] /\ s10'[d] = s10[d] /\ s11'[d] = s11[d],
             Moved(Turn(s1[c], s2[c], s10[c], s11[c]), Turn(s1'[c], s2'[c], s10'[c], s11'[c]))
      PROVE  [Rallies!Next]_turns
  <2>1. \A d \in Conns \ {c} : turns'[d] = turns[d]
    BY <1>1, <1>2, <1>4
  <2> QED BY <1>1, <1>2, <1>3, <1>4, <2>1, Moves
<1>6. ASSUME NEW c \in Conns, Hs(p)!StartClient(c) PROVE [Rallies!Next]_turns
  BY <1>0, <1>4, <1>5, <1>6 DEF Hs!StartClient, Moved
<1>7. ASSUME NEW c \in Conns, Hs(p)!ClientConnect(c) PROVE [Rallies!Next]_turns
  BY <1>0, <1>4, <1>5, <1>7 DEF Hs!ClientConnect, Moved
<1>8. ASSUME NEW c \in Conns, Hs(p)!HandshakeDone(c) PROVE [Rallies!Next]_turns
  BY <1>0, <1>4, <1>5, <1>8 DEF Hs!HandshakeDone, Moved
<1>9. ASSUME NEW c \in Conns, NEW n \in 0..s3[c], Hs(p)!HandshakeWaits(c, n) PROVE [Rallies!Next]_turns
  BY <1>0, <1>4, <1>5, <1>9 DEF Hs!HandshakeWaits, Moved
<1>10. ASSUME NEW c \in Conns, Hs(p)!HandshakeFails(c) PROVE [Rallies!Next]_turns
  BY <1>0, <1>4, <1>5, <1>10 DEF Hs!HandshakeFails, Hs!ClientClose, Moved
<1>11. ASSUME NEW c \in Conns, Hs(p)!ClientNext(c) PROVE [Rallies!Next]_turns
  BY <1>0, <1>4, <1>5, <1>11 DEF Hs!ClientNext, Moved
<1>12. ASSUME NEW c \in Conns, Hs(p)!ClientBlocked(c) PROVE [Rallies!Next]_turns
  BY <1>0, <1>4, <1>5, <1>12 DEF Hs!ClientBlocked, Moved
<1>13. ASSUME NEW c \in Conns, Hs(p)!ClientEnd(c) PROVE [Rallies!Next]_turns
  BY <1>0, <1>4, <1>5, <1>13 DEF Hs!ClientEnd, Hs!ClientClose, Moved
<1>14. ASSUME NEW c \in Conns, Hs(p)!Accept(c) PROVE [Rallies!Next]_turns
  BY <1>0, <1>4, <1>5, <1>14 DEF Hs!Accept, Moved
<1>15. ASSUME NEW c \in Conns, Hs(p)!ServerFlight(c) PROVE [Rallies!Next]_turns
  BY <1>0, <1>4, <1>5, <1>15 DEF Hs!ServerFlight, Moved
<1>16. ASSUME NEW c \in Conns, Hs(p)!ServerSecure(c) PROVE [Rallies!Next]_turns
  BY <1>0, <1>4, <1>5, <1>16 DEF Hs!ServerSecure, Moved
<1>17. ASSUME NEW c \in Conns, Hs(p)!ServerAnswer(c) PROVE [Rallies!Next]_turns
  BY <1>0, <1>4, <1>5, <1>17 DEF Hs!ServerAnswer, Moved
<1>18. ASSUME NEW c \in Conns, Hs(p)!ServerWriteFails(c) PROVE [Rallies!Next]_turns
  BY <1>0, <1>4, <1>5, <1>18 DEF Hs!ServerWriteFails, Hs!ServerClose, Moved
<1>19. ASSUME NEW c \in Conns, Hs(p)!ServerEnd(c) PROVE [Rallies!Next]_turns
  BY <1>0, <1>4, <1>5, <1>19 DEF Hs!ServerEnd, Hs!ServerClose, Moved
<1>20. ASSUME NEW c \in Conns, Hs(p)!Arrive(c) PROVE [Rallies!Next]_turns
  BY <1>0, <1>4, <1>5, <1>20 DEF Hs!Arrive, Moved
<1>21. CASE UNCHANGED Hs(p)!vars
  BY <1>21 DEF Hs!vars, turns, Hs!turn, Plain, Secure
<1> QED BY <1>6, <1>7, <1>8, <1>9, <1>10, <1>11, <1>12, <1>13, <1>14, <1>15, <1>16, <1>17, <1>18, <1>19, <1>20, <1>21 DEF Hs!Next, Hs!OnClient, Hs!OnServer, Hs!Deliver

-----------------------------------------------------------------------------
(* The run.                                                                *)

\* The inductive invariant of whichever server the behaviour is of.
IInv ==
  /\ \A p \in Plain : subject = p => Ht(p)!IInv
  /\ \A p \in Secure : subject = p => Hs(p)!IInv
  /\ \A p \in Bodies : subject = p => Bb(p)!IInv
  /\ \A p \in Raw : subject = p => Hl(p)!IInv

LEMMA Started == Init => IInv
<1> SUFFICES ASSUME Init PROVE IInv
  OBVIOUS
<1> USE DEF Init, Plain, Secure, Bodies, Raw
<1>1. ASSUME NEW p \in Plain, subject = p PROVE Ht(p)!IInv
  BY <1>1, LoadStart
<1>2. ASSUME NEW p \in Secure, subject = p PROVE Hs(p)!IInv
  BY <1>2, HttpsStart
<1>3. ASSUME NEW p \in Bodies, subject = p PROVE Bb(p)!IInv
  BY <1>3, BodyStart
<1>4. ASSUME NEW p \in Raw, subject = p PROVE Hl(p)!IInv
  BY <1>4, HelloStart
<1> QED BY <1>1, <1>2, <1>3, <1>4 DEF IInv

LEMMA Preserved == IInv /\ [Next]_all => IInv'
  BY Steps, LoadKeep, HttpsKeep, BodyKeep, HelloKeep DEF IInv

LEMMA Inductive == Spec => []IInv
  BY Started, Preserved, PTL DEF Spec

\* The variables of each server and its client stay in their types: no connection
\* is counted below zero, no more of a handshake arrives than was sent, and no
\* more answers are counted than are followed.
THEOREM Typed == Spec => []TypeOK
<1>1. IInv => TypeOK
  BY DEF IInv, TypeOK, Ht!IInv, Hs!IInv, Bb!IInv, Hl!IInv
<1> QED BY <1>1, Inductive, PTL

\* The figures of both ends are true for any number of connections: each counts
\* the sockets it has open, and the rates differ by what is on its way, whatever
\* is cut, refused or reset.
THEOREM FiguresHold == Spec => []Figures
<1>1. IInv => Figures
  BY DEF IInv, Figures, Ht!IInv, Hs!IInv, Bb!IInv
<1> QED BY <1>1, Inductive, PTL

\* hello-c.c handles an event on the connection it was reported for, however many
\* descriptors are closed and taken again within a batch.
THEOREM EventsMatched == Spec => []Matched
<1>1. IInv => Matched
  BY DEF IInv, Matched, Hl!IInv
<1> QED BY <1>1, Inductive, PTL

\* Each connection implements Rally: over http and over https, client and server
\* take turns, one question and one answer at a time.
THEOREM RalliesKept == Spec => TakesTurns
<1>1. Init => Rallies!Init
  <2> SUFFICES ASSUME Init PROVE turns = [c \in Conns |-> "off"]
    BY DEF Rallies!Init
  <2> USE DEF Init, Plain, Secure, Bodies, Raw, turns
  <2>1. CASE subject \in Plain
    BY <2>1 DEF Ht!Init, Ht!turn
  <2>2. CASE subject \in Secure
    BY <2>2 DEF Hs!Init, Hs!turn
  <2>3. CASE subject \notin Plain \cup Secure
    BY <2>3
  <2> QED BY <2>1, <2>2, <2>3
<1>2. IInv /\ IInv' /\ [Next]_all => [Rallies!Next]_turns
  <2> SUFFICES ASSUME IInv, IInv', [Next]_all PROVE [Rallies!Next]_turns
    OBVIOUS
  <2>1. CASE subject \in Plain
    BY <2>1, Steps, LoadTurns DEF IInv
  <2>2. CASE subject \in Secure
    BY <2>2, Steps, HttpsTurns DEF IInv
  <2>3. CASE subject \notin Plain \cup Secure
    BY <2>3, Steps DEF turns
  <2> QED BY <2>1, <2>2, <2>3
<1> QED BY <1>1, <1>2, Inductive, PTL DEF Spec, TakesTurns, Rallies!Spec

=============================================================================
