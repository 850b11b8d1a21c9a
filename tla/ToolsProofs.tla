----------------------------- MODULE ToolsProofs -----------------------------
(***************************************************************************)
(* What the sequential programs of MCTools keep: the walks for every tree, *)
(* number of buffers and size of them, the digests for every number of     *)
(* rounds, the meters for whatever the threads of the process use.         *)
(***************************************************************************)
EXTENDS MCTools, Sequences, FiniteSets, SequenceTheorems, WellFoundedInduction, TLAPS

-----------------------------------------------------------------------------
(* A step of the run is a step of its subject.                             *)

LEMMA Steps ==
  ASSUME [Next]_all
  PROVE  /\ subject' = subject
         /\ subject = "walk" => [Wa!Next]_(Wa!vars)
         /\ subject = "digests" => [Di!Next]_(Di!vars)
         /\ \A p \in Meters : subject = p => [Me(p)!Next]_(Me(p)!vars)
         /\ subject = "utf8" => Ut!Next \/ UNCHANGED <<s1, s2>>
         /\ subject = "sha1" => Sh!Next \/ UNCHANGED s1
         /\ subject = "frame" => UNCHANGED <<s1, s2, s3>>
<1> USE DEF Meters, Rest2, Rest3, Rest4, Rest5, Rest6, Rest7, Rest8, Rest9,
     Rest10, Rest11, Rest12, Rest13
<1>1. CASE WaStep
  BY <1>1 DEF WaStep
<1>2. CASE DiStep
  BY <1>2 DEF DiStep
<1>3. CASE MeStep
  BY <1>3 DEF MeStep
<1>4. CASE PaStep \/ TeStep
  BY <1>4 DEF PaStep, TeStep
<1>5. CASE UtStep \/ ShStep
  BY <1>5 DEF UtStep, ShStep
<1>6. CASE FrStep
  BY <1>6 DEF FrStep, Fr!Next
<1>7. CASE UNCHANGED all
  BY <1>7 DEF all, Wa!vars, Di!vars, Me!vars
<1> QED BY <1>1, <1>2, <1>3, <1>4, <1>5, <1>6, <1>7 DEF Next

-----------------------------------------------------------------------------
(* lib/bench.mjs and fs/lib/bench.mjs.                                     *)

LEMMA MeterStart == ASSUME NEW p \in Meters, Me(p)!Init PROVE Me(p)!IInv
<1> USE DEF Me!Timers
<1>1. /\ s1 \in 0..1 /\ s2 \in 0..s1 /\ s3 \in s2..s1 /\ s4 = "none" /\ s5 = "none" /\ s7 = 0
      /\ s6 = [m \in {"bench", "measure"} |-> -1] /\ s9 = 0 /\ s10 = s3 - s2
  BY DEF Me!Init
<1>2. s8 = [m \in {"bench", "measure"} |-> TRUE] /\ s11 = Me(p)!NoReport
  BY Zenon DEF Me!Init
<1>3. /\ s8 \in [{"bench", "measure"} -> BOOLEAN] /\ s8["bench"] /\ s8["measure"]
  BY <1>2, Zenon
<1>4. s11.by = "none" /\ s11.used = 0 /\ s11.own = 0 /\ s11.of = 0 /\ s11.whole = 0
  BY <1>2 DEF Me!NoReport
<1>5. Me(p)!Typed
  <2>1. s11 \in [by: Me(p)!Callers, used: Nat, own: Int, of: Int, whole: Int, taken: BOOLEAN]
    BY <1>2 DEF Me!NoReport, Me!Callers
  <2> QED BY <1>1, <1>3, <2>1 DEF Me!Typed, Me!Reading, Me!Callers
<1>6. Me(p)!Begun
  BY <1>1, <1>3 DEF Me!Begun, Me!Reading
<1>7. Me(p)!Called /\ Me(p)!Inside
  BY <1>1 DEF Me!Called, Me!Inside
<1>8. Me(p)!Metered
  BY <1>4 DEF Me!Metered, Me!Covers, Me!OwnTime, Me!Shares
<1> QED BY <1>5, <1>6, <1>7, <1>8 DEF Me!IInv

LEMMA EmptyReport ==
  ASSUME NEW p \in Meters
  PROVE  /\ Me(p)!NoReport \in [by: Me(p)!Callers, used: Nat, own: Int, of: Int, whole: Int, taken: BOOLEAN]
         /\ Me(p)!NoReport.by = "none"
BY DEF Me!NoReport, Me!Callers, Me!Timers

\* The processor time of a report, where a call of cputime of its own measures it.
LEMMA MeterKeep ==
  ASSUME NEW p \in Meters, Me(p)!IInv, [Me(p)!Next]_(Me(p)!vars)
  PROVE  Me(p)!IInv'
<1> USE DEF Me!Timers, Me!Reading, Me!Callers
<1>1. /\ Me(p)!Typed /\ Me(p)!Begun /\ Me(p)!Called /\ Me(p)!Inside /\ Me(p)!Metered
      /\ s1 \in Nat /\ s2 \in Nat /\ s3 \in Nat /\ s7 \in Nat /\ s9 \in Nat /\ s10 \in Nat
      /\ s2 <= s1 /\ s3 <= s1 /\ s7 <= s1
      /\ s6 \in [{"bench", "measure"} -> Nat \cup {-1}]
      /\ s11 \in [by: Me(p)!Callers, used: Nat, own: Int, of: Int, whole: Int, taken: BOOLEAN]
  BY DEF Me!IInv, Me!Typed
<1>2. CASE Me(p)!Work
  <2>1. s1' = s1 + 1 /\ UNCHANGED <<s2, s3, s4, s5, s6, s7, s8, s9, s11>>
        /\ s10' = IF s5 \in {"elapsed", "last"} THEN s10 + 1 ELSE s10
    BY <1>2 DEF Me!Work
  <2>2. Me(p)!Typed'
    BY <1>1, <2>1 DEF Me!Typed
  <2>3. Me(p)!Begun'
    BY <1>1, <2>1 DEF Me!Begun, Me!Typed
  <2>4. Me(p)!Called'
    BY <1>1, <2>1 DEF Me!Called, Me!Typed, Me!Begun
  <2>5. Me(p)!Inside'
    BY <1>1, <2>1 DEF Me!Inside, Me!Typed
  <2>6. Me(p)!Metered'
    BY <1>1, <2>1 DEF Me!Metered, Me!Covers, Me!OwnTime, Me!Shares, Me!Typed
  <2> QED BY <2>2, <2>3, <2>4, <2>5, <2>6 DEF Me!IInv
<1>3. CASE Me(p)!Stat
  <2>1. /\ s5 = "stat" /\ s5' = IF OfFiles(p) THEN "elapsed" ELSE "return"
        /\ s2' = s1 /\ s9' = s10 /\ s10' = 0 /\ UNCHANGED <<s1, s3, s4, s6, s7>>
    BY <1>3 DEF Me!Stat
  <2>2. /\ s8' = [m \in {"bench", "measure"} |-> TRUE]
        /\ s11' = [Me(p)!NoReport EXCEPT !.used = s1 - s2, !.own = s11.own,
                                         !.taken = s4 \in {"bench", "measure"} => s8[s4]]
    BY <1>3, Zenon DEF Me!Stat
  <2>3. /\ s11'.by = "none" /\ s11'.used = s1 - s2 /\ s11'.own = s11.own /\ s11'.of = 0
        /\ s11'.whole = 0
    BY <2>2 DEF Me!NoReport
  <2>4. /\ s11'.taken \in BOOLEAN /\ s8'["bench"] /\ s8'["measure"]
        /\ s8' \in [{"bench", "measure"} -> BOOLEAN]
        /\ s4 \in {"bench", "measure"} /\ ~s11'.taken => ~s8[s4]
    <3>1. s11'.taken = (s4 \in {"bench", "measure"} => s8[s4])
      BY <2>2, Zenon DEF Me!NoReport
    <3> QED BY <2>2, <3>1, Zenon
  <2>5. Me(p)!Typed'
    <3>1. PICK b \in BOOLEAN : s11' = [Me(p)!NoReport EXCEPT !.used = s1 - s2, !.own = s11.own, !.taken = b]
      BY <2>2, Zenon
    <3>2. s1 - s2 \in Nat /\ s11.own \in Int
      BY <1>1
    <3>3. s11' \in [by: Me(p)!Callers, used: Nat, own: Int, of: Int, whole: Int, taken: BOOLEAN]
      BY <3>1, <3>2, EmptyReport
    <3> QED BY <1>1, <2>1, <2>4, <3>3 DEF Me!Typed
  <2>6. Me(p)!Begun'
    BY <1>1, <2>1, <2>4 DEF Me!Begun, Me!Typed
  <2>7. Me(p)!Called'
    <3>1. s4 \in {"bench", "measure"} => s11.own <= s1 - s6[s4] /\ s6[s4] \in Nat \cup {-1}
      BY <1>1, <2>1 DEF Me!Called, Me!Typed
    <3>2. s4 \in {"bench", "measure"} /\ ~s8[s4] => s2 <= s6[s4] /\ s6[s4] <= s1
      BY <1>1 DEF Me!Begun
    <3>3. s4 = "measure" /\ ~s8["measure"] => s7 <= s2
      BY <1>1 DEF Me!Begun
    <3>4. s11.own \in Int
      BY <1>1 DEF Me!Typed
    <3> QED BY <1>1, <2>1, <2>3, <2>4, <3>1, <3>2, <3>3, <3>4 DEF Me!Called
  <2>8. Me(p)!Inside'
    BY <1>1, <2>1, <2>3 DEF Me!Inside
  <2>9. Me(p)!Metered'
    BY <2>3 DEF Me!Metered, Me!Covers, Me!OwnTime, Me!Shares
  <2> QED BY <2>5, <2>6, <2>7, <2>8, <2>9 DEF Me!IInv
<1>4. CASE Me(p)!Elapsed
  <2>1. /\ s5 = "elapsed" /\ s5' = "last" /\ UNCHANGED <<s1, s2, s3, s4, s6, s7, s8, s9, s10>>
        /\ s11' = [s11 EXCEPT !.of = s1 - s3]
    BY <1>4 DEF Me!Elapsed
  <2>2. /\ s11'.by = s11.by /\ s11'.used = s11.used /\ s11'.own = s11.own
        /\ s11'.of = s1 - s3 /\ s11'.whole = s11.whole /\ s11'.taken = s11.taken
        /\ s11' \in [by: Me(p)!Callers, used: Nat, own: Int, of: Int, whole: Int, taken: BOOLEAN]
    BY <1>1, <2>1
  <2>3. Me(p)!Typed'
    BY <1>1, <2>1, <2>2 DEF Me!Typed
  <2>4. Me(p)!Begun'
    BY <1>1, <2>1 DEF Me!Begun
  <2>5. Me(p)!Called'
    BY <1>1, <2>1, <2>2 DEF Me!Called
  <2>6. Me(p)!Inside'
    BY <1>1, <2>1, <2>2 DEF Me!Inside
  <2>7. Me(p)!Metered'
    BY <1>1, <2>1, <2>2 DEF Me!Metered, Me!Covers, Me!OwnTime, Me!Shares, Me!Inside
  <2> QED BY <2>3, <2>4, <2>5, <2>6, <2>7 DEF Me!IInv
<1>5. CASE Me(p)!LastTime
  <2>1. /\ s5 = "last" /\ s5' = "return" /\ s3' = s1
        /\ UNCHANGED <<s1, s2, s4, s6, s7, s8, s9, s10, s11>>
    BY <1>5 DEF Me!LastTime
  <2>2. Me(p)!Typed'
    BY <1>1, <2>1 DEF Me!Typed
  <2>3. Me(p)!Begun'
    BY <1>1, <2>1 DEF Me!Begun
  <2>4. Me(p)!Called'
    BY <1>1, <2>1 DEF Me!Called
  <2>5. Me(p)!Inside'
    BY <1>1, <2>1 DEF Me!Inside
  <2>6. Me(p)!Metered'
    BY <1>1, <2>1 DEF Me!Metered, Me!Covers, Me!OwnTime, Me!Shares
  <2> QED BY <2>2, <2>3, <2>4, <2>5, <2>6 DEF Me!IInv
<1>6. CASE Me(p)!BenchStart
  <2>1. /\ s4 = "none" /\ s6' = [s6 EXCEPT !["bench"] = s1]
        /\ UNCHANGED <<s1, s2, s3, s4, s5, s7, s9, s10, s11>>
    BY <1>6 DEF Me!BenchStart
  <2>2. s8' = [s8 EXCEPT !["bench"] = FALSE] /\ s8 \in [{"bench", "measure"} -> BOOLEAN]
    BY <1>1, <1>6, Zenon DEF Me!BenchStart, Me!Typed
  <2>3. /\ s8' \in [{"bench", "measure"} -> BOOLEAN]
        /\ s8'["measure"] = s8["measure"]
    BY <2>2
  <2>4. Me(p)!Typed'
    BY <1>1, <2>1, <2>3 DEF Me!Typed
  <2>5. Me(p)!Begun'
    <3>1. /\ ~s8'["bench"] => s2' <= s6'["bench"] /\ s6'["bench"] <= s1'
          /\ ~s8'["measure"] => s2' <= s6'["measure"] /\ s6'["measure"] <= s1'
      BY <1>1, <2>1, <2>3 DEF Me!Begun
    <3> QED BY <1>1, <2>1, <2>3, <3>1 DEF Me!Begun
  <2>6. Me(p)!Called' /\ Me(p)!Inside'
    BY <1>1, <2>1 DEF Me!Called, Me!Inside
  <2>7. Me(p)!Metered'
    BY <1>1, <2>1 DEF Me!Metered, Me!Covers, Me!OwnTime, Me!Shares
  <2> QED BY <2>4, <2>5, <2>6, <2>7 DEF Me!IInv
<1>7. CASE Me(p)!MeasureStart \/ Me(p)!StatsLog
  <2>1. /\ s4 = "none" /\ s5' = "stat" /\ UNCHANGED <<s1, s2, s3, s6, s8, s9, s10, s11>>
        /\ \/ s4' = "start" /\ s7' = s1
           \/ s4' = "stats" /\ s7' = s7
    BY <1>7 DEF Me!MeasureStart, Me!Start, Me!StatsLog
  <2>2. Me(p)!Typed'
    BY <1>1, <2>1 DEF Me!Typed
  <2>3. Me(p)!Begun'
    BY <1>1, <2>1 DEF Me!Begun
  <2>4. Me(p)!Called' /\ Me(p)!Inside'
    BY <1>1, <2>1 DEF Me!Called, Me!Inside, Me!Typed
  <2>5. Me(p)!Metered'
    BY <1>1, <2>1 DEF Me!Metered, Me!Covers, Me!OwnTime, Me!Shares
  <2> QED BY <2>2, <2>3, <2>4, <2>5 DEF Me!IInv
<1>8. ASSUME NEW m \in {"bench", "measure"}, Me(p)!End(m)
      PROVE  Me(p)!IInv'
  <2>1. /\ s4 = "none" /\ s6[m] # -1 /\ s4' = m /\ s5' = "stat"
        /\ UNCHANGED <<s1, s2, s3, s6, s7, s8, s9, s10>>
        /\ s11' = [Me(p)!NoReport EXCEPT !.own = s1 - s6[m]]
    BY <1>8 DEF Me!End
  <2>2. /\ s11'.by = "none" /\ s11'.own = s1 - s6[m]
        /\ s11' \in [by: Me(p)!Callers, used: Nat, own: Int, of: Int, whole: Int, taken: BOOLEAN]
    BY <1>1, <2>1, EmptyReport
  <2>3. Me(p)!Typed'
    BY <1>1, <2>1, <2>2 DEF Me!Typed
  <2>4. Me(p)!Begun'
    BY <1>1, <2>1 DEF Me!Begun
  <2>5. Me(p)!Called' /\ Me(p)!Inside'
    BY <1>1, <2>1, <2>2 DEF Me!Called, Me!Inside, Me!Typed
  <2>6. Me(p)!Metered'
    BY <2>2 DEF Me!Metered, Me!Covers, Me!OwnTime, Me!Shares
  <2> QED BY <2>3, <2>4, <2>5, <2>6 DEF Me!IInv
<1>9. CASE Me(p)!Return
  <2>1. /\ s5 = "return" /\ UNCHANGED <<s1, s2, s3, s9, s10>>
        /\ s11' = [s11 EXCEPT !.by = s4, !.whole = s1 - s7]
        /\ IF s4 = "measure" THEN s4' = "start" /\ s5' = "stat" /\ s7' = s1
           ELSE s4' = "none" /\ s5' = "none" /\ s7' = s7
        /\ s6' = IF s4 = "start" THEN [s6 EXCEPT !["measure"] = s1] ELSE s6
    BY <1>9 DEF Me!Return, Me!Start
  <2>2. /\ s8' = IF s4 = "start" THEN [s8 EXCEPT !["measure"] = FALSE] ELSE s8
        /\ s8 \in [{"bench", "measure"} -> BOOLEAN]
    BY <1>1, <1>9, Zenon DEF Me!Return, Me!Typed
  <2>3. /\ s8' \in [{"bench", "measure"} -> BOOLEAN] /\ s8'["bench"] = s8["bench"]
        /\ s4 # "start" => s8' = s8
    BY <2>2
  <2>4. /\ s11'.by = s4 /\ s11'.used = s11.used /\ s11'.own = s11.own
        /\ s11'.of = s11.of /\ s11'.whole = s1 - s7 /\ s11'.taken = s11.taken
        /\ s11' \in [by: Me(p)!Callers, used: Nat, own: Int, of: Int, whole: Int, taken: BOOLEAN]
    <3>1. s4 \in Me(p)!Callers /\ s1 - s7 \in Int
      BY <1>1 DEF Me!Typed
    <3> QED BY <1>1, <2>1, <3>1
  <2>5. Me(p)!Typed'
    BY <1>1, <2>1, <2>3, <2>4 DEF Me!Typed
  <2>6. Me(p)!Begun'
    <3>1. ~s8'["bench"] => s2' <= s6'["bench"] /\ s6'["bench"] <= s1'
      BY <1>1, <2>1, <2>3 DEF Me!Begun
    <3>2. ~s8'["measure"] => s2' <= s6'["measure"] /\ s6'["measure"] <= s1'
      BY <1>1, <2>1, <2>3 DEF Me!Begun
    <3>3. ~s8'["measure"] /\ s4' # "start" => s7' <= s2'
      BY <1>1, <2>1, <2>3 DEF Me!Begun
    <3> QED BY <1>1, <2>1, <3>1, <3>2, <3>3 DEF Me!Begun
  <2>7. Me(p)!Called' /\ Me(p)!Inside'
    BY <1>1, <2>1 DEF Me!Called, Me!Inside, Me!Typed
  <2>8. Me(p)!Metered'
    BY <1>1, <2>1, <2>4 DEF Me!Metered, Me!Covers, Me!OwnTime, Me!Shares, Me!Called, Me!Inside
  <2> QED BY <2>5, <2>6, <2>7, <2>8 DEF Me!IInv
<1>10. CASE UNCHANGED Me(p)!vars
  BY <1>1, <1>10 DEF Me!vars, Me!IInv, Me!Typed, Me!Begun, Me!Called, Me!Inside, Me!Metered,
     Me!Covers, Me!OwnTime, Me!Shares
<1> QED BY <1>2, <1>3, <1>4, <1>5, <1>6, <1>7, <1>8, <1>9, <1>10 DEF Me!Next

-----------------------------------------------------------------------------
(* The hash programs.                                                      *)

\* Every block of every program has an algorithm.
LEMMA Algorithms ==
  ASSUME Di!Typed
  PROVE  Di!Alg \in Di!Algorithm /\ Len(Di!List) \in Nat
<1> USE DEF Di!Alg, Di!List, Di!Algorithm, Di!Blocks, Di!LoLo, Di!Mbedtls, Di!C, Di!NodeMjs
<1>1. s1 \in {"lolo", "mbedtls", "c", "node"} /\ s3 \in 1..Len(Di!List)
  BY DEF Di!Typed
<1>2. CASE s1 = "lolo"
  BY <1>1, <1>2
<1>3. CASE s1 = "mbedtls"
  BY <1>1, <1>3
<1>4. CASE s1 = "c"
  BY <1>1, <1>4
<1>5. CASE s1 = "node"
  BY <1>1, <1>5
<1> QED BY <1>1, <1>2, <1>3, <1>4, <1>5

LEMMA DigestsStart == ASSUME Di!Init PROVE Di!IInv
<1>1. Di!Typed /\ Di!Kept
  <2>1. s1 \in {"lolo", "mbedtls", "c", "node"} /\ s3 = 1
    BY DEF Di!Init, Di!Blocks
  <2>2. 1 \in 1..Len(Di!List)
    <3> USE DEF Di!List, Di!Blocks, Di!LoLo, Di!Mbedtls, Di!C, Di!NodeMjs
    <3>1. CASE s1 = "lolo"
      BY <3>1
    <3>2. CASE s1 = "mbedtls"
      BY <3>2
    <3>3. CASE s1 = "c"
      BY <3>3
    <3>4. CASE s1 = "node"
      BY <3>4
    <3> QED BY <2>1, <3>1, <3>2, <3>3, <3>4
  <2> QED BY <2>1, <2>2, Assumptions DEF Di!Init, Di!Typed, Di!Kept, Di!DigestsAssumption
<1> QED BY <1>1 DEF Di!Init, Di!IInv, Di!Absorbed, Di!Counting, Di!OwnDigest

LEMMA DigestsKeep ==
  ASSUME Di!IInv, [Di!Next]_(Di!vars)
  PROVE  Di!IInv'
<1> DEFINE alg == Di!Alg
<1>1. /\ Di!Typed /\ Di!Kept /\ Di!Absorbed /\ Di!Counting /\ Di!OwnDigest
      /\ alg \in Di!Algorithm /\ Len(Di!List) \in Nat
      /\ Runs \in Nat \ {0} /\ Total \in Nat \ {0} /\ Iter \in Nat \ {0}
  BY Algorithms, Assumptions DEF Di!IInv, Di!DigestsAssumption
<1>2. s1' = s1 => Di!List' = Di!List
  BY DEF Di!List, Di!Blocks, Di!LoLo, Di!Mbedtls, Di!C, Di!NodeMjs
<1>3. s1' = s1 /\ s3' = s3 => Di!Alg' = alg
  BY DEF Di!List, Di!Alg, Di!Blocks, Di!LoLo, Di!Mbedtls, Di!C, Di!NodeMjs
<1>4. \A f \in [Di!Algorithm -> Int], n \in Int :
        /\ [f EXCEPT ![alg] = n] \in [Di!Algorithm -> Int]
        /\ [f EXCEPT ![alg] = n][alg] = n
        /\ \A b \in Di!Algorithm : b # alg => [f EXCEPT ![alg] = n][b] = f[b]
  BY <1>1
<1> HIDE DEF alg
<1>5. ASSUME Di!DigestInit \/ Di!Update, s8[alg] # -1
      PROVE  Di!IInv'
  <2>1. /\ UNCHANGED <<s1, s2, s3, s4, s5, s6, s9, s10>>
        /\ \/ s7 = "init" /\ s7' = "update" /\ s8' = [s8 EXCEPT ![alg] = 0]
           \/ s7 = "update" /\ s7' = "final" /\ s8' = [s8 EXCEPT ![alg] = s8[alg] + 1]
        /\ s2 # "start" /\ ~(s2 = "hash" /\ s5 = Runs)
    BY <1>1, <1>5 DEF Di!DigestInit, Di!Update, Di!Hashing, alg
  <2>2. s8 \in [Di!Algorithm -> Int] /\ s8[alg] \in Int
    BY <1>1 DEF Di!Typed
  <2>3. /\ s8' \in [Di!Algorithm -> Int] /\ s8'[alg] \in {0, s8[alg] + 1}
        /\ \A b \in Di!Algorithm : b # alg => s8'[b] = s8[b]
        /\ s7' = "update" => s8'[alg] = 0
        /\ s7' = "final" => s8'[alg] = 1
    BY <1>1, <1>4, <2>1, <2>2 DEF Di!Absorbed, alg
  <2>4. Di!Typed'
    BY <1>1, <1>2, <2>1, <2>3 DEF Di!Typed
  <2>5. Di!Absorbed'
    BY <1>1, <1>3, <2>1, <2>3 DEF Di!Absorbed
  <2>6. s7' = "update" \/ s7' = "final"
    BY <2>1
  <2>7. s8'[alg] # -1
    BY <2>3, <2>6
  <2>8. Di!Kept'
    BY <1>1, <2>1, <2>3, <2>7 DEF Di!Kept
  <2>9. Di!Counting' /\ Di!OwnDigest'
    BY <1>1, <2>1 DEF Di!Counting, Di!OwnDigest
  <2> QED BY <2>4, <2>5, <2>8, <2>9 DEF Di!IInv
<1>6. CASE Di!DigestInit \/ Di!Update
  <2>1. s8[alg] # -1
    BY <1>1, <1>6 DEF Di!DigestInit, Di!Update, Di!Hashing, Di!Kept
  <2> QED BY <1>5, <1>6, <2>1
<1>7. CASE Di!Final
  <2>1. /\ s2 \in {"check", "hash"} /\ s7 = "final" /\ s7' = "init"
        /\ s9' = s8[alg] /\ s10' = s10 + 1 /\ UNCHANGED <<s1, s4, s6>>
        /\ s8' = s8 \/ s8' = [s8 EXCEPT ![alg] = 0]
    BY <1>7 DEF Di!Final, Di!Hashing, alg
  <2>2. s9' = 1
    BY <1>1, <2>1 DEF Di!Absorbed, alg
  <2>3. /\ s8' \in [Di!Algorithm -> Int]
        /\ \A b \in Di!Algorithm : s8'[b] # -1
    BY <1>1, <1>4, <2>1 DEF Di!Typed, Di!Kept
  <2>4. \/ s2 = "hash" /\ s5 < Runs /\ s5' = s5 + 1 /\ s2' = s2 /\ s3' = s3
        \/ s2 = "check" /\ s5' = s5 /\ s3 < Len(Di!List) /\ s3' = s3 + 1 /\ s2' = s2
        \/ s2 = "check" /\ s5' = s5 /\ s3' = 1 /\ s2' = "start"
    BY <1>1, <1>7, <2>1, <2>2 DEF Di!Final, Di!Hashing
  <2>5. s5' \in 0..Runs /\ s3' \in 1..Len(Di!List)
    BY <1>1, <2>4 DEF Di!Typed
  <2>6. Di!Typed' /\ Di!Kept'
    BY <1>1, <1>2, <2>1, <2>3, <2>4, <2>5 DEF Di!Typed, Di!Kept
  <2>7. Di!Counting'
    BY <1>1, <2>1, <2>4 DEF Di!Counting
  <2> QED BY <2>1, <2>2, <2>6, <2>7 DEF Di!IInv, Di!Absorbed, Di!OwnDigest
<1>8. CASE Di!Fail
  <2>1. s2' = "failed" /\ UNCHANGED <<s1, s3, s4, s5, s6, s7, s8, s9, s10>> /\ s2 # "done"
    BY <1>8 DEF Di!Fail, Di!Hashing
  <2> QED BY <1>1, <1>2, <1>3, <2>1
      DEF Di!IInv, Di!Typed, Di!Kept, Di!Absorbed, Di!Counting, Di!OwnDigest, alg
<1>9. CASE Di!Start
  <2>1. /\ s2 = "start" /\ s2' = "hash" /\ s5' = 0 /\ s10' = 0
        /\ UNCHANGED <<s1, s3, s4, s6, s7, s8, s9>>
    BY <1>9 DEF Di!Start
  <2>2. Di!Typed' /\ Di!Kept'
    BY <1>1, <1>2, <2>1 DEF Di!Typed, Di!Kept
  <2>3. Di!Absorbed'
    BY <1>1, <2>1 DEF Di!Absorbed
  <2> QED BY <1>1, <2>1, <2>2, <2>3 DEF Di!IInv, Di!Counting, Di!OwnDigest
<1>10. CASE Di!End
  <2>1. s2 = "hash" /\ s5 = Runs /\ s7 = "init" /\ UNCHANGED <<s1, s5, s7, s9, s10>>
    BY <1>1, <1>10 DEF Di!End, Di!Absorbed
  <2>2. \/ s2' = "start" /\ s3' = s3 /\ s4' = s4 + 1 /\ s6' = s6 /\ s8' = s8
        \/ /\ s2' = "start" /\ s3 < Len(Di!List) /\ s3' = s3 + 1 /\ s4' = 0
           /\ s6' = s6 /\ s8' = s8
        \/ s2' = "start" /\ s3' = 1 /\ s4' = 0 /\ s6' = s6 - 1 /\ s6' # 0 /\ s8' = s8
        \/ s2' = "done" /\ s3' = 1 /\ s4' = 0 /\ s6' = 0 /\ s8' = Di!Freed
    BY <1>10 DEF Di!End
  <2>3. s6 \in Nat \ {0} /\ s4 \in Nat /\ s6 - 1 \in Nat
    BY <1>1, <2>1 DEF Di!Typed
  <2>4. s8' \in [Di!Algorithm -> Int]
    <3>1. s8 \in [Di!Algorithm -> Int]
      BY <1>1 DEF Di!Typed
    <3>2. Di!Freed \in [Di!Algorithm -> Int]
      BY <3>1 DEF Di!Freed
    <3> QED BY <2>2, <3>1, <3>2
  <2>5. s3' \in 1..Len(Di!List)
    BY <1>1, <2>2 DEF Di!Typed
  <2>6. s4' \in Nat /\ s6' \in Nat /\ (s6' = 0 <=> s2' = "done")
    BY <2>2, <2>3
  <2>7. Di!Typed'
    BY <1>1, <1>2, <2>1, <2>2, <2>4, <2>5, <2>6 DEF Di!Typed
  <2>8. Di!Kept'
    BY <1>1, <2>1, <2>2 DEF Di!Kept
  <2>9. Di!Absorbed' /\ Di!Counting' /\ Di!OwnDigest'
    BY <1>1, <2>1, <2>2 DEF Di!Absorbed, Di!Counting, Di!OwnDigest
  <2> QED BY <2>7, <2>8, <2>9 DEF Di!IInv
<1>11. CASE UNCHANGED Di!vars
  BY <1>1, <1>2, <1>3, <1>11
     DEF Di!vars, Di!IInv, Di!Typed, Di!Kept, Di!Absorbed, Di!Counting, Di!OwnDigest, alg
<1> QED BY <1>6, <1>7, <1>8, <1>9, <1>10, <1>11 DEF Di!Next

-----------------------------------------------------------------------------
(* The walks.  s2 and s3 are the parents and kinds of the tree, s4 the     *)
(* directory to open now, s5 the buffers, s7 the path, s8 what was found,  *)
(* s9 the open directories and s10 the phase.                              *)

\* A set of numbers that has a member has a least one.
LEMMA Least ==
  ASSUME NEW T \in SUBSET Nat, T # {}
  PROVE  \E x \in T : \A y \in T : x <= y
<1>1. IsWellFoundedOn(OpToRel(<, Nat), Nat)
  BY NatLessThanWellFounded, Zenon
<1>2. PICK x \in T : \A y \in T : ~(<<y, x>> \in OpToRel(<, Nat))
  BY <1>1, WFMin, Zenon
<1>3. ASSUME NEW y \in T PROVE x <= y
  <2>1. y \in Nat /\ x \in Nat
    OBVIOUS
  <2>2. ~(y < x)
    BY <1>2, <2>1 DEF OpToRel
  <2> QED BY <2>1, <2>2
<1> QED BY <1>3

LEMMA Appended ==
  ASSUME NEW S, NEW q \in Seq(S), NEW e \in S
  PROVE  /\ Append(q, e) \in Seq(S) /\ Append(q, e) # <<>>
         /\ Len(q) \in Nat /\ Len(Append(q, e)) = Len(q) + 1
         /\ \A i \in 1..Len(q) : Append(q, e)[i] = q[i]
         /\ Append(q, e)[Len(q) + 1] = e
         /\ Wa!ToSet(Append(q, e)) = Wa!ToSet(q) \cup {e}
<1>1. /\ Append(q, e) \in Seq(S) /\ Append(q, e) # <<>>
      /\ Len(q) \in Nat /\ Len(Append(q, e)) = Len(q) + 1
      /\ \A i \in 1..Len(q) : Append(q, e)[i] = q[i]
      /\ Append(q, e)[Len(q) + 1] = e
  OBVIOUS
<1> DEFINE r == Append(q, e)
<1> HIDE DEF r
<1>2. Wa!ToSet(r) = Wa!ToSet(q) \cup {e}
  <2>1. DOMAIN q = 1..Len(q) /\ DOMAIN r = 1..(Len(q) + 1)
    BY <1>1 DEF r
  <2>2. /\ \A i \in 1..Len(q) : r[i] = q[i]
        /\ r[Len(q) + 1] = e
    BY <1>1 DEF r
  <2>3. \A i \in DOMAIN r : i \in DOMAIN q \/ i = Len(q) + 1
    BY <1>1, <2>1
  <2>4. DOMAIN q \subseteq DOMAIN r /\ Len(q) + 1 \in DOMAIN r
    BY <1>1, <2>1
  <2> QED BY <2>1, <2>2, <2>3, <2>4 DEF Wa!ToSet
<1> QED BY <1>1, <1>2 DEF r

LEMMA Fronted ==
  ASSUME NEW S, NEW q \in Seq(S), q # <<>>,
         \A i, j \in 1..Len(q) : i # j => q[i] # q[j]
  PROVE  /\ Wa!Front(q) \in Seq(S)
         /\ Len(q) \in Nat \ {0} /\ Len(Wa!Front(q)) = Len(q) - 1
         /\ \A i \in 1..(Len(q) - 1) : Wa!Front(q)[i] = q[i]
         /\ Wa!ToSet(Wa!Front(q)) = Wa!ToSet(q) \ {Wa!Last(q)}
<1> DEFINE f == Wa!Front(q)
<1>1. /\ f \in Seq(S)
      /\ Len(q) \in Nat \ {0} /\ Len(f) = Len(q) - 1
      /\ \A i \in 1..(Len(q) - 1) : f[i] = q[i]
  BY DEF Wa!Front
<1>2. Wa!Last(q) = q[Len(q)]
  BY DEF Wa!Last
<1> HIDE DEF f
<1>3. Wa!ToSet(f) = Wa!ToSet(q) \ {Wa!Last(q)}
  <2>1. DOMAIN q = 1..Len(q) /\ DOMAIN f = 1..(Len(q) - 1)
    BY <1>1
  <2> QED BY <1>1, <1>2, <2>1 DEF Wa!ToSet
<1> QED BY <1>1, <1>3 DEF f

LEMMA Members ==
  ASSUME NEW S, NEW q \in Seq(S)
  PROVE  /\ Len(q) \in Nat
         /\ \A e : e \in Wa!ToSet(q) <=> \E i \in 1..Len(q) : q[i] = e
         /\ Wa!ToSet(q) \subseteq S
         /\ Len(q) = 0 <=> q = <<>>
BY DEF Wa!ToSet

LEMMA WalkStart == ASSUME Wa!Init PROVE Wa!IInv
<1>1. /\ Entries \in Nat /\ s4 = 0 /\ s7 = <<>> /\ s8 = <<>> /\ s9 = {} /\ s10 = "running"
      /\ s5 = [i \in 1..Entries + 1 |-> {}] /\ Wa!Tree
  BY Assumptions DEF Wa!Init, Wa!Tree, Wa!WalkAssumption
<1>2. Wa!ToSet(s7) = {} /\ Wa!ToSet(s8) = {} /\ Len(s7) = 0
  BY <1>1 DEF Wa!ToSet
<1>3. Wa!Opened = {}
  BY <1>1, <1>2 DEF Wa!Opened
<1>4. Wa!Typed
  BY <1>1 DEF Wa!Typed
<1>5. Wa!Chain /\ Wa!Following /\ Wa!Buffered
  BY <1>1, <1>2 DEF Wa!Chain, Wa!Following, Wa!Buffered, Wa!Tree
<1>6. Wa!FoundOnce /\ Wa!NoneLost
  BY <1>1, <1>2, <1>3 DEF Wa!FoundOnce, Wa!NoneLost, Wa!IsInjective
<1> QED BY <1>4, <1>5, <1>6 DEF Wa!IInv

\* What the invariant says of the tree, the path and what was found.
LEMMA WalkTypes ==
  ASSUME Wa!IInv
  PROVE  /\ Entries \in Nat
         /\ s2 \in [1..Entries -> 0..Entries]
         /\ s3 \in [0..Entries -> {"dir", "file", "other"}]
         /\ s4 \in 0..Entries + 1
         /\ s5 \in [1..Entries + 1 -> SUBSET (1..Entries)]
         /\ s7 \in Seq(0..Entries) /\ s8 \in Seq(1..Entries)
         /\ Wa!ToSet(s8) \subseteq 1..Entries
         /\ Len(s7) \in Nat /\ (Len(s7) = 0 <=> s7 = <<>>)
         /\ \A i \in 1..Len(s7) : s7[i] \in 0..Entries
<1>1. /\ Entries \in Nat
      /\ s2 \in [1..Entries -> 0..Entries]
      /\ s3 \in [0..Entries -> {"dir", "file", "other"}]
      /\ s4 \in 0..Entries + 1
      /\ s5 \in [1..Entries + 1 -> SUBSET (1..Entries)]
      /\ s7 \in Seq(0..Entries) /\ s8 \in Seq(1..Entries)
  BY Assumptions DEF Wa!WalkAssumption, Wa!IInv, Wa!Typed, Wa!Tree
<1>2. Wa!ToSet(s8) \subseteq 1..Entries
  BY <1>1, Members
<1>3. /\ Len(s7) \in Nat /\ (Len(s7) = 0 <=> s7 = <<>>)
      /\ \A i \in 1..Len(s7) : s7[i] \in 0..Entries
  BY <1>1
<1> QED BY <1>1, <1>2, <1>3

LEMMA SameTree ==
  ASSUME UNCHANGED Wa!tree
  PROVE  /\ Wa!Tree => Wa!Tree'
         /\ \A d : Wa!Wide(d)' = Wa!Wide(d)
BY DEF Wa!tree, Wa!Tree, Wa!Wide, Wa!Children

\* What the invariant says of the directories that are read.
LEMMA Rising ==
  ASSUME Wa!IInv
  PROVE  /\ \A i \in 1..Len(s7) : /\ i \in Nat \ {0} /\ i \in 1..Entries + 1
                                  /\ s7[i] \in 0..Entries /\ s7[i] \in Wa!Opened
                                  /\ s5[i] \subseteq 1..Entries
         /\ \A i, j \in 1..Len(s7) : i # j => s7[i] # s7[j]
         /\ \A i \in 1..Len(s7) : \A n \in s5[i] : s2[n] = s7[i] /\ n \notin Wa!ToSet(s8)
<1>1. \A i \in 1..Len(s7) : i - 1 <= s7[i] /\ s7[i] \in Wa!Opened
  BY DEF Wa!IInv, Wa!Chain
<1>2. ASSUME NEW i \in 1..Len(s7)
      PROVE  /\ i \in Nat \ {0} /\ i \in 1..Entries + 1
             /\ s7[i] \in 0..Entries /\ s7[i] \in Wa!Opened
  <2>1. i \in Nat \ {0} /\ s7[i] \in 0..Entries /\ i - 1 <= s7[i] /\ Entries \in Nat
    BY <1>1, WalkTypes
  <2>2. i \in 1..Entries + 1
    BY <2>1
  <2> QED BY <1>1, <2>1, <2>2
<1>3. \A i \in 1..Len(s7) : s5[i] \subseteq 1..Entries
  BY <1>2, WalkTypes
<1>4. \A i, j \in 1..Len(s7) : i < j => s7[i] < s7[j]
  BY DEF Wa!IInv, Wa!Chain
<1>5. ASSUME NEW i \in 1..Len(s7), NEW j \in 1..Len(s7), i # j
      PROVE  s7[i] # s7[j]
  <2>1. i < j \/ j < i
    BY <1>2, <1>5
  <2> QED BY <1>2, <1>4, <2>1
<1>6. \A i \in 1..Len(s7) : \A n \in s5[i] : s2[n] = s7[i] /\ n \notin Wa!ToSet(s8)
  BY DEF Wa!IInv, Wa!Buffered
<1> QED BY <1>2, <1>3, <1>5, <1>6

\* A record that is read is new, and of the innermost directory.
LEMMA EntryKeeps ==
  ASSUME Wa!IInv, Wa!Entry
  PROVE  Wa!IInv'
<1> DEFINE depth == Len(s7)
<1>1. PICK n \in s5[depth] :
        /\ s5' = [s5 EXCEPT ![depth] = @ \ {n}]
        /\ s8' = IF s3[n] = "other" THEN s8 ELSE Append(s8, n)
        /\ s4' = IF s3[n] = "dir" THEN n ELSE Entries + 1
  BY DEF Wa!Entry, Wa!Buffer, Wa!None
<1>2. /\ s10 = "running" /\ s4 = Entries + 1 /\ s7 # <<>>
      /\ UNCHANGED <<s1, s2, s3, s7, s9, s10>>
  BY DEF Wa!Entry, Wa!None, Wa!tree
<1>3. depth \in 1..Len(s7) /\ depth \in Nat
  BY <1>2, WalkTypes
<1>4. /\ depth \in 1..Entries + 1 /\ n \in 1..Entries
      /\ s2[n] = s7[depth] /\ n \notin Wa!ToSet(s8) /\ s7[depth] \in Wa!Opened
  BY <1>1, <1>3, Rising
<1>5. s3[n] \in {"dir", "file", "other"} /\ Entries \in Nat
  BY <1>4, WalkTypes
<1> HIDE DEF depth
<1>6. /\ s8' \in Seq(1..Entries)
      /\ Wa!ToSet(s8') = Wa!ToSet(s8) \cup (IF s3[n] = "other" THEN {} ELSE {n})
  <2>1. s8 \in Seq(1..Entries)
    BY WalkTypes
  <2>2. ASSUME s3[n] # "other"
        PROVE  s8' \in Seq(1..Entries) /\ Wa!ToSet(s8') = Wa!ToSet(s8) \cup {n}
    <3>1. s8' = Append(s8, n)
      BY <1>1, <2>2
    <3> DEFINE Numbers == 1..Entries
    <3>2. s8 \in Seq(Numbers) /\ n \in Numbers
      BY <1>4, <2>1
    <3> HIDE DEF Numbers
    <3>3. /\ Append(s8, n) \in Seq(Numbers)
          /\ Wa!ToSet(Append(s8, n)) = Wa!ToSet(s8) \cup {n}
      BY <3>2, Appended
    <3> QED BY <3>1, <3>3 DEF Numbers
  <2> QED BY <1>1, <2>1, <2>2
<1>7. Wa!Opened' = Wa!Opened
  <2>1. s4' = IF s3[n] = "dir" THEN n ELSE Entries + 1
    BY <1>1
  <2>2. n # 0 /\ Entries + 1 \notin Wa!ToSet(s8') \cup {0}
    BY <1>4, <1>5, <1>6, WalkTypes
  <2> QED BY <1>2, <1>4, <1>6, <2>1, <2>2 DEF Wa!Opened
<1>8. Wa!Typed'
  <2>1. s4' \in 0..Entries + 1
    BY <1>1, <1>4, <1>5
  <2>2. s5' \in [1..Entries + 1 -> SUBSET (1..Entries)]
    <3>1. s5 \in [1..Entries + 1 -> SUBSET (1..Entries)]
      BY WalkTypes
    <3>2. s5[depth] \ {n} \in SUBSET (1..Entries)
      BY <1>4, <3>1
    <3> QED BY <1>1, <3>1, <3>2
  <2>3. s7 \in Seq(0..Entries) /\ Wa!Tree
    BY DEF Wa!IInv, Wa!Typed
  <2> QED BY <1>2, <1>6, <2>1, <2>2, <2>3, SameTree DEF Wa!Typed, Wa!tree
<1>9. Wa!Chain'
  <2>1. s9 = Wa!ToSet(s7)
    BY <1>2 DEF Wa!IInv, Wa!Chain
  <2> QED BY <1>2, <1>7, <2>1 DEF Wa!IInv, Wa!Chain
<1>10. Wa!Following'
  BY <1>1, <1>2, <1>4, <1>5, <1>6 DEF Wa!Following, Wa!None, depth
<1>11. \A i \in 1..Len(s7) : /\ s5'[i] = IF i = depth THEN s5[i] \ {n} ELSE s5[i]
                             /\ i # depth => n \notin s5[i]
  <2> SUFFICES ASSUME NEW i \in 1..Len(s7)
               PROVE  /\ s5'[i] = IF i = depth THEN s5[i] \ {n} ELSE s5[i]
                      /\ i # depth => n \notin s5[i]
    OBVIOUS
  <2>1. i \in 1..Entries + 1 /\ s5 \in [1..Entries + 1 -> SUBSET (1..Entries)]
    BY Rising, WalkTypes
  <2>2. i # depth => s7[i] # s7[depth]
    BY <1>3, Rising
  <2>3. n \in s5[i] => s2[n] = s7[i]
    BY Rising
  <2> QED BY <1>1, <1>4, <2>1, <2>2, <2>3
<1>12. Wa!Buffered'
  <2>1. ASSUME NEW i \in 1..Len(s7), NEW m \in s5'[i]
        PROVE  s2[m] = s7[i] /\ m \notin Wa!ToSet(s8')
    <3>1. m \in s5[i] /\ m # n
      BY <1>11
    <3>2. s2[m] = s7[i] /\ m \notin Wa!ToSet(s8)
      BY <3>1, Rising
    <3> QED BY <1>6, <3>1, <3>2
  <2> QED BY <1>2, <2>1 DEF Wa!Buffered
<1>13. Wa!FoundOnce'
  <2>1. \A m \in Wa!ToSet(s8)' : s3'[m] # "other" /\ s2'[m] \in Wa!Opened'
    BY <1>2, <1>4, <1>6, <1>7 DEF Wa!IInv, Wa!FoundOnce
  <2>2. Wa!IsInjective(s8')
    <3>1. \A i, j \in 1..Len(s8) : s8[i] = s8[j] => i = j
      BY WalkTypes DEF Wa!IInv, Wa!FoundOnce, Wa!IsInjective
    <3>2. \A i \in 1..Len(s8) : s8[i] # n
      BY <1>4, Members, WalkTypes
    <3>3. CASE s3[n] = "other"
      BY <1>1, <3>3 DEF Wa!IInv, Wa!FoundOnce
    <3>4. CASE s3[n] # "other"
      <4>1. /\ s8' \in Seq(1..Entries) /\ Len(s8) \in Nat /\ Len(s8') = Len(s8) + 1
            /\ \A i \in 1..Len(s8) : s8'[i] = s8[i]
            /\ s8'[Len(s8) + 1] = n
        BY <1>1, <1>4, <3>4, Appended, WalkTypes
      <4>2. \A i, j \in 1..(Len(s8) + 1) : s8'[i] = s8'[j] => i = j
        BY <3>1, <3>2, <4>1
      <4> QED BY <4>1, <4>2 DEF Wa!IsInjective
    <3> QED BY <3>3, <3>4
  <2> QED BY <2>1, <2>2 DEF Wa!FoundOnce
<1>14. Wa!NoneLost'
  <2>1. SUFFICES ASSUME \A d \in 0..Entries : ~Wa!Wide(d),
                        NEW m \in 1..Entries, s2[m] \in Wa!Opened
                 PROVE  \/ s3[m] = "other" \/ m \in Wa!ToSet(s8')
                        \/ \E i \in 1..Len(s7) : s7[i] = s2[m] /\ m \in s5'[i]
    BY <1>2, <1>7, SameTree DEF Wa!NoneLost, Wa!tree
  <2>2. \/ s3[m] = "other" \/ m \in Wa!ToSet(s8)
        \/ \E i \in 1..Len(s7) : s7[i] = s2[m] /\ m \in s5[i]
    BY <1>2, <2>1 DEF Wa!IInv, Wa!NoneLost
  <2>3. CASE m = n
    BY <1>6, <2>3
  <2>4. CASE m # n
    BY <1>6, <1>11, <2>2, <2>4
  <2> QED BY <2>3, <2>4
<1> QED BY <1>8, <1>9, <1>10, <1>12, <1>13, <1>14 DEF Wa!IInv

\* The end of a directory: its buffer is empty.
LEMMA LeaveKeeps ==
  ASSUME Wa!IInv, Wa!Leave
  PROVE  Wa!IInv'
<1> DEFINE depth == Len(s7)
<1>1. /\ s10 = "running" /\ s4 = Entries + 1 /\ s7 # <<>> /\ s5[depth] = {}
      /\ UNCHANGED <<s1, s2, s3, s4, s5, s6, s8>>
  BY DEF Wa!Leave, Wa!None, Wa!tree, Wa!Buffer
<1>2. Wa!Opened' = Wa!Opened /\ Wa!Tree' /\ Wa!FoundOnce' /\ Wa!Following'
  BY <1>1 DEF Wa!IInv, Wa!Typed, Wa!Opened, Wa!Tree, Wa!FoundOnce, Wa!Following, Wa!None
<1>3. CASE depth \in s6
  <2>1. s10' = "failed" /\ UNCHANGED <<s7, s9>>
    BY <1>3 DEF Wa!Leave
  <2>2. Wa!Typed' /\ Wa!Chain'
    BY <1>1, <1>2, <2>1 DEF Wa!IInv, Wa!Typed, Wa!Chain
  <2>3. Wa!Buffered' /\ Wa!NoneLost'
    BY <1>1, <2>1 DEF Wa!IInv, Wa!Buffered, Wa!NoneLost
  <2> QED BY <1>2, <2>2, <2>3 DEF Wa!IInv
<1>4. CASE depth \notin s6
  <2>1. /\ s7' = Wa!Front(s7) /\ s9' = s9 \ {Wa!Last(s7)}
        /\ s10' = IF s7' = <<>> THEN "done" ELSE s10
    BY <1>4 DEF Wa!Leave
  <2>2. /\ s7' \in Seq(0..Entries)
        /\ depth \in Nat \ {0} /\ Len(s7') = depth - 1
        /\ \A i \in 1..(depth - 1) : s7'[i] = s7[i]
        /\ Wa!ToSet(s7') = Wa!ToSet(s7) \ {Wa!Last(s7)}
    <3>1. /\ s7 \in Seq(0..Entries)
          /\ \A i, j \in 1..Len(s7) : i # j => s7[i] # s7[j]
      BY Rising, WalkTypes
    <3>2. /\ Wa!Front(s7) \in Seq(0..Entries)
          /\ depth \in Nat \ {0} /\ Len(Wa!Front(s7)) = depth - 1
          /\ \A i \in 1..(depth - 1) : Wa!Front(s7)[i] = s7[i]
          /\ Wa!ToSet(Wa!Front(s7)) = Wa!ToSet(s7) \ {Wa!Last(s7)}
      BY <1>1, <3>1, Fronted
    <3> QED BY <2>1, <3>2
  <2> HIDE DEF depth
  <2>3. \A i \in 1..(depth - 1) : i \in 1..Len(s7) /\ s7'[i] = s7[i]
    BY <2>2 DEF depth
  <2>4. Wa!Typed'
    BY <1>1, <1>2, <2>1, <2>2 DEF Wa!IInv, Wa!Typed
  <2>5. Wa!Chain'
    <3>1. s9 = Wa!ToSet(s7)
      BY <1>1 DEF Wa!IInv, Wa!Chain
    <3>2. \A i \in 1..(depth - 1) : s7'[i] \in Wa!Opened' /\ i - 1 <= s7'[i]
      BY <1>2, <2>3 DEF Wa!IInv, Wa!Chain
    <3>3. \A i, j \in 1..(depth - 1) : i < j => s7'[i] < s7'[j]
      BY <2>3 DEF Wa!IInv, Wa!Chain
    <3> QED BY <1>1, <2>1, <2>2, <3>1, <3>2, <3>3 DEF Wa!Chain, Wa!None
  <2>6. Wa!Buffered'
    BY <1>1, <2>2, <2>3, Rising DEF Wa!Buffered
  <2>7. Wa!NoneLost'
    <3>1. SUFFICES ASSUME \A d \in 0..Entries : ~Wa!Wide(d),
                          NEW m \in 1..Entries, s2[m] \in Wa!Opened
                   PROVE  \/ s3[m] = "other" \/ m \in Wa!ToSet(s8)
                          \/ \E i \in 1..Len(s7') : s7'[i] = s2[m] /\ m \in s5[i]
      BY <1>1, <1>2, SameTree DEF Wa!NoneLost, Wa!tree
    <3>2. \/ s3[m] = "other" \/ m \in Wa!ToSet(s8)
          \/ \E i \in 1..Len(s7) : s7[i] = s2[m] /\ m \in s5[i]
      BY <1>1, <3>1 DEF Wa!IInv, Wa!NoneLost
    <3>3. ASSUME NEW i \in 1..Len(s7), m \in s5[i]
          PROVE  i \in 1..(depth - 1)
      <4>1. i # depth /\ i \in Nat \ {0} /\ i <= depth
        BY <1>1, <3>3, Rising DEF depth
      <4> QED BY <2>2, <4>1
    <3> QED BY <2>2, <2>3, <3>2, <3>3
  <2> QED BY <1>2, <2>4, <2>5, <2>6, <2>7 DEF Wa!IInv
<1> QED BY <1>3, <1>4

\* A directory that is opened is new, below the one that was read, and none of
\* its entries has been found.
LEMMA Opening ==
  ASSUME Wa!IInv, s4 # Entries + 1
  PROVE  /\ s4 \in 0..Entries /\ s4 \notin Wa!Opened
         /\ \A n \in 1..Entries : s2[n] = s4 => n \notin Wa!ToSet(s8)
         /\ \A i \in 1..Len(s7) : s7[i] < s4
         /\ Len(s7) <= s4 /\ Len(s7) + 1 \in 1..Entries + 1
         /\ s4 = 0 \/ (s4 \in Wa!ToSet(s8) /\ s3[s4] = "dir")
<1>1. s4 \in 0..Entries /\ s4 \notin Wa!Opened /\ Entries \in Nat /\ Len(s7) \in Nat
  BY WalkTypes DEF Wa!Opened
<1>2. \A n \in 1..Entries : s2[n] = s4 => n \notin Wa!ToSet(s8)
  BY <1>1 DEF Wa!IInv, Wa!FoundOnce
<1>3. /\ s3[s4] = "dir"
      /\ \/ s4 = 0 /\ s7 = <<>>
         \/ s4 \in Wa!ToSet(s8) /\ s7 # <<>> /\ s2[s4] = s7[Len(s7)]
  BY DEF Wa!IInv, Wa!Following, Wa!None
<1>4. CASE s4 = 0 /\ s7 = <<>>
  <2>1. Len(s7) = 0 /\ 0 + 1 \in 1..Entries + 1
    BY <1>1, <1>4
  <2>2. ~\E i \in 1..Len(s7) : TRUE
    BY <2>1
  <2> QED BY <1>1, <1>2, <1>4, <2>1, <2>2
<1>5. CASE s4 \in Wa!ToSet(s8) /\ s7 # <<>> /\ s2[s4] = s7[Len(s7)]
  <2>1. s4 \in 1..Entries /\ Len(s7) \in 1..Len(s7)
    BY <1>1, <1>5, WalkTypes
  <2>2. s7[Len(s7)] < s4 /\ s7[Len(s7)] \in 0..Entries /\ Len(s7) - 1 <= s7[Len(s7)]
    BY <1>5, <2>1, Rising DEF Wa!IInv, Wa!Typed, Wa!Tree, Wa!Chain
  <2>3. Len(s7) <= s4
    BY <1>1, <2>2
  <2>4. ASSUME NEW i \in 1..Len(s7) PROVE s7[i] < s4
    <3>1. i = Len(s7) \/ i < Len(s7)
      BY <1>1
    <3>2. s7[i] = s7[Len(s7)] \/ s7[i] < s7[Len(s7)]
      BY <2>1, <3>1 DEF Wa!IInv, Wa!Chain
    <3>3. s7[i] \in 0..Entries
      BY Rising
    <3> QED BY <1>1, <2>2, <3>2, <3>3
  <2>5. Len(s7) + 1 \in 1..Entries + 1
    BY <1>1, <2>3
  <2> QED BY <1>1, <1>2, <1>3, <1>5, <2>3, <2>4, <2>5
<1> QED BY <1>3, <1>4, <1>5

LEMMA OpenKeeps ==
  ASSUME Wa!IInv, Wa!Open
  PROVE  Wa!IInv'
<1> DEFINE depth == Len(s7) + 1
<1>1. /\ s10 = "running" /\ s4 # Entries + 1 /\ s4' = Entries + 1 /\ s9' = s9 \cup {s4}
      /\ UNCHANGED <<s1, s2, s3, s8>>
  BY DEF Wa!Open, Wa!None, Wa!tree
<1>2. /\ s4 \in 0..Entries /\ s4 \notin Wa!Opened
      /\ \A n \in 1..Entries : s2[n] = s4 => n \notin Wa!ToSet(s8)
      /\ \A i \in 1..Len(s7) : s7[i] < s4
      /\ Len(s7) <= s4 /\ depth \in 1..Entries + 1
      /\ s4 = 0 \/ (s4 \in Wa!ToSet(s8) /\ s3[s4] = "dir")
  BY <1>1, Opening
<1>3. Wa!Opened' = Wa!Opened \cup {s4}
  BY <1>1, <1>2, WalkTypes DEF Wa!Opened
<1>4. Wa!Tree' /\ Wa!FoundOnce' /\ Wa!Following'
  BY <1>1, <1>3 DEF Wa!IInv, Wa!Typed, Wa!Tree, Wa!FoundOnce, Wa!Following, Wa!None
<1>5. CASE s10' = "failed" /\ UNCHANGED <<s5, s7>>
  <2>1. Wa!Typed'
    BY <1>1, <1>4, <1>5, WalkTypes DEF Wa!Typed
  <2>2. Wa!Chain' /\ Wa!NoneLost'
    BY <1>1, <1>3, <1>5 DEF Wa!IInv, Wa!Chain, Wa!NoneLost
  <2>3. Wa!Buffered'
    BY <1>1, <1>5 DEF Wa!IInv, Wa!Buffered
  <2> QED BY <1>4, <2>1, <2>2, <2>3 DEF Wa!IInv
<1>6. CASE /\ s10' = s10 /\ s7' = Append(s7, s4)
           /\ \E got \in SUBSET Wa!Children(s4) :
                /\ Wa!Wide(s4) \/ got = Wa!Children(s4)
                /\ s5' = [s5 EXCEPT ![Len(s7')] = got]
  <2>1. PICK got \in SUBSET Wa!Children(s4) :
          /\ Wa!Wide(s4) \/ got = Wa!Children(s4)
          /\ s5' = [s5 EXCEPT ![Len(s7')] = got]
    BY <1>6
  <2>2. /\ s7' \in Seq(0..Entries) /\ Len(s7) \in Nat /\ Len(s7') = depth
        /\ \A i \in 1..Len(s7) : s7'[i] = s7[i]
        /\ s7'[depth] = s4
        /\ Wa!ToSet(s7') = Wa!ToSet(s7) \cup {s4}
    <3> DEFINE Numbers == 0..Entries
    <3>1. s7 \in Seq(Numbers) /\ s4 \in Numbers
      BY <1>2, WalkTypes
    <3> HIDE DEF Numbers
    <3>2. /\ Append(s7, s4) \in Seq(Numbers) /\ Len(s7) \in Nat
          /\ Len(Append(s7, s4)) = depth
          /\ \A i \in 1..Len(s7) : Append(s7, s4)[i] = s7[i]
          /\ Append(s7, s4)[depth] = s4
          /\ Wa!ToSet(Append(s7, s4)) = Wa!ToSet(s7) \cup {s4}
      BY <3>1, Appended
    <3> QED BY <1>6, <3>2 DEF Numbers
  <2>3. /\ depth \in Nat \ {0} /\ depth \notin 1..Len(s7) /\ Len(s7) = depth - 1
        /\ \A i \in 1..depth : i \in 1..Len(s7) \/ i = depth
        /\ 1..Len(s7) \subseteq 1..depth
    BY <2>2
  <2> HIDE DEF depth
  <2>4. /\ s5' \in [1..Entries + 1 -> SUBSET (1..Entries)] /\ s5'[depth] = got
        /\ \A i \in 1..Len(s7) : s5'[i] = s5[i]
    <3>1. s5 \in [1..Entries + 1 -> SUBSET (1..Entries)]
      BY WalkTypes
    <3>2. got \in SUBSET (1..Entries)
      BY DEF Wa!Children
    <3>3. s5' = [s5 EXCEPT ![depth] = got]
      BY <2>1, <2>2
    <3>4. \A i \in 1..Len(s7) : i \in 1..Entries + 1 /\ i # depth
      BY <2>3, Rising
    <3> QED BY <1>2, <3>1, <3>2, <3>3, <3>4
  <2>5. Wa!Typed'
    BY <1>1, <1>4, <1>6, <2>2, <2>4, WalkTypes DEF Wa!Typed
  <2>6. Wa!Chain'
    <3>1. \A i \in 1..depth : s7'[i] \in Wa!Opened' /\ i - 1 <= s7'[i]
      <4>1. \A i \in 1..Len(s7) : s7'[i] \in Wa!Opened' /\ i - 1 <= s7'[i]
        BY <1>3, <2>2 DEF Wa!IInv, Wa!Chain
      <4>2. s7'[depth] \in Wa!Opened' /\ depth - 1 <= s7'[depth]
        BY <1>2, <1>3, <2>2, <2>3
      <4> QED BY <2>3, <4>1, <4>2
    <3>2. \A i, j \in 1..depth : i < j => s7'[i] < s7'[j]
      <4>1. \A i, j \in 1..Len(s7) : i < j => s7'[i] < s7'[j]
        BY <2>2 DEF Wa!IInv, Wa!Chain
      <4>2. \A i \in 1..Len(s7) : s7'[i] < s7'[depth]
        BY <1>2, <2>2
      <4>3. \A i \in 1..depth : ~(depth < i)
        BY <2>3
      <4> QED BY <2>3, <4>1, <4>2, <4>3
    <3>3. s9' = Wa!ToSet(s7')
      BY <1>1, <2>2 DEF Wa!IInv, Wa!Chain
    <3> QED BY <1>1, <1>6, <2>2, <3>1, <3>2, <3>3 DEF Wa!Chain
  <2>7. Wa!Buffered'
    <3>1. ASSUME NEW i \in 1..depth, NEW n \in s5'[i]
          PROVE  s2[n] = s7'[i] /\ n \notin Wa!ToSet(s8)
      <4>1. CASE i \in 1..Len(s7)
        BY <2>2, <2>4, <4>1, Rising
      <4>2. CASE i = depth
        <5>1. n \in 1..Entries /\ s2[n] = s4
          BY <2>4, <4>2 DEF Wa!Children
        <5> QED BY <1>2, <2>2, <4>2, <5>1
      <4> QED BY <2>3, <4>1, <4>2
    <3> QED BY <1>1, <2>2, <3>1 DEF Wa!Buffered
  <2>8. Wa!NoneLost'
    <3>1. SUFFICES ASSUME \A d \in 0..Entries : ~Wa!Wide(d),
                          NEW m \in 1..Entries, s2[m] \in Wa!Opened'
                   PROVE  \/ s3[m] = "other" \/ m \in Wa!ToSet(s8)
                          \/ \E i \in 1..depth : s7'[i] = s2[m] /\ m \in s5'[i]
      BY <1>1, <2>2, SameTree DEF Wa!NoneLost, Wa!tree
    <3>2. CASE s2[m] = s4
      <4>1. m \in got
        BY <1>2, <2>1, <3>1, <3>2 DEF Wa!Children
      <4>2. depth \in 1..depth
        BY <2>3
      <4> QED BY <2>2, <2>4, <3>2, <4>1, <4>2
    <3>3. CASE s2[m] \in Wa!Opened
      <4>1. \/ s3[m] = "other" \/ m \in Wa!ToSet(s8)
            \/ \E i \in 1..Len(s7) : s7[i] = s2[m] /\ m \in s5[i]
        BY <1>1, <3>1, <3>3 DEF Wa!IInv, Wa!NoneLost
      <4> QED BY <2>2, <2>3, <2>4, <4>1
    <3> QED BY <1>3, <3>1, <3>2, <3>3
  <2> QED BY <1>4, <2>5, <2>6, <2>7, <2>8 DEF Wa!IInv
<1> QED BY <1>5, <1>6 DEF Wa!Open, Wa!Buffer

\* A program that is ended leaves everything as it was.
LEMMA RefuseKeeps ==
  ASSUME Wa!IInv, Wa!Refuse
  PROVE  Wa!IInv'
<1>1. s10' = "refused" /\ UNCHANGED <<s1, s2, s3, s4, s5, s6, s7, s8>>
  BY DEF Wa!Refuse, Wa!tree
<1>2. Wa!Opened' = Wa!Opened /\ Wa!Tree' /\ Wa!FoundOnce' /\ Wa!Following' /\ Wa!Buffered'
  BY <1>1 DEF Wa!IInv, Wa!Typed, Wa!Opened, Wa!Tree, Wa!FoundOnce, Wa!Following, Wa!Buffered, Wa!None
<1>3. Wa!Typed' /\ Wa!Chain' /\ Wa!NoneLost'
  BY <1>1, <1>2 DEF Wa!IInv, Wa!Typed, Wa!Chain, Wa!NoneLost
<1> QED BY <1>2, <1>3 DEF Wa!IInv

LEMMA WalkKeeps == ASSUME Wa!IInv, [Wa!Next]_(Wa!vars) PROVE Wa!IInv'
<1>1. CASE UNCHANGED Wa!vars
  BY <1>1 DEF Wa!vars, Wa!tree, Wa!IInv, Wa!Typed, Wa!Tree, Wa!Chain, Wa!Following, Wa!Buffered,
     Wa!FoundOnce, Wa!NoneLost, Wa!Opened, Wa!Wide, Wa!Children
<1> QED BY <1>1, EntryKeeps, LeaveKeeps, OpenKeeps, RefuseKeeps DEF Wa!Next

\* A walk that is over has everything: were there an entry it has not, the one
\* with the least number would be of a directory it has opened.
LEMMA WalkEnds == ASSUME Wa!IInv PROVE Wa!Walked
<1>1. Wa!Closed
  BY DEF Wa!IInv, Wa!Chain, Wa!Closed
<1>2. ASSUME s10 = "done", \A d \in 0..Entries : ~Wa!Wide(d)
      PROVE  Wa!ToSet(s8) = { n \in 1..Entries : s3[n] # "other" }
  <2> DEFINE Lost == { n \in 1..Entries : s3[n] # "other" /\ n \notin Wa!ToSet(s8) }
  <2>1. Len(s7) = 0 /\ s4 = Entries + 1
    BY <1>2, WalkTypes DEF Wa!IInv, Wa!Chain, Wa!None
  <2>2. ASSUME NEW n \in Lost PROVE s2[n] \notin Wa!Opened
    BY <1>2, <2>1 DEF Wa!IInv, Wa!NoneLost
  <2>3. ASSUME Lost # {} PROVE FALSE
    <3>1. PICK n \in Lost : \A m \in Lost : n <= m
      <4>1. Lost \in SUBSET Nat
        OBVIOUS
      <4> HIDE DEF Lost
      <4> QED BY <2>3, <4>1, Least
    <3>2. /\ n \in 1..Entries /\ s2[n] \in 0..Entries /\ s2[n] < n /\ s3[s2[n]] = "dir"
          /\ Entries \in Nat
      BY WalkTypes DEF Wa!IInv, Wa!Typed, Wa!Tree
    <3>3. s2[n] = 0 \/ s2[n] \in Wa!ToSet(s8)
      <4>1. s2[n] \notin Lost
        <5>1. ASSUME s2[n] \in Lost PROVE n <= s2[n]
          BY <3>1, <5>1
        <5>2. ~(n <= s2[n])
          BY <3>2
        <5> QED BY <5>1, <5>2
      <4>2. s2[n] = 0 \/ s2[n] \in 1..Entries
        BY <3>2
      <4> QED BY <3>2, <4>1, <4>2
    <3>4. s2[n] \in Wa!Opened
      <4>1. s2[n] # Entries + 1
        BY <3>2
      <4> QED BY <2>1, <3>2, <3>3, <4>1 DEF Wa!Opened
    <3> QED BY <2>2, <3>4
  <2>4. Wa!ToSet(s8) \subseteq { n \in 1..Entries : s3[n] # "other" }
    BY WalkTypes DEF Wa!IInv, Wa!FoundOnce
  <2> QED BY <2>3, <2>4
<1>3. Wa!IsInjective(s8)
  BY DEF Wa!IInv, Wa!FoundOnce
<1> QED BY <1>1, <1>2, <1>3 DEF Wa!Walked, Wa!Complete

-----------------------------------------------------------------------------
(* The text check.                                                         *)

\* Among numbers there is a greatest one.
LEMMA Greatest ==
  ASSUME NEW n \in Nat, NEW S \in SUBSET (1..n), S # {}
  PROVE  \E m \in S : \A k \in S : k <= m
<1> DEFINE D == { n - k : k \in S }
<1>1. D \in SUBSET Nat /\ D # {}
  <2>1. \A k \in S : n - k \in Nat
    OBVIOUS
  <2>2. PICK k \in S : TRUE
    OBVIOUS
  <2>3. n - k \in D
    OBVIOUS
  <2>4. D \in SUBSET Nat
    BY <2>1
  <2> QED BY <2>3, <2>4
<1> HIDE DEF D
<1>2. PICK d \in D : \A e \in D : d <= e
  BY <1>1, Least
<1>3. PICK m \in S : d = n - m
  BY DEF D
<1>4. ASSUME NEW k \in S PROVE k <= m
  <2>1. n - k \in D
    BY DEF D
  <2>2. d <= n - k
    BY <1>2, <2>1
  <2> QED BY <1>3, <2>2
<1> QED BY <1>4

\* Of places that lead to others, those that go on to an end: where a set of
\* places leads from place to place.
Leading(P, End, T) ==
  UNION { cuts \in SUBSET P : \A c \in cuts : c \in End \/ \E t \in T[c] : t \in cuts }

\* From a place that leads, some step leads on, and from no other.
LEMMA Leads ==
  ASSUME NEW P, NEW End, NEW T
  PROVE  /\ Leading(P, End, T) \in SUBSET P
         /\ \A i \in P : i \in Leading(P, End, T)
                           <=> (i \in End \/ \E t \in T[i] : t \in Leading(P, End, T))
<1> DEFINE Cuts == { cuts \in SUBSET P : \A c \in cuts : c \in End \/ \E t \in T[c] : t \in cuts }
           R == Leading(P, End, T)
<1>0. R = UNION Cuts
  BY DEF Leading
<1>1. R \in SUBSET P
  BY <1>0
<1> HIDE DEF R
<1>2. ASSUME NEW i \in R, i \notin End PROVE \E t \in T[i] : t \in R
  <2>1. PICK cuts \in Cuts : i \in cuts
    BY <1>0
  <2>2. PICK t \in T[i] : t \in cuts
    BY <1>2, <2>1
  <2> QED BY <1>0, <2>2
<1>3. ASSUME NEW i \in P, i \in End PROVE i \in R
  <2>1. {i} \in Cuts
    BY <1>3
  <2> QED BY <1>0, <2>1
<1>4. ASSUME NEW i \in P, NEW t \in T[i], t \in R PROVE i \in R
  <2>1. PICK cuts \in Cuts : t \in cuts
    BY <1>0, <1>4
  <2> DEFINE more == cuts \cup {i}
  <2>2. \A c \in more : c \in End \/ \E u \in T[c] : u \in more
    BY <2>1
  <2>3. more \in Cuts
    BY <2>2
  <2> QED BY <1>0, <2>3
<1> QED BY <1>1, <1>2, <1>3, <1>4 DEF R

\* The loop of is_valid, by the places from which it returns 1.
LEMMA Valid ==
  ASSUME NEW s, NEW n \in Nat, n = Len(s),
         \A i \in 1..n : Ut!goes_on(s, i) = 0 \/ Ut!goes_on(s, i) \in i + 1..n + 1
  PROVE  \E V \in SUBSET (1..n + 1) :
           /\ \A i \in 1..n + 1 :
                i \in V <=> (i > n \/ (Ut!goes_on(s, i) # 0 /\ Ut!goes_on(s, i) \in V))
           /\ Ut!is_valid(s) = 1 <=> 1 \in V
<1> DEFINE P == 1..n + 1
           T == [i \in P |-> IF i <= n /\ Ut!goes_on(s, i) # 0 THEN {Ut!goes_on(s, i)} ELSE {}]
           F(g) == [i \in P |-> IF i > n THEN 1 ELSE IF Ut!goes_on(s, i) = 0 THEN 0
                                ELSE g[Ut!goes_on(s, i)]]
<1> DEFINE End == {n + 1}
           R == Leading(P, End, T)
<1>1. R \in SUBSET P
  BY Leads
<1>2. ASSUME NEW i \in P PROVE i \in R <=> (i > n \/ \E t \in T[i] : t \in R)
  <2>1. i \in R <=> (i \in End \/ \E t \in T[i] : t \in R)
    <3> HIDE DEF P, T, End
    <3> QED BY Leads
  <2>2. i \in End <=> i > n
    OBVIOUS
  <2> HIDE DEF P, T, End, R
  <2> QED BY <2>1, <2>2
<1> HIDE DEF R
<1>3. \E g : g = F(g)
  <2> DEFINE g == [i \in P |-> IF i \in R THEN 1 ELSE 0]
  <2>1. ASSUME NEW i \in P PROVE g[i] = F(g)[i]
    BY <1>2
  <2>2. g = F(g)
    BY <2>1
  <2> QED BY <2>2
<1> DEFINE f == CHOOSE g : g = F(g)
<1>4. f = F(f)
  BY <1>3, Zenon
<1>5. Ut!is_valid(s) = f[1]
  BY Zenon DEF Ut!is_valid
<1> HIDE DEF f
<1>6. ASSUME NEW i \in P
      PROVE  f[i] = IF i > n THEN 1 ELSE IF Ut!goes_on(s, i) = 0 THEN 0 ELSE f[Ut!goes_on(s, i)]
  BY <1>4
<1> DEFINE V == { i \in P : f[i] = 1 }
<1>7. ASSUME NEW i \in P PROVE i \in V <=> (i > n \/ (Ut!goes_on(s, i) # 0 /\ Ut!goes_on(s, i) \in V))
  <2>1. CASE i > n
    BY <1>6, <2>1
  <2>2. CASE ~(i > n) /\ Ut!goes_on(s, i) = 0
    BY <1>6, <2>2
  <2>3. CASE ~(i > n) /\ Ut!goes_on(s, i) # 0
    <3>1. Ut!goes_on(s, i) \in P
      BY <2>3
    <3>2. f[i] = f[Ut!goes_on(s, i)]
      BY <1>6, <2>3
    <3> QED BY <2>3, <3>1, <3>2
  <2> QED BY <2>1, <2>2, <2>3
<1>8. Ut!is_valid(s) = 1 <=> 1 \in V
  BY <1>5
<1>9. V \in SUBSET P
  OBVIOUS
<1> HIDE DEF V
<1> QED BY <1>7, <1>8, <1>9

\* The places from which a text is a row of well-formed characters.
Whole(s, i, k) == Ut!WellFormed(SubSeq(s, i, i + k - 1))

\* The rows of the reference, by the places they begin at.
LEMMA Rows ==
  ASSUME NEW s, NEW n \in Nat, n = Len(s)
  PROVE  \E R \in SUBSET (1..n + 1) :
           /\ \A i \in 1..n + 1 :
                i \in R <=> (i > n \/ \E k \in 1..4 : i + k - 1 <= n /\ Whole(s, i, k) /\ i + k \in R)
           /\ Ut!IsRow(s) <=> 1 \in R
<1> DEFINE P == 1..n + 1
           T == [i \in P |-> { i + k : k \in { j \in 1..4 : i + j - 1 <= n /\ Whole(s, i, j) } }]
           F(g) == [i \in P |-> i > n \/ \E k \in 1..4 : i + k - 1 <= n
                                  /\ Whole(s, i, k) /\ g[i + k]]
<1> DEFINE End == {n + 1}
           R == Leading(P, End, T)
<1>1. R \in SUBSET P
  BY Leads
<1>2. ASSUME NEW i \in P PROVE i \in R <=> (i > n \/ \E t \in T[i] : t \in R)
  <2>1. i \in R <=> (i \in End \/ \E t \in T[i] : t \in R)
    <3> HIDE DEF P, T, End
    <3> QED BY Leads
  <2>2. i \in End <=> i > n
    OBVIOUS
  <2> HIDE DEF P, T, End, R
  <2> QED BY <2>1, <2>2
<1> HIDE DEF R
<1>3. \E g : g = F(g)
  <2> DEFINE g == [i \in P |-> IF i \in R THEN TRUE ELSE FALSE]
             G(i) == i > n \/ \E k \in 1..4 : i + k - 1 <= n /\ Whole(s, i, k) /\ g[i + k]
  <2>1. ASSUME NEW i \in P
        PROVE  i \in R <=> (i > n \/ \E k \in 1..4 : i + k - 1 <= n /\ Whole(s, i, k) /\ i + k \in R)
    <3>1. ASSUME NEW t \in T[i]
          PROVE  \E k \in 1..4 : i + k - 1 <= n /\ Whole(s, i, k) /\ t = i + k
      OBVIOUS
    <3>2. ASSUME NEW k \in 1..4, i + k - 1 <= n, Whole(s, i, k)
          PROVE  i + k \in T[i]
      BY <3>2
    <3>3. CASE i > n
      BY <1>2, <3>3
    <3>4. CASE ~(i > n)
      <4> HIDE DEF T
      <4>1. i \in R <=> \E t \in T[i] : t \in R
        BY <1>2, <3>4, Zenon
      <4>2. ASSUME NEW t \in T[i], t \in R
            PROVE  \E k \in 1..4 : i + k - 1 <= n /\ Whole(s, i, k) /\ i + k \in R
        BY <3>1, <4>2
      <4>3. ASSUME NEW k \in 1..4, i + k - 1 <= n, Whole(s, i, k), i + k \in R
            PROVE  \E t \in T[i] : t \in R
        BY <3>2, <4>3, Zenon
      <4> QED BY <3>4, <4>1, <4>2, <4>3, Zenon
    <3> QED BY <3>3, <3>4
  <2>2. ASSUME NEW i \in P, NEW k \in 1..4, i + k - 1 <= n
        PROVE  i + k \in P /\ (g[i + k] <=> i + k \in R)
    <3>1. i + k \in P
      BY <2>2
    <3> HIDE DEF P
    <3> QED BY <3>1
  <2>3. ASSUME NEW i \in P PROVE i \in R <=> G(i)
    <3> HIDE DEF g, P
    <3> QED BY <2>1, <2>2, Zenon
  <2>4. ASSUME NEW i \in P PROVE g[i] = G(i)
    <3>1. CASE i \in R
      <4>1. g[i] = TRUE
        BY <3>1
      <4>2. G(i) = TRUE
        <5> HIDE DEF g, P
        <5> QED BY <2>3, <3>1, Zenon
      <4> HIDE DEF g, G
      <4> QED BY <4>1, <4>2
    <3>2. CASE i \notin R
      <4>1. g[i] = FALSE
        BY <3>2
      <4>2. G(i) = FALSE
        <5> HIDE DEF g, P
        <5> QED BY <2>3, <3>2, Zenon
      <4> HIDE DEF g, G
      <4> QED BY <4>1, <4>2
    <3> QED BY <3>1, <3>2
  <2>5. g = F(g)
    <3>1. F(g) = [i \in P |-> G(i)]
      BY Zenon
    <3>2. g = [i \in P |-> g[i]]
      BY Zenon
    <3> HIDE DEF g, G, F
    <3> QED BY <2>4, <3>1, <3>2, Zenon
  <2> QED BY <2>5, Zenon
<1> DEFINE f == CHOOSE g : g = F(g)
<1>4. f = F(f)
  BY <1>3, Zenon
<1>5. Ut!IsRow(s) = f[1]
  BY Zenon DEF Ut!IsRow, Whole
<1> HIDE DEF f
<1>6. ASSUME NEW i \in P
      PROVE  f[i] <=> (i > n \/ \E k \in 1..4 : i + k - 1 <= n /\ Whole(s, i, k) /\ f[i + k])
  BY <1>4, Zenon
<1> DEFINE Q == { i \in P : f[i] }
<1>7. ASSUME NEW i \in P, NEW k \in 1..4, i + k - 1 <= n PROVE i + k \in P
  BY <1>7
<1>8. ASSUME NEW i \in P
      PROVE  i \in Q <=> (i > n \/ \E k \in 1..4 : i + k - 1 <= n /\ Whole(s, i, k) /\ i + k \in Q)
  BY <1>6, <1>7, Zenon
<1>9. 1 \in P
  OBVIOUS
<1>10. (Ut!IsRow(s) <=> 1 \in Q) /\ Q \in SUBSET P
  BY <1>5, <1>9, Zenon
<1> HIDE DEF Q
<1> QED BY <1>8, <1>10

\* A character that is whole, by its bytes.
Follow(b) == b \in 128..191
Second(a, b) ==
  \/ a = 224 /\ b \in 160..191
  \/ a = 237 /\ b \in 128..159
  \/ a \in 225..239 /\ a # 237 /\ b \in 128..191
  \/ a = 240 /\ b \in 144..191
  \/ a = 244 /\ b \in 128..143
  \/ a \in 241..243 /\ b \in 128..191

\* The bytes of a character of k bytes.
Shape(k, a, b, c, d) ==
  \/ k = 1 /\ a < 128
  \/ k = 2 /\ a \in 194..223 /\ Follow(b)
  \/ k = 3 /\ a \in 224..239 /\ Second(a, b) /\ Follow(c)
  \/ k = 4 /\ a \in 240..244 /\ Second(a, b) /\ Follow(c) /\ Follow(d)

\* The second bytes the table allows behind a first one.
Behind3(a) == CASE a = 224 -> 160..191 [] a = 237 -> 128..159
                [] a \in 225..239 \ {237} -> 128..191 [] OTHER -> {}
Behind4(a) == CASE a = 240 -> 144..191 [] a = 244 -> 128..143
                [] a \in 241..243 -> 128..191 [] OTHER -> {}

\* A second byte the table allows, by ranges.
LEMMA Threes ==
  ASSUME NEW a \in Int, NEW b, b \in Behind3(a)
  PROVE  a \in 224..239 /\ Second(a, b)
<1>1. CASE a = 224
  BY <1>1, SMT DEF Second, Behind3
<1>2. CASE a = 237
  BY <1>2, SMT DEF Second, Behind3
<1>3. CASE a \in 225..239 \ {237}
  BY <1>3, SMT DEF Second, Behind3
<1>4. a = 224 \/ a = 237 \/ a \in 225..239 \ {237}
  BY SMT DEF Behind3
<1> QED BY <1>1, <1>2, <1>3, <1>4, SMT

LEMMA ThreesBack ==
  ASSUME NEW a \in 224..239, NEW b, Second(a, b)
  PROVE  b \in Behind3(a)
<1>1. CASE a = 224
  BY <1>1, SMT DEF Second, Behind3
<1>2. CASE a = 237
  BY <1>2, SMT DEF Second, Behind3
<1>3. CASE a \in 225..239 \ {237}
  BY <1>3, SMT DEF Second, Behind3
<1>4. a = 224 \/ a = 237 \/ a \in 225..239 \ {237}
  BY SMT DEF Behind3
<1> QED BY <1>1, <1>2, <1>3, <1>4, SMT

LEMMA Fours ==
  ASSUME NEW a \in Int, NEW b, b \in Behind4(a)
  PROVE  a \in 240..244 /\ Second(a, b)
<1>1. CASE a = 240
  BY <1>1, SMT DEF Second, Behind4
<1>2. CASE a = 244
  BY <1>2, SMT DEF Second, Behind4
<1>3. CASE a \in 241..243
  BY <1>3, SMT DEF Second, Behind4
<1>4. a = 240 \/ a = 244 \/ a \in 241..243
  BY SMT DEF Behind4
<1> QED BY <1>1, <1>2, <1>3, <1>4, SMT

LEMMA FoursBack ==
  ASSUME NEW a \in 240..244, NEW b, Second(a, b)
  PROVE  b \in Behind4(a)
<1>1. CASE a = 240
  BY <1>1, SMT DEF Second, Behind4
<1>2. CASE a = 244
  BY <1>2, SMT DEF Second, Behind4
<1>3. CASE a \in 241..243
  BY <1>3, SMT DEF Second, Behind4
<1>4. a = 240 \/ a = 244 \/ a \in 241..243
  BY SMT DEF Behind4
<1> QED BY <1>1, <1>2, <1>3, <1>4, SMT

LEMMA ShapeIs ==
  ASSUME NEW k \in 1..4, NEW x, Len(x) = k, x[1] \in 0..255, x[1] \in Int
  PROVE  Ut!WellFormed(x) <=> Shape(k, x[1], x[2], x[3], x[4])
<1>1. CASE k = 1
  BY <1>1, SMT DEF Ut!WellFormed, Shape
<1>2. CASE k = 2
  BY <1>2, SMT DEF Ut!WellFormed, Shape, Ut!Tail4, Follow
<1>3. CASE k = 3
  <2>1. Ut!WellFormed(x) <=> x[3] \in 128..191 /\ x[2] \in Behind3(x[1])
    BY <1>3, SMT DEF Ut!WellFormed, Ut!Tail4, Behind3
  <2>2. Shape(k, x[1], x[2], x[3], x[4]) <=>
           x[3] \in 128..191 /\ x[1] \in 224..239 /\ Second(x[1], x[2])
    BY <1>3, SMT DEF Shape, Follow
  <2>3. x[2] \in Behind3(x[1]) <=> x[1] \in 224..239 /\ Second(x[1], x[2])
    BY Threes, ThreesBack
  <2> QED BY <2>1, <2>2, <2>3, SMT
<1>4. CASE k = 4
  <2>1. Ut!WellFormed(x) <=> /\ x[3] \in 128..191 /\ x[4] \in 128..191
                             /\ x[2] \in Behind4(x[1])
    BY <1>4, SMT DEF Ut!WellFormed, Ut!Tail4, Behind4
  <2>2. Shape(k, x[1], x[2], x[3], x[4]) <=>
           x[3] \in 128..191 /\ x[4] \in 128..191 /\ x[1] \in 240..244 /\ Second(x[1], x[2])
    BY <1>4, SMT DEF Shape, Follow
  <2>3. x[2] \in Behind4(x[1]) <=> x[1] \in 240..244 /\ Second(x[1], x[2])
    BY Fours, FoursBack
  <2> QED BY <2>1, <2>2, <2>3, SMT
<1> QED BY <1>1, <1>2, <1>3, <1>4

LEMMA ByteIsNumber == ASSUME NEW b, b \in 0..255 PROVE b \in Int
BY SMT

\* A character of the text is whole if its bytes have the shape.
LEMMA WholeIs ==
  ASSUME NEW s \in Seq(0..255), NEW n \in Nat, n = Len(s), NEW i \in 1..n, NEW k \in 1..4,
         i + k - 1 <= n
  PROVE  Whole(s, i, k) <=> Shape(k, s[i], s[i + 1], s[i + 2], s[i + 3])
<1>1. PICK x : x = SubSeq(s, i, i + k - 1)
  OBVIOUS
<1>2. x = [m \in 1..k |-> s[i + m - 1]]
  <2>1. SubSeq(s, i, i + k - 1) = [m \in 1..1 + (i + k - 1) - i |-> s[m + i - 1]]
    OBVIOUS
  <2>2. 1 + (i + k - 1) - i = k /\ \A m \in 1..k : m + i - 1 = i + m - 1
    OBVIOUS
  <2> QED BY <1>1, <2>1, <2>2
<1>3. /\ Len(x) = k /\ x[1] = s[i] /\ (k >= 2 => x[2] = s[i + 1])
      /\ (k >= 3 => x[3] = s[i + 2]) /\ (k = 4 => x[4] = s[i + 3])
  BY <1>2
<1>4. s[i] \in 0..255 /\ s[i] \in Int
  <2>1. s[i] \in 0..255
    OBVIOUS
  <2> QED BY <2>1, Zenon, ByteIsNumber
<1>5. Ut!WellFormed(x) <=> Shape(k, x[1], x[2], x[3], x[4])
  BY <1>3, <1>4, ShapeIs
<1>6. Shape(k, x[1], x[2], x[3], x[4]) <=> Shape(k, s[i], s[i + 1], s[i + 2], s[i + 3])
  BY <1>3, SMT DEF Shape
<1> QED BY <1>1, <1>5, <1>6, Zenon DEF Whole

\* The tests of is_valid, by the byte they are about.
LEMMA Follows == ASSUME NEW b \in 0..255 PROVE Ut!Follows(b) <=> Follow(b)
BY SMT DEF Ut!Follows, Follow

LEMMA Leading3 ==
  ASSUME NEW a \in Int, a \in 224..239, NEW b \in Int, Follow(b)
  PROVE  (~(a = 224 /\ b \div 32 = 4) /\ ~(a = 237 /\ b \div 32 = 5)) <=> Second(a, b)
<1>1. b \in 128..191
  BY SMT DEF Follow
<1>2. (b \div 32 = 4 <=> b < 160) /\ (b \div 32 = 5 <=> b >= 160)
  BY <1>1, SMT
<1>3. CASE a = 224
  BY <1>1, <1>2, <1>3, SMT DEF Second
<1>4. CASE a = 237
  BY <1>1, <1>2, <1>4, SMT DEF Second
<1>5. CASE a # 224 /\ a # 237
  BY <1>1, <1>5, SMT DEF Second
<1> QED BY <1>3, <1>4, <1>5

LEMMA Leading4 ==
  ASSUME NEW a \in Int, a \in 240..244, NEW b \in Int, Follow(b)
  PROVE  (~(a = 240 /\ b \div 16 = 8) /\ ~(a = 244 /\ b > 143)) <=> Second(a, b)
<1>1. b \in 128..191
  BY SMT DEF Follow
<1>2. b \div 16 = 8 <=> b < 144
  BY <1>1, SMT
<1>3. CASE a = 240
  BY <1>1, <1>2, <1>3, SMT DEF Second
<1>4. CASE a = 244
  BY <1>1, <1>2, <1>4, SMT DEF Second
<1>5. CASE a # 240 /\ a # 244
  BY <1>1, <1>5, SMT DEF Second
<1> QED BY <1>3, <1>4, <1>5

LEMMA SecondFollows == ASSUME NEW a, NEW b, Second(a, b) PROVE Follow(b)
BY SMT DEF Second, Follow

\* What is_valid decides, by the first byte.
Choice(a, x, y, z) ==
  CASE a \div 32 = 6 -> x [] a \div 16 = 14 -> y [] a \div 8 = 30 -> z [] OTHER -> 0

LEMMA Decided ==
  ASSUME NEW a \in Int, a \in 128..255, NEW x, NEW y, NEW z
  PROVE  /\ a \in 192..223 => Choice(a, x, y, z) = x
         /\ a \in 224..239 => Choice(a, x, y, z) = y
         /\ a \in 240..247 => Choice(a, x, y, z) = z
         /\ a < 192 \/ a > 247 => Choice(a, x, y, z) = 0
<1>1. (a \div 32 = 6 <=> a \in 192..223) /\ (a \div 16 = 14 <=> a \in 224..239) /\ (a \div 8 = 30 <=> a \in 240..247)
  BY SMT
<1> QED BY <1>1, SMT DEF Choice

\* What each kind of first byte asks for; h: the bytes behind it all follow.
Has(s, n, j, k) == j + k <= n /\ \A m \in 1..k : Ut!Follows(s[j + m])
Two(h, a) == IF h /\ a \div 2 # 96 THEN 2 ELSE 0
Three(h, a, b) ==
  IF h /\ ~(a = 224 /\ b \div 32 = 4) /\ ~(a = 237 /\ b \div 32 = 5) THEN 3 ELSE 0
Four(h, a, b) ==
  IF h /\ ~(a = 240 /\ b \div 16 = 8) /\ ~(a = 244 /\ b > 143) /\ a <= 244 THEN 4 ELSE 0

\* What is_valid takes for a character, one kind of first byte at a time.
LEMMA CharacterIs ==
  ASSUME NEW s, NEW j
  PROVE  Ut!Character(s, j) =
           Choice(s[j], Two(Has(s, Len(s), j, 1), s[j]), Three(Has(s, Len(s), j, 2), s[j], s[j + 1]),
                  Four(Has(s, Len(s), j, 3), s[j], s[j + 1]))
BY Zenon DEF Ut!Character, Choice, Two, Three, Four, Has

\* ASCII is a character of its own; of any other byte is_valid takes the
\* character that is whole, and no other is.
LEMMA AsciiWhole ==
  ASSUME NEW s \in Seq(0..255), NEW n \in Nat, n = Len(s), NEW i \in 1..n, Ut!Ascii(s[i]),
         NEW k \in 1..4, i + k - 1 <= n
  PROVE  Whole(s, i, k) <=> k = 1
<1>1. PICK a : a = s[i]
  OBVIOUS
<1>2. a < 128 /\ a \in 0..255
  BY <1>1 DEF Ut!Ascii
<1>3. Shape(k, a, s[i + 1], s[i + 2], s[i + 3]) <=> k = 1
  BY <1>2, SMT DEF Shape
<1> QED BY <1>1, <1>3, WholeIs

LEMMA CharacterWhole ==
  ASSUME NEW s \in Seq(0..255), NEW n \in Nat, n = Len(s), NEW j \in 1..n, ~Ut!Ascii(s[j])
  PROVE  /\ Ut!Character(s, j) \in {0, 2, 3, 4}
         /\ \A k \in 1..4 : (j + k - 1 <= n /\ Whole(s, j, k)) <=> Ut!Character(s, j) = k
<1>1. PICK a : a = s[j]
  OBVIOUS
<1>2. PICK b : b = s[j + 1]
  OBVIOUS
<1>3. PICK c : c = s[j + 2]
  OBVIOUS
<1>4. PICK d : d = s[j + 3]
  OBVIOUS
<1>5. PICK e : e = Ut!Character(s, j)
  OBVIOUS
<1>6. a \in 0..255 /\ ~(a < 128)
  BY <1>1 DEF Ut!Ascii
<1>7. a \in 128..255 /\ a \in Int
  BY <1>6, SMT
<1>8. /\ j + 1 <= n => b \in 0..255
      /\ j + 2 <= n => c \in 0..255
      /\ j + 3 <= n => d \in 0..255
  <2>1. \A m \in 1..n : s[m] \in 0..255
    OBVIOUS
  <2>2. /\ j + 1 <= n => j + 1 \in 1..n
        /\ j + 2 <= n => j + 2 \in 1..n
        /\ j + 3 <= n => j + 3 \in 1..n
    BY SMT
  <2> QED BY <1>2, <1>3, <1>4, <2>1, <2>2, Zenon
<1>9. /\ Has(s, n, j, 1) <=> j + 1 <= n /\ Follow(b)
      /\ Has(s, n, j, 2) <=> j + 2 <= n /\ Follow(b) /\ Follow(c)
      /\ Has(s, n, j, 3) <=> j + 3 <= n /\ Follow(b) /\ Follow(c) /\ Follow(d)
  <2>1. /\ j + 1 <= n => (Ut!Follows(b) <=> Follow(b))
        /\ j + 2 <= n => (Ut!Follows(c) <=> Follow(c))
        /\ j + 3 <= n => (Ut!Follows(d) <=> Follow(d))
    BY <1>8, Follows
  <2>2. /\ Has(s, n, j, 1) <=> j + 1 <= n /\ Ut!Follows(b)
        /\ Has(s, n, j, 2) <=> j + 2 <= n /\ Ut!Follows(b) /\ Ut!Follows(c)
        /\ Has(s, n, j, 3) <=> j + 3 <= n /\ Ut!Follows(b) /\ Ut!Follows(c) /\ Ut!Follows(d)
    BY <1>2, <1>3, <1>4, SMT DEF Has
  <2> QED BY <2>1, <2>2, SMT
<1> DEFINE h1 == Has(s, n, j, 1)
           h2 == Has(s, n, j, 2)
           h3 == Has(s, n, j, 3)
<1>10. e = Choice(a, Two(h1, a), Three(h2, a, b), Four(h3, a, b))
  BY <1>1, <1>2, <1>5, CharacterIs, Zenon
<1> HIDE DEF h1, h2, h3
<1>13. /\ a \in 192..223 => e = Two(h1, a)
       /\ a \in 224..239 => e = Three(h2, a, b)
       /\ a \in 240..247 => e = Four(h3, a, b)
       /\ a < 192 \/ a > 247 => e = 0
  BY <1>7, <1>10, Decided
<1>11. ASSUME NEW k \in 1..4
       PROVE  (j + k - 1 <= n /\ Whole(s, j, k)) <=> (j + k - 1 <= n /\ Shape(k, a, b, c, d))
  BY <1>1, <1>2, <1>3, <1>4, WholeIs
<1>12. e \in {0, 2, 3, 4} /\ \A k \in 1..4 : (j + k - 1 <= n /\ Shape(k, a, b, c, d)) <=> e = k
  <2>1. CASE a < 192 \/ a > 247
    BY <1>7, <1>13, <2>1, SMT DEF Shape
  <2>2. CASE a \in 192..223
    <3>1. a \div 2 # 96 <=> a \in 194..223
      BY <2>2, SMT
    <3>2. e = IF j + 1 <= n /\ Follow(b) /\ a \in 194..223 THEN 2 ELSE 0
      BY <1>9, <1>13, <2>2, <3>1, SMT DEF Two, h1
    <3> QED BY <2>2, <3>2, SMT DEF Shape
  <2>3. CASE a \in 224..239
    <3>1. e = IF j + 2 <= n /\ Follow(c) /\ Second(a, b) THEN 3 ELSE 0
      <4>1. CASE j + 2 <= n
        <5>1. b \in Int
          <6>1. j + 1 <= n
            BY <4>1, SMT
          <6> QED BY <1>8, <6>1, ByteIsNumber, Zenon
        <5>2. CASE Follow(b)
          <6>1. (~(a = 224 /\ b \div 32 = 4) /\ ~(a = 237 /\ b \div 32 = 5)) <=> Second(a, b)
            BY <1>7, <2>3, <5>1, <5>2, Leading3, Zenon
          <6> QED BY <1>9, <1>13, <2>3, <4>1, <5>2, <6>1, SMT DEF Three, h2
        <5>3. CASE ~Follow(b)
          <6>1. ~Second(a, b)
            BY <5>3, SecondFollows, Zenon
          <6> QED BY <1>9, <1>13, <2>3, <4>1, <5>3, <6>1, SMT DEF Three, h2
        <5> QED BY <5>2, <5>3
      <4>2. CASE ~(j + 2 <= n)
        BY <1>9, <1>13, <2>3, <4>2, SMT DEF Three, h2
      <4> QED BY <4>1, <4>2
    <3> QED BY <2>3, <3>1, SMT DEF Shape
  <2>4. CASE a \in 240..247
    <3>1. e = IF j + 3 <= n /\ Follow(c) /\ Follow(d) /\ a <= 244 /\ Second(a, b) THEN 4 ELSE 0
      <4>1. CASE j + 3 <= n /\ a <= 244
        <5>1. j + 1 <= n /\ a \in 240..244
          BY <2>4, <4>1, SMT
        <5>2. b \in Int
          BY <1>8, <5>1, ByteIsNumber, Zenon
        <5>3. CASE Follow(b)
          <6>1. (~(a = 240 /\ b \div 16 = 8) /\ ~(a = 244 /\ b > 143)) <=> Second(a, b)
            BY <1>7, <5>1, <5>2, <5>3, Leading4, Zenon
          <6> QED BY <1>9, <1>13, <2>4, <4>1, <5>3, <6>1, SMT DEF Four, h3
        <5>4. CASE ~Follow(b)
          <6>1. ~Second(a, b)
            BY <5>4, SecondFollows, Zenon
          <6> QED BY <1>9, <1>13, <2>4, <4>1, <5>4, <6>1, SMT DEF Four, h3
        <5> QED BY <5>3, <5>4
      <4>2. CASE ~(j + 3 <= n) \/ ~(a <= 244)
        BY <1>9, <1>13, <2>4, <4>2, SMT DEF Four, h3
      <4> QED BY <4>1, <4>2
    <3> QED BY <2>4, <3>1, SMT DEF Shape
  <2> QED BY <1>7, <2>1, <2>2, <2>3, <2>4, SMT
<1> QED BY <1>5, <1>11, <1>12, Zenon
\* Where the loop goes on: behind a run of ASCII that is not empty, or behind the
\* character that follows such a run.
LEMMA GoesOn ==
  ASSUME NEW s \in Seq(0..255), NEW n \in Nat, n = Len(s), NEW i \in 1..n
  PROVE  \E j \in i..n + 1 :
           /\ \A m \in i..n : m < j => Ut!Ascii(s[m])
           /\ \/ j > i /\ Ut!goes_on(s, i) = j
              \/ /\ j <= n /\ ~Ut!Ascii(s[j])
                 /\ Ut!goes_on(s, i) = IF Ut!Character(s, j) = 0 THEN 0 ELSE j + Ut!Character(s, j)
<1> DEFINE four == i + 3 <= n /\ \A k \in 0..3 : Ut!Ascii(s[i + k])
           rest == { k \in i..n : ~Ut!Ascii(s[k]) }
<1>1. Ut!goes_on(s, i) =
        IF four THEN i + 4
        ELSE IF rest = {} THEN n + 1
        ELSE IF Ut!Character(s, Ut!Min(rest)) = 0 THEN 0
        ELSE Ut!Min(rest) + Ut!Character(s, Ut!Min(rest))
  BY Zenon DEF Ut!goes_on
<1>2. CASE four
  <2>1. i + 4 \in i..n + 1 /\ i + 4 > i
    BY <1>2
  <2>2. ASSUME NEW m \in i..n, m < i + 4 PROVE Ut!Ascii(s[m])
    <3>1. m - i \in 0..3 /\ i + (m - i) = m
      BY <2>2
    <3> QED BY <1>2, <3>1
  <2> HIDE DEF four, rest
  <2>3. Ut!goes_on(s, i) = i + 4
    BY <1>1, <1>2
  <2> QED BY <2>1, <2>2, <2>3
<1>3. CASE ~four /\ rest = {}
  <2>1. n + 1 \in i..n + 1 /\ n + 1 > i
    OBVIOUS
  <2>2. \A m \in i..n : Ut!Ascii(s[m])
    BY <1>3
  <2> HIDE DEF four, rest
  <2>3. Ut!goes_on(s, i) = n + 1
    BY <1>1, <1>3
  <2> QED BY <2>1, <2>2, <2>3
<1>4. CASE ~four /\ rest # {}
  <2>1. rest \in SUBSET Nat
    OBVIOUS
  <2>2. PICK j \in rest : \A m \in rest : j <= m
    <3> HIDE DEF rest
    <3> QED BY <1>4, <2>1, Least
  <2>3. Ut!Min(rest) = j
    <3>1. \A x \in rest : (\A y \in rest : x <= y) => x = j
      BY <2>1, <2>2
    <3> HIDE DEF rest
    <3> QED BY <2>2, <3>1 DEF Ut!Min
  <2>4. j \in i..n /\ ~Ut!Ascii(s[j])
    OBVIOUS
  <2>5. ASSUME NEW m \in i..n, m < j PROVE Ut!Ascii(s[m])
    BY <2>2, <2>5
  <2> HIDE DEF four, rest
  <2>6. Ut!goes_on(s, i) = IF Ut!Character(s, j) = 0 THEN 0 ELSE j + Ut!Character(s, j)
    BY <1>1, <1>4, <2>3, Zenon
  <2>7. j \in i..n + 1 /\ j <= n
    BY <2>4
  <2> QED BY <2>4, <2>5, <2>6, <2>7
<1> QED BY <1>2, <1>3, <1>4

\* A run of ASCII does not change from where the rest is a row.
LEMMA AsciiRun ==
  ASSUME NEW s \in Seq(0..255), NEW n \in Nat, n = Len(s), NEW i \in 1..n, NEW j \in i..n + 1,
         NEW R, \A m \in 1..n + 1 :
           m \in R <=> (m > n \/ \E k \in 1..4 : m + k - 1 <= n /\ Whole(s, m, k) /\ m + k \in R),
         \A m \in i..n : m < j => Ut!Ascii(s[m])
  PROVE  i \in R <=> j \in R
<1>1. ASSUME NEW m \in i..n, m < j PROVE m \in R <=> m + 1 \in R
  <2>1. Ut!Ascii(s[m]) /\ m \in 1..n /\ m \in 1..n + 1 /\ ~(m > n) /\ m + 1 - 1 <= n
    BY <1>1
  <2>2. \A k \in 1..4 : m + k - 1 <= n => (Whole(s, m, k) <=> k = 1)
    BY <2>1, AsciiWhole
  <2>3. m \in R <=> \E k \in 1..4 : m + k - 1 <= n /\ Whole(s, m, k) /\ m + k \in R
    BY <2>1
  <2> QED BY <2>1, <2>2, <2>3
<1> DEFINE D == { m \in i..j : ~(m \in R <=> j \in R) }
<1>2. D = {}
  <2> SUFFICES ASSUME D # {} PROVE FALSE
    OBVIOUS
  <2>1. D \in SUBSET (1..n + 1) /\ n + 1 \in Nat
    OBVIOUS
  <2>2. PICK m \in D : \A k \in D : k <= m
    <3> HIDE DEF D
    <3> QED BY <2>1, Greatest
  <2>3. m \in i..n /\ m < j
    OBVIOUS
  <2>4. m + 1 \in i..j /\ m + 1 \notin D
    BY <2>2, <2>3
  <2> QED BY <1>1, <2>3, <2>4
<1>3. i \in i..j
  OBVIOUS
<1> QED BY <1>2, <1>3

\* is_valid accepts a text if and only if it is a row of well-formed characters.
LEMMA TextIsRow ==
  ASSUME NEW s \in Seq(0..255)
  PROVE  Ut!is_valid(s) = 1 <=> Ut!IsRow(s)
<1>1. PICK n \in Nat : n = Len(s)
  OBVIOUS
<1>2. PICK R \in SUBSET (1..n + 1) :
         /\ \A i \in 1..n + 1 :
              i \in R <=> (i > n \/ \E k \in 1..4 : i + k - 1 <= n /\ Whole(s, i, k) /\ i + k \in R)
         /\ Ut!IsRow(s) <=> 1 \in R
  BY <1>1, Rows
<1> DEFINE J(i, j) ==
             /\ j \in i..n + 1
             /\ \A m \in i..n : m < j => Ut!Ascii(s[m])
             /\ \/ j > i /\ Ut!goes_on(s, i) = j
                \/ /\ j <= n /\ ~Ut!Ascii(s[j])
                   /\ Ut!goes_on(s, i) = IF Ut!Character(s, j) = 0 THEN 0
                                         ELSE j + Ut!Character(s, j)
<1>3. ASSUME NEW i \in 1..n PROVE \E j : J(i, j)
  <2>1. PICK j \in i..n + 1 : J(i, j)
    BY <1>1, GoesOn
  <2> HIDE DEF J
  <2> QED BY <2>1
<1>4. ASSUME NEW j \in 1..n, ~Ut!Ascii(s[j])
      PROVE  /\ Ut!Character(s, j) = 0 \/ (Ut!Character(s, j) \in 2..4 /\ j + Ut!Character(s, j) \in j + 1..n + 1)
             /\ j \in R <=> Ut!Character(s, j) # 0 /\ j + Ut!Character(s, j) \in R
  <2>1. PICK e : e = Ut!Character(s, j)
    OBVIOUS
  <2>2. e \in {0, 2, 3, 4} /\ \A k \in 1..4 : (j + k - 1 <= n /\ Whole(s, j, k)) <=> e = k
    BY <1>1, <1>4, <2>1, CharacterWhole
  <2>3. j \in 1..n + 1 /\ ~(j > n)
    OBVIOUS
  <2>4. j \in R <=> \E k \in 1..4 : j + k - 1 <= n /\ Whole(s, j, k) /\ j + k \in R
    BY <1>2, <2>3
  <2>5. j \in R <=> e # 0 /\ j + e \in R
    BY <2>2, <2>4
  <2>6. e = 0 \/ (e \in 2..4 /\ j + e - 1 <= n)
    BY <2>2
  <2> QED BY <2>1, <2>5, <2>6
<1>5. ASSUME NEW i \in 1..n PROVE Ut!goes_on(s, i) = 0 \/ Ut!goes_on(s, i) \in i + 1..n + 1
  <2>1. PICK j : J(i, j)
    BY <1>3
  <2> QED BY <1>4, <2>1
<1>6. PICK V \in SUBSET (1..n + 1) :
        /\ \A i \in 1..n + 1 :
             i \in V <=> (i > n \/ (Ut!goes_on(s, i) # 0 /\ Ut!goes_on(s, i) \in V))
        /\ Ut!is_valid(s) = 1 <=> 1 \in V
  BY <1>1, <1>5, Valid
<1> DEFINE D == { i \in 1..n + 1 : ~(i \in V <=> i \in R) }
<1>7. D = {}
  <2> SUFFICES ASSUME D # {} PROVE FALSE
    OBVIOUS
  <2>1. D \in SUBSET (1..n + 1) /\ n + 1 \in Nat
    OBVIOUS
  <2>2. PICK i \in D : \A k \in D : k <= i
    <3> HIDE DEF D
    <3> QED BY <2>1, Greatest
  <2>3. i \in 1..n
    <3>1. n + 1 \in V /\ n + 1 \in R
      BY <1>2, <1>6
    <3> QED BY <3>1
  <2>4. \A k \in i + 1..n + 1 : k \in V <=> k \in R
    BY <2>2, <2>3
  <2>5. PICK j : J(i, j)
    BY <1>3, <2>3
  <2>6. i \in R <=> j \in R
    BY <1>1, <1>2, <2>3, <2>5, AsciiRun
  <2>7. i \in V <=> Ut!goes_on(s, i) # 0 /\ Ut!goes_on(s, i) \in V
    BY <1>6, <2>3
  <2>8. CASE j > i /\ Ut!goes_on(s, i) = j
    BY <2>3, <2>4, <2>5, <2>6, <2>7, <2>8
  <2>9. CASE /\ j <= n /\ ~Ut!Ascii(s[j])
             /\ Ut!goes_on(s, i) = IF Ut!Character(s, j) = 0 THEN 0 ELSE j + Ut!Character(s, j)
    <3>1. j \in 1..n
      BY <2>3, <2>5, <2>9
    <3>2. PICK e : e = Ut!Character(s, j)
      OBVIOUS
    <3>3. /\ e = 0 \/ (e \in 2..4 /\ j + e \in j + 1..n + 1)
          /\ j \in R <=> e # 0 /\ j + e \in R
      BY <1>4, <2>9, <3>1, <3>2
    <3>4. Ut!goes_on(s, i) = IF e = 0 THEN 0 ELSE j + e
      BY <2>9, <3>2
    <3>5. j \in i..n + 1
      BY <2>5
    <3> HIDE DEF J
    <3> QED BY <2>3, <2>4, <2>6, <2>7, <3>1, <3>3, <3>4, <3>5
  <2> QED BY <2>5, <2>8, <2>9
<1>8. 1 \in 1..n + 1
  OBVIOUS
<1> QED BY <1>2, <1>6, <1>7, <1>8

\* A text stays a sequence of bytes, whatever is written to it.
LEMMA TextStart == ASSUME Ut!Init PROVE Ut!Typed
BY DEF Ut!Init, Ut!Typed

LEMMA TextKeeps ==
  ASSUME Ut!Typed, Ut!Next \/ UNCHANGED <<s1, s2>>
  PROVE  Ut!Typed'
<1> DEFINE Byte == 0..255
<1>1. s1 \in Seq(Byte) /\ s2 \in Nat
  BY DEF Ut!Typed
<1>2. \A piece \in TextPieces : piece \in Seq(Byte)
  BY Assumptions DEF Assumptions, Ut!PieceAssumption
<1> HIDE DEF Byte
<1>3. ASSUME NEW piece \in TextPieces, Ut!Write(piece) PROVE s1' \in Seq(Byte) /\ s2' \in Nat
  <2>1. piece \in Seq(Byte)
    BY <1>2
  <2>2. s1 \o piece \in Seq(Byte)
    BY <1>1, <2>1, ConcatProperties
  <2> QED BY <1>1, <1>3, <2>2 DEF Ut!Write
<1>4. s1' \in Seq(Byte) /\ s2' \in Nat
  BY <1>1, <1>3 DEF Ut!Next
<1> QED BY <1>4 DEF Ut!Typed, Byte

\* The same of the text of a state.
LEMMA TextAgrees == ASSUME Ut!Typed PROVE Ut!Agrees
BY TextIsRow DEF Ut!Typed, Ut!Agrees

-----------------------------------------------------------------------------
(* The digest of websocket/sws.c.                                          *)

\* How many zeros are padded, and where they end.
ZerosOf(n) == CHOOSE k \in 0..63 : (n + 1 + k) % 64 = 56

LEMMA ZerosAre ==
  ASSUME NEW n \in Nat, NEW q \in Nat, NEW rest \in 0..63, n = 64 * q + rest
  PROVE  ZerosOf(n) = IF rest >= 56 THEN 119 - rest ELSE 55 - rest
<1> DEFINE z == IF rest >= 56 THEN 119 - rest ELSE 55 - rest
<1>1. z \in 0..63 /\ (n + 1 + z) % 64 = 56
  <2>1. CASE rest >= 56
    <3>1. n + 1 + z = 64 * (q + 1) + 56
      BY <2>1
    <3> QED BY <2>1, <3>1
  <2>2. CASE rest < 56
    <3>1. n + 1 + z = 64 * q + 56
      BY <2>2
    <3> QED BY <2>2, <3>1
  <2> QED BY <2>1, <2>2
<1>2. ASSUME NEW k \in 0..63, (n + 1 + k) % 64 = 56 PROVE k = z
  BY <1>2
<1> QED BY <1>1, <1>2 DEF ZerosOf

\* Block c + 1 of a sequence of bytes.
LEMMA Slice ==
  ASSUME NEW s, NEW c \in Nat
  PROVE  SubSeq(s, 64 * (c + 1) - 63, 64 * (c + 1)) = [i \in 1..64 |-> s[64 * c + i]]
<1>1. /\ 1 + 64 * (c + 1) - (64 * (c + 1) - 63) = 64
      /\ \A i \in 1..64 : i + (64 * (c + 1) - 63) - 1 = 64 * c + i
  OBVIOUS
<1> QED BY <1>1

\* A text is full blocks and a rest.
LEMMA BlocksOf ==
  ASSUME NEW n \in Nat
  PROVE  \E q \in Nat, rest \in 0..63 :
           /\ n = 64 * q + rest
           /\ Sh!FullBlocks(n) = [b \in 1..q |-> SubSeq(Sh!sarray(n), 64 * b - 63, 64 * b)]
           /\ Len(Sh!FullBlocks(n)) = q
<1> DEFINE q == n \div 64
           rest == n % 64
<1>1. q \in Nat /\ rest \in 0..63 /\ n = 64 * q + rest
  OBVIOUS
<1>2. q = IF n < 64 THEN 0 ELSE (n - 64) \div 64 + 1
  OBVIOUS
<1>3. Sh!FullBlocks(n) = [b \in 1..q |-> SubSeq(Sh!sarray(n), 64 * b - 63, 64 * b)]
  BY <1>2 DEF Sh!FullBlocks
<1>4. Len(Sh!FullBlocks(n)) = q
  BY <1>1, <1>3
<1> QED BY <1>1, <1>3, <1>4

\* What is hashed, byte for byte.
LEMMA PaddedIs ==
  ASSUME NEW n \in Nat, NEW z \in 0..63, ZerosOf(n) = z
  PROVE  /\ Len(Sh!Padded(n)) = n + z + 9
         /\ Sh!Padded(n) =
           [i \in 1..n + z + 9 |->
              IF i <= n THEN 255 + i ELSE IF i = n + 1 THEN 128
              ELSE IF i <= n + z + 5 THEN 0 ELSE Sh!LastWord(n)[i - (n + z + 5)]]
<1> DEFINE zeros == [i \in 1..z + 4 |-> 0]
           last == Sh!LastWord(n)
           S == Int
<1>1. Sh!sarray(n) \in Seq(Int) /\ Len(Sh!sarray(n)) = n
  BY DEF Sh!sarray
<1>2. zeros \in Seq(Int) /\ Len(zeros) = z + 4
  OBVIOUS
<1>3. DOMAIN last = 1..4 /\ last = [i \in 1..4 |-> last[i]]
  BY DEF Sh!LastWord
<1>4. Len(last) = 4 /\ last \in Seq({last[i] : i \in 1..4})
  <2>1. last \in [1..4 -> {last[i] : i \in 1..4}]
    BY <1>3
  <2> QED BY <1>3, <2>1
<1>5. Sh!Padded(n) = Sh!sarray(n) \o <<128>> \o zeros \o last
  BY DEF Sh!Padded, ZerosOf
<1> DEFINE U == Int \cup {last[i] : i \in 1..4}
<1>6. /\ Sh!sarray(n) \in Seq(U) /\ <<128>> \in Seq(U) /\ zeros \in Seq(U) /\ last \in Seq(U)
  BY <1>1, <1>2, <1>4
<1> HIDE DEF zeros, last, U
<1> DEFINE a == Sh!sarray(n) \o <<128>>
<1>7. /\ a \in Seq(U) /\ Len(a) = n + 1
      /\ \A i \in 1..n + 1 : a[i] = IF i <= n THEN 255 + i ELSE 128
  BY <1>6, <1>1 DEF Sh!sarray
<1> HIDE DEF a
<1> DEFINE b == a \o zeros
<1>8. /\ b \in Seq(U) /\ Len(b) = n + z + 5
      /\ \A i \in 1..n + z + 5 : b[i] = IF i <= n + 1 THEN a[i] ELSE 0
  BY <1>6, <1>7, <1>2 DEF zeros
<1> HIDE DEF b
<1> DEFINE p == b \o last
<1>9. /\ p \in Seq(U) /\ Len(p) = n + z + 9
      /\ \A i \in 1..n + z + 9 : p[i] = IF i <= n + z + 5 THEN b[i] ELSE last[i - (n + z + 5)]
  <2>1. p \in Seq(U) /\ Len(p) = Len(b) + Len(last)
    BY <1>6, <1>8, ConcatProperties
  <2>2. \A i \in 1..Len(b) + Len(last) : p[i] = IF i <= Len(b) THEN b[i] ELSE last[i - Len(b)]
    BY <1>6, <1>8, ConcatProperties
  <2> QED BY <2>1, <2>2, <1>4, <1>8
<1> HIDE DEF p
<1>10. p = [i \in 1..n + z + 9 |-> p[i]]
  BY <1>9
<1>11. Sh!Padded(n) = p
  BY <1>5 DEF p, b, a
<1>12. ASSUME NEW i \in 1..n + z + 9
       PROVE p[i] = IF i <= n THEN 255 + i ELSE IF i = n + 1 THEN 128
              ELSE IF i <= n + z + 5 THEN 0 ELSE last[i - (n + z + 5)]
  BY <1>7, <1>8, <1>9
<1>13. [i \in 1..n + z + 9 |-> p[i]] =
         [i \in 1..n + z + 9 |->
            IF i <= n THEN 255 + i ELSE IF i = n + 1 THEN 128
            ELSE IF i <= n + z + 5 THEN 0 ELSE last[i - (n + z + 5)]]
  BY <1>12
<1> QED BY <1>9, <1>10, <1>11, <1>13, Zenon DEF last

\* The bytes of block c + 1 of what is hashed, when z zeros are padded.
BlockBytes(n, z, c) ==
  [i \in 1..64 |->
     IF 64 * c + i <= n THEN 255 + 64 * c + i ELSE IF 64 * c + i = n + 1 THEN 128
     ELSE IF 64 * c + i <= n + z + 5 THEN 0 ELSE Sh!LastWord(n)[64 * c + i - (n + z + 5)]]

LEMMA BlockAt ==
  ASSUME NEW n \in Nat, NEW z \in 0..63, ZerosOf(n) = z, NEW c \in Nat, 64 * c + 64 <= n + z + 9
  PROVE  SubSeq(Sh!Padded(n), 64 * (c + 1) - 63, 64 * (c + 1)) = BlockBytes(n, z, c)
<1> DEFINE p == Sh!Padded(n)
<1>1. p = [i \in 1..n + z + 9 |->
              IF i <= n THEN 255 + i ELSE IF i = n + 1 THEN 128
              ELSE IF i <= n + z + 5 THEN 0 ELSE Sh!LastWord(n)[i - (n + z + 5)]]
  BY PaddedIs
<1> HIDE DEF p
<1>2. SubSeq(p, 64 * (c + 1) - 63, 64 * (c + 1)) = [i \in 1..64 |-> p[64 * c + i]]
  BY Slice
<1>3. ASSUME NEW i \in 1..64
      PROVE  p[64 * c + i] =
              IF 64 * c + i <= n THEN 255 + 64 * c + i ELSE IF 64 * c + i = n + 1 THEN 128
              ELSE IF 64 * c + i <= n + z + 5 THEN 0 ELSE Sh!LastWord(n)[64 * c + i - (n + z + 5)]
  <2>1. 64 * c + i \in 1..n + z + 9 /\ 255 + (64 * c + i) = 255 + 64 * c + i
    OBVIOUS
  <2> QED BY <1>1, <2>1
<1> QED BY <1>2, <1>3, Zenon DEF p, BlockBytes

\* One block or two behind the full ones.
LEMMA Behindmost ==
  ASSUME NEW U, NEW a \in U, NEW b \in U
  PROVE  /\ <<a, b>> \in Seq(U) /\ Len(<<a, b>>) = 2
         /\ <<a, b>>[1] = a /\ <<a, b>>[2] = b
         /\ <<a>> \in Seq(U) /\ Len(<<a>>) = 1 /\ <<a>>[1] = a
OBVIOUS

\* The blocks that are hashed are those of SHA-1.
LEMMA BlocksAgree ==
  ASSUME NEW n \in Nat
  PROVE  /\ Len(Sh!Padded(n)) = 64 * Len(Sh!shacalc(n))
         /\ \A b \in DOMAIN Sh!shacalc(n) :
              Sh!shacalc(n)[b] = SubSeq(Sh!Padded(n), 64 * b - 63, 64 * b)
<1>1. PICK q \in Nat, rest \in 0..63 :
           /\ n = 64 * q + rest
           /\ Sh!FullBlocks(n) = [b \in 1..q |-> SubSeq(Sh!sarray(n), 64 * b - 63, 64 * b)]
           /\ Len(Sh!FullBlocks(n)) = q
  BY BlocksOf
<1> DEFINE z == IF rest >= 56 THEN 119 - rest ELSE 55 - rest
           full == Sh!FullBlocks(n)
           last == Sh!LastBlocks(n)
           more == IF rest >= 56 THEN 2 ELSE 1
           word == Sh!LastWord(n)
           rests == [i \in 1..64 |-> IF i <= rest THEN 255 + 64 * q + i
                                     ELSE IF i = rest + 1 THEN 128 ELSE 0]
           tail == [i \in 1..64 |-> IF i > 60 THEN word[i - 60] ELSE 0]
           both == [i \in 1..64 |-> IF i > 60 THEN word[i - 60] ELSE rests[i]]
<1>2. z \in 0..63 /\ ZerosOf(n) = z
  BY <1>1, ZerosAre
<1>3. ASSUME NEW b \in 1..q PROVE full[b] = [i \in 1..64 |-> 255 + 64 * (b - 1) + i]
  <2>1. full[b] = SubSeq(Sh!sarray(n), 64 * b - 63, 64 * b)
    BY <1>1
  <2>2. b - 1 \in Nat /\ (b - 1) + 1 = b /\ 64 * b <= n
    BY <1>1
  <2>3. full[b] = [i \in 1..64 |-> Sh!sarray(n)[64 * (b - 1) + i]]
    BY <2>1, <2>2, Slice
  <2>4. \A i \in 1..64 : Sh!sarray(n)[64 * (b - 1) + i] = 255 + 64 * (b - 1) + i
    BY <2>2 DEF Sh!sarray
  <2> HIDE DEF full
  <2> QED BY <2>3, <2>4
<1>4. ASSUME NEW w PROVE Sh!SetLastWord(w, n) = [i \in 1..64 |-> IF i > 60 THEN word[i - 60] ELSE w[i]]
  BY DEF Sh!SetLastWord
<1>5. last = IF rest >= 56 THEN <<rests, tail>> ELSE <<both>>
  <2> DEFINE w == [i \in 1..64 |-> IF i <= rest THEN Sh!sarray(n)[64 * q + i]
                            ELSE IF i = rest + 1 THEN 128 ELSE Sh!Clear[i]]
  <2> DEFINE W(cur, r) == [i \in 1..64 |-> IF i <= r THEN Sh!sarray(n)[cur + i]
                                        ELSE IF i = r + 1 THEN 128 ELSE Sh!Clear[i]]
             L(cur, r) == IF r >= 56 THEN <<W(cur, r), Sh!SetLastWord(Sh!Clear, n)>>
                          ELSE <<Sh!SetLastWord(W(cur, r), n)>>
  <2>1. 64 * Len(full) = 64 * q /\ n - 64 * q = rest
    <3>1. Len(full) = q
      BY <1>1, Zenon
    <3> HIDE DEF full
    <3> QED BY <1>1, <3>1
  <2>2. last = IF rest >= 56 THEN <<w, Sh!SetLastWord(Sh!Clear, n)>> ELSE <<Sh!SetLastWord(w, n)>>
    <3>1. last = L(64 * Len(full), n - 64 * Len(full))
      BY Zenon DEF Sh!LastBlocks
    <3>2. last = L(64 * q, rest)
      <4>1. n - 64 * Len(full) = rest
        <5> HIDE DEF full
        <5> QED BY <2>1
      <4> HIDE DEF L, last, full
      <4> QED BY <2>1, <3>1, <4>1, Zenon
    <3> QED BY <3>2, Zenon
  <2>3. w = rests
    BY <1>1 DEF Sh!sarray, Sh!Clear
  <2>4. [i \in 1..64 |-> IF i > 60 THEN word[i - 60] ELSE Sh!Clear[i]] =
        [i \in 1..64 |-> IF i > 60 THEN word[i - 60] ELSE 0]
    BY DEF Sh!Clear
  <2> HIDE DEF w, rests, word
  <2> QED BY <1>4, <2>2, <2>3, <2>4
<1> DEFINE U == {full[b] : b \in 1..q} \cup {rests, tail, both}
<1>6. /\ full \in Seq(U) /\ last \in Seq(U) /\ Len(full) = q /\ Len(last) = more
      /\ rest >= 56 => last[1] = rests /\ last[2] = tail
      /\ rest < 56 => last[1] = both
  <2>1. full = [b \in 1..q |-> full[b]] /\ Len(full) = q
    BY <1>1, Zenon
  <2> HIDE DEF full, rests, tail, both
  <2>2. full \in Seq(U)
    <3>1. full \in [1..q -> U]
      BY <2>1
    <3> QED BY <3>1
  <2>3. CASE rest >= 56
    <3>1. last = <<rests, tail>>
      BY <1>5, <2>3
    <3>2. rests \in U /\ tail \in U /\ more = 2
      BY <2>3
    <3> HIDE DEF last, U, more
    <3>3. /\ last \in Seq(U) /\ Len(last) = 2 /\ last[1] = rests /\ last[2] = tail
      BY <3>1, <3>2, Behindmost
    <3>4. ~(rest < 56)
      BY <2>3
    <3> QED BY <2>1, <2>2, <2>3, <3>2, <3>3, <3>4, Zenon
  <2>4. CASE rest < 56
    <3>1. last = <<both>>
      BY <1>5, <2>4
    <3>2. both \in U /\ more = 1
      BY <2>4
    <3> HIDE DEF last, U, more
    <3>3. /\ last \in Seq(U) /\ Len(last) = 1 /\ last[1] = both
      BY <3>1, <3>2, Behindmost
    <3>4. ~(rest >= 56)
      BY <2>4
    <3> QED BY <2>1, <2>2, <2>4, <3>2, <3>3, <3>4, Zenon
  <2> QED BY <2>3, <2>4
<1>7. /\ Len(Sh!shacalc(n)) = q + more
      /\ DOMAIN Sh!shacalc(n) = 1..q + more
      /\ \A b \in 1..q + more : Sh!shacalc(n)[b] = IF b <= q THEN full[b] ELSE last[b - q]
  <2> HIDE DEF full, last, more, U
  <2>1. /\ full \o last \in Seq(U) /\ Len(full \o last) = q + more
        /\ \A b \in 1..q + more : (full \o last)[b] = IF b <= q THEN full[b] ELSE last[b - q]
    <3>1. full \in Seq(U) /\ last \in Seq(U) /\ Len(full) = q /\ Len(last) = more
      BY <1>6
    <3>2. /\ full \o last \in Seq(U) /\ Len(full \o last) = Len(full) + Len(last)
          /\ \A b \in 1..Len(full) + Len(last) :
               (full \o last)[b] = IF b <= Len(full) THEN full[b] ELSE last[b - Len(full)]
      BY <3>1, ConcatProperties
    <3> QED BY <3>1, <3>2
  <2>2. PICK g : g = full \o last
    OBVIOUS
  <2>3. Sh!shacalc(n) = g
    BY <2>2 DEF Sh!shacalc, full, last
  <2>4. /\ g \in Seq(U) /\ Len(g) = q + more
        /\ \A b \in 1..q + more : g[b] = IF b <= q THEN full[b] ELSE last[b - q]
    BY <2>1, <2>2, Zenon
  <2>5. DOMAIN g = 1..Len(g)
    BY <2>4
  <2> QED BY <2>3, <2>4, <2>5, Zenon
<1>8. n + z + 9 = 64 * (q + more)
  BY <1>1
<1>9. Len(Sh!Padded(n)) = 64 * (q + more)
  BY <1>2, <1>8, PaddedIs
<1>10. ASSUME NEW c \in 0..q + more - 1
       PROVE  Sh!shacalc(n)[c + 1] = BlockBytes(n, z, c)
  <2> DEFINE block == BlockBytes(n, z, c)
  <2> HIDE DEF word, full, last, rests, tail, both
  <2>2. CASE c < q
    <3>1. Sh!shacalc(n)[c + 1] = full[c + 1]
      BY <1>7, <2>2
    <3>2. full[c + 1] = [i \in 1..64 |-> 255 + 64 * c + i]
      BY <1>3, <2>2
    <3>3. 64 * c + 64 <= n
      BY <1>1, <2>2
    <3>4. block = [i \in 1..64 |-> 255 + 64 * c + i]
      <4> HIDE DEF z
      <4>1. \A i \in 1..64 : 64 * c + i <= n
        BY <3>3
      <4> QED BY <4>1 DEF BlockBytes
    <3>5. Sh!shacalc(n)[c + 1] = [i \in 1..64 |-> 255 + 64 * c + i]
      BY <3>1, <3>2, Zenon
    <3> HIDE DEF block
    <3> QED BY <3>4, <3>5, Zenon DEF block
  <2>3. CASE c = q /\ rest < 56
    <3>1. Sh!shacalc(n)[c + 1] = both
      <4>1. c + 1 \in 1..q + more /\ ~(c + 1 <= q) /\ (c + 1) - q = 1
        BY <2>3
      <4> QED BY <1>6, <1>7, <2>3, <4>1
    <3>2. n = 64 * c + rest /\ n + z + 5 = 64 * c + 60
      BY <1>1, <2>3
    <3> QED BY <2>3, <3>1, <3>2 DEF rests, tail, both, word, BlockBytes
  <2>4. CASE c = q /\ rest >= 56
    <3>1. Sh!shacalc(n)[c + 1] = rests
      <4>1. c + 1 \in 1..q + more /\ ~(c + 1 <= q) /\ (c + 1) - q = 1
        BY <2>4
      <4> QED BY <1>6, <1>7, <2>4, <4>1
    <3>2. n = 64 * c + rest /\ n + z + 5 = 64 * c + 124
      BY <1>1, <2>4
    <3> QED BY <2>4, <3>1, <3>2 DEF rests, tail, both, word, BlockBytes
  <2>5. CASE c = q + 1 /\ rest >= 56
    <3>1. Sh!shacalc(n)[c + 1] = tail
      <4>1. c + 1 \in 1..q + more /\ ~(c + 1 <= q) /\ (c + 1) - q = 2
        BY <2>5
      <4> QED BY <1>6, <1>7, <2>5, <4>1
    <3>2. n + 1 < 64 * c + 1 /\ n + z + 5 = 64 * c + 60
      BY <1>1, <2>5
    <3> QED BY <2>5, <3>1, <3>2 DEF tail, word, BlockBytes
  <2> QED BY <2>2, <2>3, <2>4, <2>5
<1>11. ASSUME NEW b \in 1..q + more
       PROVE  Sh!shacalc(n)[b] = SubSeq(Sh!Padded(n), 64 * b - 63, 64 * b)
  <2>1. PICK c \in 0..q + more - 1 : b = c + 1
    <3>1. b - 1 \in 0..q + more - 1 /\ b = (b - 1) + 1
      BY <1>1
    <3> QED BY <3>1
  <2>2. Sh!shacalc(n)[c + 1] = BlockBytes(n, z, c)
    BY <1>10
  <2>3. SubSeq(Sh!Padded(n), 64 * (c + 1) - 63, 64 * (c + 1)) = BlockBytes(n, z, c)
    <3>1. 64 * c + 64 <= n + z + 9 /\ c \in Nat
      BY <1>1, <1>8
    <3>2. z \in 0..63 /\ ZerosOf(n) = z
      BY <1>2
    <3> HIDE DEF z
    <3> QED BY <3>1, <3>2, BlockAt, Zenon
  <2> QED BY <2>1, <2>2, <2>3, Zenon
<1> QED BY <1>7, <1>9, <1>11

\* The length that is hashed stays within its bound.
LEMMA LengthStart == ASSUME Sh!Init PROVE Sh!Typed
BY Assumptions, SMT DEF Assumptions, Sh!LengthAssumption, Sh!Init, Sh!Typed

LEMMA LengthKeeps ==
  ASSUME Sh!Typed, Sh!Next \/ UNCHANGED s1
  PROVE  Sh!Typed'
BY Assumptions, SMT DEF Assumptions, Sh!LengthAssumption, Sh!Next, Sh!Typed

LEMMA HashAgrees == ASSUME Sh!Typed PROVE Sh!Agrees
<1>1. s1 \in Nat
  BY Assumptions, SMT DEF Assumptions, Sh!LengthAssumption, Sh!Typed
<1> QED BY <1>1, BlocksAgree, Zenon DEF Sh!Agrees

-----------------------------------------------------------------------------
(* The frames of the WebSocket programs.                                   *)

FrameByte == Int \cup SUBSET Int

\* The sequence of two sequences of bytes, by its places.
LEMMA Concat ==
  ASSUME NEW a \in Seq(FrameByte), NEW b \in Seq(FrameByte)
  PROVE  /\ a \o b \in Seq(FrameByte) /\ Len(a \o b) = Len(a) + Len(b)
         /\ \A i \in 1..Len(a) + Len(b) : (a \o b)[i] = IF i <= Len(a) THEN a[i] ELSE b[i - Len(a)]
         /\ Len(a) \in Nat /\ Len(b) \in Nat
BY ConcatProperties

\* Sequences with the same bytes at the same places are the same.
LEMMA SameSequence ==
  ASSUME NEW a \in Seq(FrameByte), NEW b \in Seq(FrameByte), Len(a) = Len(b),
         \A i \in 1..Len(a) : a[i] = b[i]
  PROVE  a = b
OBVIOUS

PayloadByte(n, m, j) == IF m = 1 THEN {100 + j, 1 + ((j - 1) % 4)} ELSE {100 + j}

\* The bytes of a payload, and the key.
LEMMA PayloadIs ==
  ASSUME NEW n \in Nat, NEW m \in {0, 1}
  PROVE  /\ Fr!Payload(n, m) \in Seq(FrameByte) /\ Len(Fr!Payload(n, m)) = n
         /\ \A j \in 1..n : Fr!Payload(n, m)[j] = PayloadByte(n, m, j)
<1>1. ASSUME NEW j \in 1..n PROVE PayloadByte(n, m, j) \in FrameByte
  BY DEF PayloadByte, FrameByte
<1>2. Fr!Payload(n, m) = [j \in 1..n |-> PayloadByte(n, m, j)]
  BY DEF Fr!Payload, PayloadByte
<1> QED BY <1>1, <1>2

LEMMA KeyIs ==
  /\ Fr!Key \in Seq(FrameByte) /\ Len(Fr!Key) = 4
  /\ \A i \in 1..4 : Fr!Key[i] = {i}
<1>1. \A i \in 1..4 : {i} \in FrameByte
  BY DEF FrameByte
<1> QED BY <1>1 DEF Fr!Key

\* A size is written in one of three ways.
LEMMA Exclusive ==
  ASSUME NEW n \in Nat
  PROVE  /\ ~(Fr!Short(n) /\ Fr!Medium(n))
         /\ ~Fr!Short(n) /\ ~Fr!Medium(n) => 65536 <= n
         /\ Fr!Short(n) => n < 126
         /\ Fr!Medium(n) => n < 65536
BY SMT DEF Fr!Short, Fr!Medium

\* The header of a short frame.
LEMMA HeaderOfShort ==
  ASSUME NEW n \in Nat, n < 126, NEW m
  PROVE  Fr!FormatHeader(n, m) = <<130, n + 128 * m>>
<1>1. Fr!Short(n) /\ ~Fr!Medium(n)
  BY SMT DEF Fr!Short, Fr!Medium
<1> QED BY <1>1 DEF Fr!FormatHeader

\* A short frame, byte for byte.
LEMMA ShortFrame ==
  ASSUME NEW n \in Nat, n < 126, NEW m \in {0, 1}
  PROVE  LET f == Fr!Format(n, m)
         IN  /\ f \in Seq(FrameByte) /\ Len(f) = n + 2 + 4 * m
             /\ f[1] = 130 /\ f[2] = n + 128 * m
             /\ \A j \in 1..n : f[j + 2 + 4 * m] = PayloadByte(n, m, j)
<1> DEFINE h == <<130, n + 128 * m>>
           k == IF m = 1 THEN Fr!Key ELSE <<>>
           p == Fr!Payload(n, m)
           f == Fr!Format(n, m)
<1>0. Fr!FormatHeader(n, m) = h
  BY HeaderOfShort
<1>1. f = h \o k \o p
  BY <1>0, Zenon DEF Fr!Format
<1>2. h \in Seq(FrameByte) /\ Len(h) = 2 /\ h[1] = 130 /\ h[2] = n + 128 * m
  BY DEF FrameByte
<1>3. k \in Seq(FrameByte) /\ Len(k) = 4 * m
  <2>1. CASE m = 1
    BY <2>1, KeyIs
  <2>2. CASE m = 0
    <3>1. k = << >> /\ 4 * m = 0
      BY <2>2
    <3> HIDE DEF k
    <3> QED BY <3>1
  <2> QED BY <2>1, <2>2
<1>4. p \in Seq(FrameByte) /\ Len(p) = n /\ \A j \in 1..n : p[j] = PayloadByte(n, m, j)
  <2>1. n \in Nat
    OBVIOUS
  <2> QED BY <2>1, PayloadIs, Zenon
<1> HIDE DEF h, k, p, f
<1> DEFINE a == h \o k
<1>5. /\ a \in Seq(FrameByte) /\ Len(a) = 2 + 4 * m
      /\ \A i \in 1..2 + 4 * m : a[i] = IF i <= 2 THEN h[i] ELSE k[i - 2]
  <2>1. /\ a \in Seq(FrameByte) /\ Len(a) = Len(h) + Len(k)
        /\ \A i \in 1..Len(h) + Len(k) : a[i] = IF i <= Len(h) THEN h[i] ELSE k[i - Len(h)]
    <3>1. h \in Seq(FrameByte) /\ k \in Seq(FrameByte)
      BY <1>2, <1>3
    <3> QED BY <3>1, Concat, Zenon
  <2> HIDE DEF a
  <2> QED BY <1>2, <1>3, <2>1
<1>6. f = a \o p
  BY <1>1
<1> HIDE DEF a
<1>7. /\ f \in Seq(FrameByte) /\ Len(f) = n + 2 + 4 * m
      /\ \A i \in 1..n + 2 + 4 * m : f[i] = IF i <= 2 + 4 * m THEN a[i] ELSE p[i - (2 + 4 * m)]
  <2>1. /\ f \in Seq(FrameByte) /\ Len(f) = Len(a) + Len(p)
        /\ \A i \in 1..Len(a) + Len(p) : f[i] = IF i <= Len(a) THEN a[i] ELSE p[i - Len(a)]
    BY <1>4, <1>5, <1>6, Concat
  <2>2. Len(a) + Len(p) = n + 2 + 4 * m
    BY <1>4, <1>5
  <2> QED BY <1>4, <1>5, <2>1, <2>2
<1>8. f[1] = 130 /\ f[2] = n + 128 * m
  BY <1>2, <1>5, <1>7
<1>9. ASSUME NEW j \in 1..n PROVE f[j + 2 + 4 * m] = PayloadByte(n, m, j)
  <2>1. /\ j + 2 + 4 * m \in 1..n + 2 + 4 * m /\ ~(j + 2 + 4 * m <= 2 + 4 * m)
        /\ (j + 2 + 4 * m) - (2 + 4 * m) = j
    OBVIOUS
  <2> QED BY <1>4, <1>7, <2>1
<1> QED BY <1>7, <1>8, <1>9 DEF f

\* The bytes of its header.
OfShort(n, m, b) == b[1] = 130 /\ b[2] = n + 128 * m

\* What the server reads of its header.
LEMMA ShortHeader ==
  ASSUME NEW n \in Nat, n < 126, NEW m \in {0, 1}, NEW b, OfShort(n, m, b)
  PROVE  Fr!Message(b) = [op |-> 2, mask |-> m, start |-> 2 + 4 * m, len |-> n]
<1>1. b[2] % 128 = n /\ b[2] \div 128 = m /\ b[1] % 16 = 2
  BY DEF OfShort
<1>2. n # 126 /\ n # 127
  OBVIOUS
<1> HIDE <1>1, <1>2
<1> QED BY <1>1, <1>2 DEF Fr!Message

\* Masking a byte of the payload again unmasks it.
LEMMA Unmasks ==
  ASSUME NEW n \in Nat, NEW j \in 1..n
  PROVE  Fr!Toggle(PayloadByte(n, 1, j), 1 + ((j - 1) % 4)) = PayloadByte(n, 0, j)
<1>1. 1 + ((j - 1) % 4) \in 1..4 /\ 100 + j > 4
  OBVIOUS
<1> QED BY <1>1 DEF Fr!Toggle, PayloadByte

\* The bytes of a masked frame, after Mask.
LEMMA Unmasked ==
  ASSUME NEW n \in Nat, n < 126, NEW b \in Seq(FrameByte), n + 6 <= Len(b),
         \A j \in 1..n : b[j + 6] = PayloadByte(n, 1, j)
  PROVE  SubSeq(Fr!Mask(b, 6, n), 7, 6 + n) = [j \in 1..n |-> PayloadByte(n, 0, j)]
<1> DEFINE u == Fr!Mask(b, 6, n)
<1>1. ASSUME NEW j \in 1..n PROVE u[j + 6] = PayloadByte(n, 0, j)
  <2>0. n <= 4 * ((n + 3) \div 4)
    OBVIOUS
  <2>1. j + 6 \in DOMAIN b /\ (j + 6) - 6 = j /\ j \in 1..4 * ((n + 3) \div 4) /\ (j + 6) - 6 - 1 = j - 1
    BY <2>0
  <2>2. u[j + 6] = Fr!Toggle(b[j + 6], 1 + ((j - 1) % 4))
    BY <2>1 DEF Fr!Mask
  <2>3. b[j + 6] = PayloadByte(n, 1, j) /\ n \in Nat
    OBVIOUS
  <2> HIDE DEF u
  <2> QED BY <2>2, <2>3, Unmasks
<1> HIDE DEF u
<1>2. SubSeq(u, 7, 6 + n) = [j \in 1..n |-> u[j + 6]]
  <2>1. 1 + (6 + n) - 7 = n /\ \A j \in 1..n : j + 7 - 1 = j + 6
    OBVIOUS
  <2> QED BY <2>1
<1> QED BY <1>1, <1>2 DEF u

\* A sequence with the bytes of a short frame that is not masked is that frame.
BytesOfShort(n, e) ==
  /\ e \in Seq(FrameByte) /\ Len(e) = n + 2 /\ e[1] = 130 /\ e[2] = n
  /\ \A j \in 1..n : e[j + 2] = PayloadByte(n, 0, j)

LEMMA IsShort ==
  ASSUME NEW n \in Nat, n < 126, NEW e, BytesOfShort(n, e)
  PROVE  e = Fr!Format(n, 0)
<1> USE DEF BytesOfShort
<1> DEFINE f == Fr!Format(n, 0)
<1>1. /\ f \in Seq(FrameByte) /\ Len(f) = n + 2 /\ f[1] = 130 /\ f[2] = n
      /\ \A j \in 1..n : f[j + 2] = PayloadByte(n, 0, j)
  <2>1. 4 * 0 = 0 /\ 128 * 0 = 0 /\ n + 0 = n /\ (n + 2) + 0 = n + 2 /\ 0 \in {0, 1}
        /\ \A j \in 1..n : (j + 2) + 0 = j + 2
    OBVIOUS
  <2>2. /\ f \in Seq(FrameByte) /\ Len(f) = n + 2 + 4 * 0 /\ f[1] = 130 /\ f[2] = n + 128 * 0
        /\ \A j \in 1..n : f[j + 2 + 4 * 0] = PayloadByte(n, 0, j)
    BY <2>1, ShortFrame
  <2> HIDE DEF f
  <2> QED BY <2>1, <2>2
<1> HIDE DEF f
<1>2. ASSUME NEW i \in 1..n + 2 PROVE e[i] = f[i]
  <2>1. CASE i = 1 \/ i = 2
    BY <1>1, <2>1
  <2>2. CASE i > 2
    <3>1. PICK j \in 1..n : i = j + 2
      BY <2>2
    <3>2. e[j + 2] = PayloadByte(n, 0, j) /\ f[j + 2] = PayloadByte(n, 0, j)
      BY <1>1, Zenon
    <3> QED BY <3>1, <3>2, Zenon
  <2>3. i = 1 \/ i = 2 \/ i > 2
    OBVIOUS
  <2> QED BY <2>1, <2>2, <2>3, Zenon
<1>3. e = f
  BY <1>1, <1>2, SameSequence
<1> QED BY <1>3 DEF f

\* A short frame comes back unmasked.
LEMMA ShortEchoed ==
  ASSUME NEW n \in Nat, n < 126, NEW m \in {0, 1}, NEW junk \in Seq(FrameByte)
  PROVE  Fr!Echo(Fr!Format(n, m) \o junk) = Fr!Format(n, 0)
<1> DEFINE f == Fr!Format(n, m)
           b == f \o junk
<1>1. /\ f \in Seq(FrameByte) /\ Len(f) = n + 2 + 4 * m /\ f[1] = 130 /\ f[2] = n + 128 * m
      /\ \A j \in 1..n : f[j + 2 + 4 * m] = PayloadByte(n, m, j)
  <2>1. m \in {0, 1} /\ n \in Nat /\ n < 126
    OBVIOUS
  <2> HIDE DEF b, f
  <2>2. \A k \in {0, 1} : LET g == Fr!Format(n, k)
         IN  /\ g \in Seq(FrameByte) /\ Len(g) = n + 2 + 4 * k
             /\ g[1] = 130 /\ g[2] = n + 128 * k
             /\ \A j \in 1..n : g[j + 2 + 4 * k] = PayloadByte(n, k, j)
    BY ShortFrame
  <2> QED BY <2>1, <2>2 DEF f
<1> HIDE DEF f
<1>2. /\ b \in Seq(FrameByte) /\ Len(junk) \in Nat /\ Len(b) = n + 2 + 4 * m + Len(junk)
      /\ \A i \in 1..n + 2 + 4 * m : b[i] = f[i]
  <2>1. /\ b \in Seq(FrameByte) /\ Len(b) = Len(f) + Len(junk) /\ Len(junk) \in Nat
        /\ \A i \in 1..Len(f) + Len(junk) : b[i] = IF i <= Len(f) THEN f[i] ELSE junk[i - Len(f)]
    <3>1. f \in Seq(FrameByte) /\ junk \in Seq(FrameByte)
      BY <1>1
    <3> QED BY <3>1, Concat, Zenon
  <2> HIDE DEF b
  <2> QED BY <1>1, <2>1
<1> HIDE DEF b
<1>3. /\ b[1] = 130 /\ b[2] = n + 128 * m
      /\ \A j \in 1..n : b[j + 2 + 4 * m] = PayloadByte(n, m, j)
  BY <1>1, <1>2
<1>4. Fr!Message(b) = [op |-> 2, mask |-> m, start |-> 2 + 4 * m, len |-> n]
  <2>1. OfShort(n, m, b)
    BY <1>3 DEF OfShort
  <2> QED BY <2>1, ShortHeader, Zenon
<1>5. CASE m = 0
  <2>1. Fr!Echo(b) = SubSeq(b, 1, 2 + n)
    BY <1>4, <1>5 DEF Fr!Echo
  <2>2. SubSeq(b, 1, 2 + n) = [i \in 1..2 + n |-> b[i]]
    OBVIOUS
  <2> DEFINE e == [i \in 1..2 + n |-> b[i]]
  <2>3. e \in Seq(FrameByte) /\ Len(e) = n + 2 /\ \A i \in 1..n + 2 : e[i] = b[i]
    <3>1. 2 + n \in Nat /\ n + 2 = 2 + n /\ \A i \in 1..2 + n : b[i] \in FrameByte
      BY <1>2, <1>5
    <3>2. e \in Seq(FrameByte) /\ Len(e) = 2 + n /\ \A i \in 1..2 + n : e[i] = b[i]
      BY <3>1
    <3> HIDE DEF e
    <3> QED BY <3>1, <3>2
  <2> HIDE DEF e
  <2>4. /\ e[1] = 130 /\ e[2] = n
        /\ \A j \in 1..n : e[j + 2] = PayloadByte(n, 0, j)
    BY <1>3, <1>5, <2>3
  <2>5. e = Fr!Format(n, 0)
    <3>1. BytesOfShort(n, e)
      BY <2>3, <2>4 DEF BytesOfShort
    <3> QED BY <3>1, IsShort, Zenon
  <2> QED BY <2>1, <2>2, <2>5 DEF b, f, e
<1>6. CASE m = 1
  <2> DEFINE h == SubSeq([b EXCEPT ![2] = @ % 128], 1, 2)
             p == SubSeq(Fr!Mask(b, 6, n), 7, 6 + n)
             e == h \o p
  <2>1. Fr!Echo(b) = e
    <3>1. 6 - 4 = 2 /\ 6 + 1 = 7 /\ 2 + 4 * m = 6 /\ 1 # 0
      BY <1>6
    <3>2. Fr!Message(b) = [op |-> 2, mask |-> 1, start |-> 6, len |-> n]
      BY <1>4, <1>6, <3>1
    <3> HIDE <1>6
    <3> QED BY <3>1, <3>2 DEF Fr!Echo
  <2>2. /\ h \in Seq(FrameByte) /\ Len(h) = 2 /\ h[1] = 130 /\ h[2] = n
    <3> DEFINE c == [b EXCEPT ![2] = @ % 128]
    <3>1. c \in Seq(FrameByte) /\ Len(c) = Len(b) /\ 2 <= Len(b) /\ c[1] = 130 /\ c[2] = n
      <4>1. 2 \in DOMAIN b /\ (n + 128) % 128 = n /\ 1 # 2 /\ n \in FrameByte
        BY <1>2, <1>6 DEF FrameByte
      <4> QED BY <1>2, <1>3, <1>6, <4>1
    <3> HIDE DEF c
    <3>2. SubSeq(c, 1, 2) = [i \in 1..2 |-> c[i]]
      BY <3>1
    <3>3. \A i \in 1..2 : c[i] \in FrameByte
      BY <3>1
    <3> QED BY <3>1, <3>2, <3>3 DEF c
  <2>3. p = [j \in 1..n |-> PayloadByte(n, 0, j)]
    <3>1. n + 6 <= Len(b) /\ \A j \in 1..n : b[j + 6] = PayloadByte(n, 1, j)
      BY <1>2, <1>3, <1>6
    <3> QED BY <1>2, <3>1, Unmasked
  <2>4. p \in Seq(FrameByte) /\ Len(p) = n /\ \A j \in 1..n : p[j] = PayloadByte(n, 0, j)
    <3>1. \A j \in 1..n : PayloadByte(n, 0, j) \in FrameByte
      BY DEF PayloadByte, FrameByte
    <3> HIDE DEF p
    <3> QED BY <2>3, <3>1
  <2> HIDE DEF h, p
  <2>5. /\ e \in Seq(FrameByte) /\ Len(e) = Len(h) + Len(p)
        /\ \A i \in 1..Len(h) + Len(p) : e[i] = IF i <= Len(h) THEN h[i] ELSE p[i - Len(h)]
    <3>1. h \in Seq(FrameByte) /\ p \in Seq(FrameByte)
      BY <2>2, <2>4
    <3> QED BY <3>1, Concat, Zenon
  <2> HIDE DEF e
  <2>6. /\ Len(e) = n + 2 /\ e[1] = 130 /\ e[2] = n
        /\ \A j \in 1..n : e[j + 2] = PayloadByte(n, 0, j)
    BY <2>2, <2>4, <2>5
  <2>7. e = Fr!Format(n, 0)
    <3>1. BytesOfShort(n, e)
      BY <2>5, <2>6 DEF BytesOfShort
    <3> QED BY <3>1, IsShort, Zenon
  <2> QED BY <2>1, <2>7 DEF b, f
<1> QED BY <1>5, <1>6

\* A number is that of its bytes.
LEMMA OfBytes ==
  ASSUME NEW n \in Nat
  PROVE  /\ n = 256 * (n \div 256) + (n % 256)
         /\ n = 65536 * (256 * (n \div 16777216) + ((n \div 65536) % 256))
                  + (256 * ((n \div 256) % 256) + (n % 256))
         /\ n \div 16777216 \in Nat /\ (n \div 65536) % 256 \in Nat /\ (n \div 256) % 256 \in Nat
         /\ n % 256 \in Nat /\ n \div 256 \in Nat
<1> DEFINE q == n \div 256
           r == q \div 256
<1>1. q \in Nat /\ n = 256 * q + (n % 256) /\ n % 256 \in 0..255
  OBVIOUS
<1>2. r \in Nat /\ q = 256 * r + (q % 256) /\ q % 256 \in 0..255
  BY <1>1
<1>3. r \div 256 \in Nat /\ r = 256 * (r \div 256) + (r % 256) /\ r % 256 \in 0..255
  BY <1>2
<1>4. n \div 65536 = r
  OBVIOUS
<1>5. n \div 16777216 = r \div 256
  OBVIOUS
<1> HIDE DEF q, r
<1>6. n = 65536 * (256 * (r \div 256) + (r % 256)) + (256 * (q % 256) + (n % 256))
  BY <1>1, <1>2, <1>3
<1> QED BY <1>1, <1>2, <1>3, <1>4, <1>5, <1>6 DEF q

\* What a sequence begins with.
LEMMA Begins ==
  ASSUME NEW x \in Seq(Int), NEW y \in Seq(Int)
  PROVE  SubSeq(x \o y, 1, Len(x)) = x /\ SubSeq(x, 1, Len(x)) = x
OBVIOUS

\* The headers of four and of ten bytes, and what the client sends as such.
Middle(n, m) == <<130, 126 + 128 * m>> \o <<n \div 256, n % 256>>
MiddleSent(n, m) == <<130, 126 + 16 * m, n \div 256, n % 256>>
Long(n, m) == <<130, 127 + 128 * m>> \o Fr!Zeros \o Fr!BigEndian4(n)
LongSent(n, m) == <<130, 127 + 16 * m>> \o Fr!Zeros \o Fr!BigEndian4(n) \o Fr!Zeros

LEMMA HeaderOfMiddle ==
  ASSUME NEW n \in Nat, Fr!Medium(n), NEW m
  PROVE  /\ Fr!FormatHeader(n, m) = Middle(n, m)
         /\ Fr!Header(n, m) = MiddleSent(n, m)
         /\ Fr!Length(n, m) = n + 4 + 4 * m
<1>1. ~Fr!Short(n)
  BY Exclusive
<1>2. Fr!FormatHeader(n, m) = Middle(n, m)
  BY <1>1 DEF Fr!FormatHeader, Fr!BigEndian2, Middle
<1>3. Fr!Header(n, m) = MiddleSent(n, m)
  BY <1>1 DEF Fr!Header, MiddleSent
<1>4. Fr!Length(n, m) = n + 4 + 4 * m
  BY <1>1 DEF Fr!Length
<1> QED BY <1>2, <1>3, <1>4

LEMMA HeaderOfLong ==
  ASSUME NEW n \in Nat, ~Fr!Short(n), ~Fr!Medium(n), NEW m
  PROVE  /\ Fr!FormatHeader(n, m) = Long(n, m)
         /\ Fr!Header(n, m) = LongSent(n, m)
         /\ Fr!Length(n, m) = n + 10 + 4 * m
<1>1. Fr!FormatHeader(n, m) = Long(n, m)
  BY DEF Fr!FormatHeader, Long
<1>2. Fr!Header(n, m) = LongSent(n, m)
  BY DEF Fr!Header, LongSent
<1>3. Fr!Length(n, m) = n + 10 + 4 * m
  BY DEF Fr!Length
<1> QED BY <1>1, <1>2, <1>3

LEMMA MiddleBytes ==
  ASSUME NEW n, NEW m
  PROVE  /\ Middle(n, m)[2] = 126 + 128 * m
         /\ Middle(n, m)[3] = n \div 256 /\ Middle(n, m)[4] = n % 256
BY DEF Middle

LEMMA MiddleBegins ==
  ASSUME NEW n \in Nat, NEW m \in Int
  PROVE  /\ Len(Middle(n, m)) = 4
         /\ m = 0 => SubSeq(MiddleSent(n, m), 1, 4) = Middle(n, m)
<1>1. Len(Middle(n, m)) = 4
  BY DEF Middle
<1>2. ASSUME m = 0 PROVE SubSeq(MiddleSent(n, m), 1, 4) = Middle(n, m)
  BY <1>2 DEF Middle, MiddleSent
<1> QED BY <1>1, <1>2, Zenon

LEMMA LongBytes ==
  ASSUME NEW n, NEW m
  PROVE  /\ Long(n, m)[2] = 127 + 128 * m
         /\ Long(n, m)[3] = 0 /\ Long(n, m)[4] = 0 /\ Long(n, m)[5] = 0 /\ Long(n, m)[6] = 0
         /\ Long(n, m)[7] = n \div 16777216 /\ Long(n, m)[8] = (n \div 65536) % 256
         /\ Long(n, m)[9] = (n \div 256) % 256 /\ Long(n, m)[10] = n % 256
BY SMT DEF Long, Fr!Zeros, Fr!BigEndian4

LEMMA Lengths ==
  ASSUME NEW a \in Seq(Int), NEW b \in Seq(Int)
  PROVE  a \o b \in Seq(Int) /\ Len(a \o b) = Len(a) + Len(b)
OBVIOUS

LEMMA LongBegins ==
  ASSUME NEW n \in Nat, NEW m \in Int
  PROVE  /\ Len(Long(n, m)) = 10
         /\ m = 0 => SubSeq(LongSent(n, m), 1, 10) = Long(n, m)
<1>1. Fr!BigEndian4(n) \in Seq(Int) /\ Len(Fr!BigEndian4(n)) = 4
  BY OfBytes, SMT DEF Fr!BigEndian4
<1>2. Fr!Zeros \in Seq(Int) /\ Len(Fr!Zeros) = 4
  BY DEF Fr!Zeros
<1>3. Len(Long(n, m)) = 10 /\ Long(n, m) \in Seq(Int)
  <2>1. PICK a : a = <<130, 127 + 128 * m>>
    OBVIOUS
  <2>2. PICK b : b = Fr!Zeros
    OBVIOUS
  <2>3. PICK c : c = Fr!BigEndian4(n)
    OBVIOUS
  <2>4. Long(n, m) = a \o b \o c
    BY <2>1, <2>2, <2>3, Zenon DEF Long
  <2>5. a \in Seq(Int) /\ Len(a) = 2
    BY <2>1
  <2>6. b \in Seq(Int) /\ Len(b) = 4 /\ c \in Seq(Int) /\ Len(c) = 4
    BY <1>1, <1>2, <2>2, <2>3, Zenon
  <2>7. PICK d : d = a \o b
    OBVIOUS
  <2>8. d \in Seq(Int) /\ Len(d) = Len(a) + Len(b)
    BY <2>5, <2>6, <2>7, Lengths, Zenon
  <2>9. d \o c \in Seq(Int) /\ Len(d \o c) = Len(d) + Len(c)
    BY <2>6, <2>8, Lengths, Zenon
  <2>10. Long(n, m) = d \o c
    BY <2>4, <2>7, Zenon
  <2>11. Len(d) + Len(c) = 10
    BY <2>5, <2>6, <2>8, SMT
  <2> QED BY <2>9, <2>10, <2>11, Zenon
<1>4. ASSUME m = 0 PROVE SubSeq(LongSent(n, m), 1, 10) = Long(n, m)
  <2>1. 127 + 16 * m = 127 + 128 * m
    BY <1>4
  <2>2. LongSent(n, m) = Long(n, m) \o Fr!Zeros
    BY <2>1 DEF LongSent, Long
  <2>3. SubSeq(Long(n, m) \o Fr!Zeros, 1, Len(Long(n, m))) = Long(n, m)
    BY <1>2, <1>3, Begins
  <2> QED BY <1>3, <2>2, <2>3, Zenon
<1> QED BY <1>3, <1>4, Zenon

\* What the client sends, a short one,
LEMMA ShortSent ==
  ASSUME NEW n \in Nat, Fr!Short(n), NEW m \in {0, 1}
  PROVE  Fr!IsFrame(n, m) <=> (m = 1 => n = 0)
<1>1. n < 126 /\ ~Fr!Medium(n)
  BY Exclusive
<1>2. PICK h : h = <<130, n + 128 * m>>
  OBVIOUS
<1>3. Fr!FormatHeader(n, m) = h
  BY <1>1, <1>2, HeaderOfShort
<1>4. Fr!Header(n, m) = h
  BY <1>1, <1>2 DEF Fr!Header
<1>5. Len(h) = 2
  BY <1>2
<1>6. Fr!Offset(n, m) = 2
  BY <1>4, <1>5, Zenon DEF Fr!Offset
<1>7. Fr!Length(n, m) = 2 + 4 * m + n
  BY <1>1 DEF Fr!Length
<1>8. Fr!Fits(n, m)
  BY <1>6, <1>7 DEF Fr!Fits
<1>9. ASSUME NEW i \in Int, i - 2 \notin 1..n, i > 2, i < 7, m = 1
      PROVE  Fr!WrittenByte(n, m, i) = Fr!Key[i - 2]
  BY <1>6, <1>9 DEF Fr!WrittenByte
<1>10. ASSUME NEW j \in 1..n PROVE Fr!WrittenByte(n, m, 2 + j) = {100 + j}
  <2>1. 2 + j - 2 = j
    OBVIOUS
  <2> QED BY <1>6, <2>1 DEF Fr!WrittenByte
<1>11. ASSUME NEW i \in 1..2 PROVE Fr!WrittenByte(n, m, i) = h[i]
  <2>1. i - 2 \notin 1..n /\ i \notin 3..6 /\ i <= 2
    OBVIOUS
  <2> QED BY <1>4, <1>6, <2>1 DEF Fr!WrittenByte
<1>12. CASE m = 0
  <2>1. ASSUME NEW j \in 1..n
        PROVE  Fr!WrittenByte(n, m, 2 + 4 * m + j) = Fr!Payload(n, m)[j]
    <3>1. Fr!Payload(n, m)[j] = {100 + j}
      BY <1>12 DEF Fr!Payload
    <3>2. 2 + 4 * m + j = 2 + j
      BY <1>12
    <3> QED BY <1>10, <3>1, <3>2
  <2>2. 1..4 * m = {}
    BY <1>12
  <2>3. Fr!IsFrame(n, m)
    BY <1>3, <1>5, <1>7, <1>8, <1>11, <2>1, <2>2, Zenon DEF Fr!IsFrame
  <2> QED BY <1>12, <2>3
<1>13. CASE m = 1 /\ n = 0
  <2>1. ASSUME NEW k \in 1..4 * m
        PROVE  Fr!WrittenByte(n, m, 2 + k) = Fr!Key[k]
    <3>1. 2 + k \in Int /\ 2 + k - 2 = k /\ k \notin 1..n /\ 2 + k > 2 /\ 2 + k < 7
      BY <1>13
    <3> QED BY <1>9, <1>13, <3>1
  <2>2. 1..n = {}
    BY <1>13
  <2>3. Fr!IsFrame(n, m)
    BY <1>3, <1>5, <1>7, <1>8, <1>11, <2>1, <2>2, Zenon DEF Fr!IsFrame
  <2> QED BY <1>13, <2>3
<1>14. CASE m = 1 /\ n # 0
  <2>1. 1 \in 1..n /\ 1 \in 1..4 * m
    BY <1>14
  <2>2. Fr!WrittenByte(n, m, 2 + 1) = {100 + 1}
    BY <1>10, <2>1, Zenon
  <2>3. Fr!Key[1] = {1}
    BY DEF Fr!Key
  <2>4. Fr!WrittenByte(n, m, 2 + 1) # Fr!Key[1]
    BY <2>2, <2>3, SMT
  <2>5. ~Fr!IsFrame(n, m)
    BY <1>3, <1>5, <2>1, <2>4, Zenon DEF Fr!IsFrame
  <2> QED BY <1>14, <2>5
<1> QED BY <1>12, <1>13, <1>14

\* one with a header of four bytes,
LEMMA MiddleIsSent ==
  ASSUME NEW n \in Nat, Fr!Medium(n), NEW m \in {0, 1}
  PROVE  Fr!IsFrame(n, m) <=> m = 0
<1>1. PICK f : f = Middle(n, m)
  OBVIOUS
<1>2. PICK h : h = MiddleSent(n, m)
  OBVIOUS
<1>3. /\ Fr!FormatHeader(n, m) = f /\ Fr!Header(n, m) = h
      /\ Fr!Length(n, m) = n + 4 + 4 * m
  BY <1>1, <1>2, HeaderOfMiddle, Zenon
<1>4. Len(f) = 4 /\ Len(h) = 4
  <2>1. m \in Int
    OBVIOUS
  <2>2. Len(f) = 4
    BY <1>1, <2>1, MiddleBegins, Zenon
  <2>3. Len(h) = 4
    BY <1>2 DEF MiddleSent
  <2> QED BY <2>2, <2>3
<1>5. /\ f[1] = 130 /\ f[2] = 126 + 128 * m /\ f[3] = n \div 256 /\ f[4] = n % 256
      /\ h[1] = 130 /\ h[2] = 126 + 16 * m /\ h[3] = n \div 256 /\ h[4] = n % 256
  BY <1>1, <1>2, SMT DEF Middle, MiddleSent
<1>6. Fr!Offset(n, m) = 4
  BY <1>3, <1>4, Zenon DEF Fr!Offset
<1>7. CASE m = 0
  <2>1. ASSUME NEW i \in 1..4 PROVE Fr!WrittenByte(n, m, i) = f[i]
    <3>1. i - 4 \notin 1..n /\ i <= 4 /\ m # 1
      BY <1>7
    <3>2. Fr!WrittenByte(n, m, i) = h[i]
      BY <1>3, <1>6, <3>1 DEF Fr!WrittenByte
    <3>3. h[i] = f[i]
      <4>1. i = 1 \/ i = 2 \/ i = 3 \/ i = 4
        OBVIOUS
      <4> QED BY <1>5, <1>7, <4>1, SMT
    <3> QED BY <3>2, <3>3, Zenon
  <2>2. ASSUME NEW j \in 1..n
        PROVE  Fr!WrittenByte(n, m, 4 + 4 * m + j) = Fr!Payload(n, m)[j]
    <3>1. 4 + 4 * m + j - 4 = j
      BY <1>7
    <3>2. Fr!WrittenByte(n, m, 4 + 4 * m + j) = {100 + j}
      BY <1>6, <3>1 DEF Fr!WrittenByte
    <3>3. Fr!Payload(n, m)[j] = {100 + j}
      BY <1>7 DEF Fr!Payload
    <3> QED BY <3>2, <3>3, Zenon
  <2>3. 1..4 * m = {} /\ n + 4 + 4 * m = 4 + 4 * m + n
    BY <1>7
  <2>4. Fr!Fits(n, m)
    BY <1>3, <1>6, <1>7 DEF Fr!Fits
  <2>5. Fr!Length(n, m) = 4 + 4 * m + n
    BY <1>3, <2>3, Zenon
  <2>6. Fr!IsFrame(n, m)
    BY <1>3, <1>4, <2>1, <2>2, <2>3, <2>4, <2>5, Zenon DEF Fr!IsFrame
  <2> QED BY <1>7, <2>6
<1>8. CASE m = 1
  <2>1. 2 - 4 \notin 1..n /\ 2 \notin 3..6 /\ 2 <= 4
    OBVIOUS
  <2>2. Fr!WrittenByte(n, m, 2) = h[2]
    BY <1>3, <1>6, <2>1 DEF Fr!WrittenByte
  <2>3. h[2] # f[2]
    BY <1>5, <1>8, SMT
  <2>4. 2 \in 1..4
    OBVIOUS
  <2>5. ~Fr!IsFrame(n, m)
    BY <1>3, <1>4, <2>2, <2>3, <2>4, Zenon DEF Fr!IsFrame
  <2> QED BY <1>8, <2>5
<1> QED BY <1>7, <1>8

\* The second of what is put together.
LEMMA SecondByte ==
  ASSUME NEW a \in Seq(Int), NEW b \in Seq(Int), 2 <= Len(a)
  PROVE  (a \o b)[2] = a[2]
OBVIOUS

\* and one with more.
LEMMA LongIsSent ==
  ASSUME NEW n \in Nat, ~Fr!Short(n), ~Fr!Medium(n), NEW m \in {0, 1}
  PROVE  ~Fr!IsFrame(n, m)
<1>1. PICK f : f = Long(n, m)
  OBVIOUS
<1>2. PICK h : h = LongSent(n, m)
  OBVIOUS
<1>3. /\ Fr!FormatHeader(n, m) = f /\ Fr!Header(n, m) = h
      /\ Fr!Length(n, m) = n + 10 + 4 * m
  BY <1>1, <1>2, HeaderOfLong, Zenon
<1>4. m \in Int /\ Len(f) = 10
  <2>1. m \in Int
    OBVIOUS
  <2> QED BY <1>1, <2>1, LongBegins, Zenon
<1>5. Len(h) = 14 /\ h[2] = 127 + 16 * m
  <2>1. PICK a : a = <<130, 127 + 16 * m>>
    OBVIOUS
  <2>2. PICK z : z = Fr!Zeros
    OBVIOUS
  <2>3. PICK b : b = Fr!BigEndian4(n)
    OBVIOUS
  <2>4. a \in Seq(Int) /\ Len(a) = 2 /\ a[2] = 127 + 16 * m
    BY <2>1
  <2>5. z \in Seq(Int) /\ Len(z) = 4
    BY <2>2 DEF Fr!Zeros
  <2>6. b \in Seq(Int) /\ Len(b) = 4
    BY <2>3, OfBytes, SMT DEF Fr!BigEndian4
  <2>7. h = a \o z \o b \o z
    BY <1>2, <2>1, <2>2, <2>3, Zenon DEF LongSent
  <2>8. PICK az : az = a \o z
    OBVIOUS
  <2>9. az \in Seq(Int) /\ Len(az) = 6 /\ az[2] = a[2]
    <3>1. az \in Seq(Int) /\ Len(az) = Len(a) + Len(z)
      BY <2>4, <2>5, <2>8, Lengths, Zenon
    <3>2. 2 <= Len(a) /\ Len(a) + Len(z) = 6
      BY <2>4, <2>5, SMT
    <3> QED BY <2>4, <2>5, <2>8, <3>1, <3>2, SecondByte, Zenon
  <2>10. PICK azb : azb = az \o b
    OBVIOUS
  <2>11. azb \in Seq(Int) /\ Len(azb) = 10 /\ azb[2] = az[2]
    <3>1. azb \in Seq(Int) /\ Len(azb) = Len(az) + Len(b)
      BY <2>6, <2>9, <2>10, Lengths, Zenon
    <3>2. 2 <= Len(az) /\ Len(az) + Len(b) = 10
      BY <2>6, <2>9, SMT
    <3> QED BY <2>6, <2>9, <2>10, <3>1, <3>2, SecondByte, Zenon
  <2>12. h = azb \o z
    BY <2>7, <2>8, <2>10, Zenon
  <2>13. Len(azb) = 10 /\ Len(z) = 4 /\ 2 <= 10
    BY <2>5, <2>11, SMT
  <2>14. Len(h) = Len(azb) + Len(z)
    BY <2>5, <2>11, <2>12, Lengths, Zenon
  <2>15. 2 <= Len(azb)
    BY <2>13, Zenon
  <2>16. h[2] = azb[2]
    BY <2>5, <2>11, <2>12, <2>15, SecondByte, Zenon
  <2>17. Len(h) = 14
    BY <2>13, <2>14, SMT
  <2>18. h[2] = 127 + 16 * m
    BY <2>4, <2>9, <2>11, <2>16, Zenon
  <2> QED BY <2>17, <2>18
<1>6. f[2] = 127 + 128 * m
  BY <1>1, LongBytes, SMT
<1>7. Fr!Offset(n, m) = 14
  BY <1>3, <1>5, SMT DEF Fr!Offset
<1>8. CASE m = 0
  <2>1. ~Fr!Fits(n, m)
    BY <1>3, <1>7, <1>8, SMT DEF Fr!Fits
  <2> QED BY <2>1, Zenon DEF Fr!IsFrame
<1>9. CASE m = 1
  <2>1. 2 - 14 \notin 1..n /\ 2 \notin 3..6 /\ 2 <= 14
    OBVIOUS
  <2>2. Fr!WrittenByte(n, m, 2) = h[2]
    BY <1>3, <1>7, <2>1, SMT DEF Fr!WrittenByte
  <2>3. h[2] # f[2]
    BY <1>5, <1>6, <1>9, SMT
  <2>4. 2 \in 1..10
    OBVIOUS
  <2> QED BY <1>3, <1>4, <2>2, <2>3, <2>4, Zenon DEF Fr!IsFrame
<1> QED BY <1>8, <1>9

LEMMA ClientFrames ==
  ASSUME NEW n \in Nat, NEW m \in {0, 1}
  PROVE  Fr!IsFrame(n, m) <=> IF m = 1 THEN n = 0 ELSE n < 65536
<1>1. CASE Fr!Short(n)
  <2>1. n < 65536
    BY <1>1, Exclusive, SMT
  <2> QED BY <1>1, <2>1, ShortSent, SMT
<1>2. CASE Fr!Medium(n)
  <2>1. n < 65536 /\ n # 0
    BY <1>2, SMT DEF Fr!Medium
  <2> QED BY <1>2, <2>1, MiddleIsSent, SMT
<1>3. CASE ~Fr!Short(n) /\ ~Fr!Medium(n)
  <2>1. 65536 <= n
    BY <1>3, Exclusive, SMT
  <2> QED BY <1>3, <2>1, LongIsSent, SMT
<1> QED BY <1>1, <1>2, <1>3

\* What it reads.
LEMMA Reads ==
  ASSUME NEW n \in Nat, NEW m \in Int
  PROVE  Fr!ClientLength(Fr!FormatHeader(n, m)) = n
<1>1. CASE Fr!Short(n)
  <2>1. PICK f : f = <<130, n + 128 * m>>
    OBVIOUS
  <2>2. n < 126
    BY <1>1, Exclusive
  <2>3. f[2] = n + 128 * m
    BY <2>1
  <2>4. f[2] % 128 = n /\ n # 126 /\ n # 127
    BY <2>2, <2>3
  <2>5. Fr!ClientLength(f) = n
    BY <2>4 DEF Fr!ClientLength
  <2> QED BY <2>1, <2>2, <2>5, HeaderOfShort
<1>2. CASE Fr!Medium(n)
  <2>1. PICK f : f = Middle(n, m)
    OBVIOUS
  <2>2. f[2] = 126 + 128 * m /\ f[3] = n \div 256 /\ f[4] = n % 256
    BY <2>1, MiddleBytes, SMT
  <2>3. f[2] % 128 = 126 /\ 3 + 1 = 4
    BY <2>2, SMT
  <2>4. Fr!ClientLength(f) = 256 * f[3] + f[4]
    BY <2>3, SMT DEF Fr!ClientLength, Fr!FromBigEndian2
  <2>5. Fr!ClientLength(f) = n
    BY <2>2, <2>4, OfBytes, SMT
  <2> QED BY <1>2, <2>1, <2>5, HeaderOfMiddle, SMT
<1>3. CASE ~Fr!Short(n) /\ ~Fr!Medium(n)
  <2> DEFINE f == Long(n, m)
  <2>2. /\ f[2] = 127 + 128 * m /\ f[3] = 0 /\ f[4] = 0 /\ f[5] = 0 /\ f[6] = 0
        /\ f[7] = n \div 16777216 /\ f[8] = (n \div 65536) % 256
        /\ f[9] = (n \div 256) % 256 /\ f[10] = n % 256
    BY LongBytes, SMT
  <2> HIDE DEF f
  <2>3. /\ f[2] % 128 = 127 /\ 3 + 1 = 4 /\ 3 + 2 = 5 /\ 5 + 1 = 6 /\ 7 + 1 = 8 /\ 7 + 2 = 9 /\ 9 + 1 = 10
    BY <2>2, SMT
  <2>4. Fr!ClientLength(f) = (65536 * (256 * f[3] + f[4]) + (256 * f[5] + f[6]))
                               + (65536 * (256 * f[7] + f[8]) + (256 * f[9] + f[10]))
    BY <2>3, SMT DEF Fr!ClientLength, Fr!FromBigEndian2, Fr!FromBigEndian4
  <2>5. Fr!ClientLength(f) = n
    BY <2>2, <2>4, OfBytes, SMT
  <2> QED BY <1>3, <2>5, HeaderOfLong, SMT DEF f
<1> QED BY <1>1, <1>2, <1>3, SMT

\* Server and client agree with the format.
LEMMA FramesAgree == ASSUME Fr!Typed PROVE Fr!Agrees
<1>1. s1 \in Nat /\ s2 \in {0, 1} /\ s3 \in Nat
  BY Assumptions, SMT DEF Assumptions, Fr!SizeAssumption, Fr!Typed
<1>2. ASSUME Fr!Short(s1)
      PROVE  Fr!Echo(Fr!Format(s1, s2) \o [i \in 1..s3 |-> {-i}]) = Fr!Format(s1, 0)
  <2>1. [i \in 1..s3 |-> {-i}] \in Seq(FrameByte)
    <3>1. ASSUME NEW i \in 1..s3 PROVE {-i} \in FrameByte
      BY DEF FrameByte
    <3> QED BY <1>1, <3>1
  <2>2. s1 < 126
    BY <1>1, <1>2, Exclusive
  <2> QED BY <1>1, <2>1, <2>2, ShortEchoed, Zenon
<1>3. Fr!EchoesShort
  BY <1>2 DEF Fr!EchoesShort
<1>4. s2 \in Int /\ 0 \in Int
  BY <1>1
<1>5. Fr!ClientWrites
  BY <1>1, ClientFrames, SMT DEF Fr!ClientWrites
<1>6. Fr!ClientReads
  BY <1>1, <1>4, Reads DEF Fr!ClientReads
<1> QED BY <1>3, <1>5, <1>6 DEF Fr!Agrees

-----------------------------------------------------------------------------
(* The theorems.                                                           *)

LEMMA Started == Init => IInv
<1> SUFFICES ASSUME Init PROVE IInv
  OBVIOUS
<1>1. subject = "walk" => Wa!Init
  BY DEF Init, Meters
<1>2. subject = "digests" => Di!Init
  BY DEF Init, Meters
<1>3. \A p \in Meters : subject = p => Me(p)!Init
  BY DEF Init, Meters
<1>4. /\ subject = "utf8" => Ut!Init
      /\ subject = "sha1" => Sh!Init
      /\ subject = "frame" => Fr!Init
  BY DEF Init, Meters
<1>5. /\ subject = "utf8" => Ut!Typed
      /\ subject = "sha1" => Sh!Typed
      /\ subject = "frame" => Fr!Typed
  BY <1>4, TextStart, LengthStart DEF Fr!Init, Fr!Typed
<1> QED BY <1>1, <1>2, <1>3, <1>5, WalkStart, DigestsStart, MeterStart DEF IInv

LEMMA Preserved == IInv /\ [Next]_all => IInv'
<1> SUFFICES ASSUME IInv, [Next]_all PROVE IInv'
  OBVIOUS
<1>1. /\ subject' = subject
      /\ subject = "walk" => [Wa!Next]_(Wa!vars)
      /\ subject = "digests" => [Di!Next]_(Di!vars)
      /\ \A p \in Meters : subject = p => [Me(p)!Next]_(Me(p)!vars)
      /\ subject = "utf8" => Ut!Next \/ UNCHANGED <<s1, s2>>
      /\ subject = "sha1" => Sh!Next \/ UNCHANGED s1
      /\ subject = "frame" => UNCHANGED <<s1, s2, s3>>
  BY Steps
<1>2. subject = "walk" => Wa!IInv'
  BY <1>1, WalkKeeps DEF IInv
<1>3. subject = "digests" => Di!IInv'
  BY <1>1, DigestsKeep DEF IInv
<1>4. \A p \in Meters : subject = p => Me(p)!IInv'
  BY <1>1, MeterKeep DEF IInv
<1>5. subject = "utf8" => Ut!Typed'
  BY <1>1, TextKeeps DEF IInv
<1>6. subject = "sha1" => Sh!Typed'
  BY <1>1, LengthKeeps DEF IInv
<1>7. subject = "frame" => Fr!Typed'
  BY <1>1 DEF IInv, Fr!Typed
<1> QED BY <1>1, <1>2, <1>3, <1>4, <1>5, <1>6, <1>7 DEF IInv

LEMMA Inductive == Spec => []IInv
BY Started, Preserved, PTL DEF Spec

\* fs/readdir-lo.js, fs/readdir-linux-lo.js: for every tree, every number of
\* buffers and every size of them, a walk that ends has pushed every file and
\* directory once if no directory was larger than a buffer, and at every time
\* the directories that are open are those of the path.
THEOREM WalksFind == Spec => []Walked
<1>1. IInv => Walked
  BY WalkEnds DEF IInv, Walked
<1> QED BY <1>1, Inductive, PTL

\* The hash programs: for every number of rounds, a digest is made of a text of
\* its own in a context that is not freed, and as many hashes are reported as
\* were measured.
THEOREM HashesOwn == Spec => []Hashed
<1>1. ASSUME Di!IInv PROVE Di!Hashed
  <2>1. Di!Alg \in Di!Algorithm /\ Di!Typed /\ Di!Kept /\ Di!Absorbed /\ Di!Counting /\ Di!OwnDigest
    BY <1>1, Algorithms DEF Di!IInv
  <2>2. Di!NotFreed
    BY <2>1 DEF Di!NotFreed, Di!Kept, Di!Hashing
  <2>3. Di!Reported
    BY <2>1 DEF Di!Reported, Di!Counting
  <2> QED BY <2>1, <2>2, <2>3 DEF Di!Hashed
<1>2. IInv => Hashed
  BY <1>1 DEF IInv, Hashed
<1> QED BY <1>2, Inductive, PTL

\* lib/bench.mjs, fs/lib/bench.mjs: however much the threads of the process use
\* between any two readings, a report has all of the processor time that was used
\* while it took the time, unless another call has taken a part of it; measure
\* has none from before its start; and in fs/lib it differs from what was used in
\* the time it is a share of by no more than two calls of cputime used themselves.
THEOREM MetersOwn == Spec => []Metered
<1>1. IInv => Metered
  BY DEF IInv, Metered, Me!IInv
<1> QED BY <1>1, Inductive, PTL

\* websocket/sws.c, websocket/socket.js, websocket/websocket.js: for every text,
\* is_valid accepts it if and only if it is well-formed UTF-8; for every length
\* shacalc can be given, the blocks it hashes are those of SHA-1; for every size
\* and whatever lies behind a frame, short frames are echoed byte for byte and
\* the client writes and reads the format within its limits.
THEOREM WebSocketsAgree == Spec => []Agrees
<1>1. IInv => Agrees
  BY TextAgrees, HashAgrees, FramesAgree DEF IInv, Agrees
<1> QED BY <1>1, Inductive, PTL
=============================================================================
