------------------------------ MODULE Digests -------------------------------
(***************************************************************************)
(* crypto/hash-lo-lo.js, hash-lo-mbedtls.js, hash-c.c and hash-node.mjs:   *)
(* programs that hash one text over and over.  The first three keep one    *)
(* context per algorithm for all of their functions; node makes one per    *)
(* hash.  Each program checks its functions once and then goes, Total      *)
(* times, through its blocks: Iter measurements of Runs hashes each.       *)
(* A digest is the list of what its context absorbed: the number of times  *)
(* the text was put into it.                                               *)
(***************************************************************************)
EXTENDS Integers, Sequences

CONSTANTS Iter, Runs, Total    \* the arguments of the programs

DigestsAssumption == {Iter, Runs, Total} \subseteq Nat \ {0}

\* The algorithms of each program's blocks, in order, for every way to pass the
\* text: as a string, a buffer or a pointer.
LoLo    == <<"md5", "md5", "md5", "sha1", "sha1", "sha1", "sha256", "sha256", "sha256">>
Mbedtls == <<"md5", "md5", "sha256", "sha256">>
C       == <<"md5", "sha256">>
NodeMjs == LET half == <<"md5", "md5", "sha1", "sha1", "sha256", "sha256">> IN half \o half

Blocks == [lolo |-> LoLo, mbedtls |-> Mbedtls, c |-> C, node |-> NodeMjs]
Algorithm == {"md5", "sha1", "sha256"}

VARIABLES
  program,   \* a field of Blocks
  phase,     \* check, start, hash, done, failed
  block, i, j, total,   \* the loops
  stage,     \* of one hash: init, update, final
  ctx,       \* of each algorithm: what it has absorbed, -1 when freed
  digest,    \* what the last hash returned, 0 before
  counted    \* hashes since the measurement was started

vars == <<program, phase, block, i, j, total, stage, ctx, digest, counted>>

Init ==
  /\ program \in DOMAIN Blocks
  /\ phase = "check" /\ block = 1 /\ i = 0 /\ j = 0 /\ total = Total /\ stage = "init"
  /\ ctx = [a \in Algorithm |-> 0] /\ digest = 0 /\ counted = 0

List == Blocks[program]
Alg == List[block]
Hashing == phase \in {"check", "hash"} /\ (phase = "hash" => j < Runs)

-----------------------------------------------------------------------------
\* Faulty variant: the context is begun once, when it is new.
InitOnce ==
  /\ Hashing /\ stage = "init" /\ stage' = "update"
  /\ UNCHANGED <<program, phase, block, i, j, total, ctx, digest, counted>>

\* EVP_DigestInit_ex, md5_starts, createHash: what was absorbed is forgotten.
DigestInit ==
  /\ Hashing /\ stage = "init" /\ stage' = "update"
  /\ ctx' = [ctx EXCEPT ![Alg] = IF @ = -1 THEN @ ELSE 0]
  /\ UNCHANGED <<program, phase, block, i, j, total, digest, counted>>

Update ==
  /\ Hashing /\ stage = "update" /\ stage' = "final"
  /\ ctx' = [ctx EXCEPT ![Alg] = IF @ = -1 THEN @ ELSE @ + 1]
  /\ UNCHANGED <<program, phase, block, i, j, total, digest, counted>>

\* The digest; hash-c.c resets the context as well.  In the check, the next
\* function follows, and after the last one the first measurement.
Final ==
  /\ Hashing /\ stage = "final" /\ stage' = "init"
  /\ digest' = ctx[Alg]
  /\ ctx' = IF program = "c" THEN [ctx EXCEPT ![Alg] = 0] ELSE ctx
  /\ counted' = counted + 1
  /\ IF phase = "hash" THEN j' = j + 1 /\ UNCHANGED <<phase, block>>
     ELSE IF digest' # 1 THEN phase' = "failed" /\ UNCHANGED <<j, block>>
     ELSE IF block < Len(List) THEN block' = block + 1 /\ UNCHANGED <<phase, j>>
     ELSE block' = 1 /\ phase' = "start" /\ UNCHANGED j
  /\ UNCHANGED <<program, i, total>>

\* A call of the library that fails: asserted, or exit(1) in C; what mbedtls
\* returns is not looked at.
Fail ==
  /\ Hashing /\ program \in {"lolo", "c"} /\ phase' = "failed"
  /\ UNCHANGED <<program, block, i, j, total, stage, ctx, digest, counted>>

\* Faulty variant: the measurement goes on from the one before.
StartNot ==
  /\ phase = "start" /\ phase' = "hash" /\ j' = 0
  /\ UNCHANGED <<program, block, i, total, stage, ctx, digest, counted>>

Start ==
  /\ phase = "start" /\ phase' = "hash" /\ j' = 0 /\ counted' = 0
  /\ UNCHANGED <<program, block, i, total, stage, ctx, digest>>

Freed == [a \in Algorithm |-> IF program = "c" \/ (program = "mbedtls" /\ a = "md5") THEN -1 ELSE ctx[a]]

\* Faulty variants: contexts are freed in every round; a round is not counted.
EndFrees ==
  /\ phase = "hash" /\ j = Runs
  /\ IF i < Iter - 1 THEN i' = i + 1 /\ phase' = "start" /\ UNCHANGED <<block, total, ctx>>
     ELSE IF block < Len(List) THEN i' = 0 /\ block' = block + 1 /\ phase' = "start" /\ UNCHANGED <<total, ctx>>
     ELSE /\ i' = 0 /\ block' = 1 /\ total' = total - 1 /\ ctx' = Freed
          /\ phase' = IF total' = 0 THEN "done" ELSE "start"
  /\ UNCHANGED <<program, j, stage, digest, counted>>

\* bench.end: the next measurement, block or round, or the end of the program.
End ==
  /\ phase = "hash" /\ j = Runs
  /\ IF i < Iter - 1 THEN i' = i + 1 /\ phase' = "start" /\ UNCHANGED <<block, total, ctx>>
     ELSE IF block < Len(List) THEN i' = 0 /\ block' = block + 1 /\ phase' = "start" /\ UNCHANGED <<total, ctx>>
     ELSE /\ i' = 0 /\ block' = 1 /\ total' = total - 1
          /\ IF total' = 0 THEN phase' = "done" /\ ctx' = Freed ELSE phase' = "start" /\ UNCHANGED ctx
  /\ UNCHANGED <<program, j, stage, digest, counted>>

Next == DigestInit \/ Update \/ Final \/ Fail \/ Start \/ End
Spec == Init /\ [][Next]_vars /\ WF_vars(DigestInit \/ Update \/ Final \/ Start \/ End)

-----------------------------------------------------------------------------
\* Whatever its context was used for before, a hash is that of its own text,
\* measured or checked, and is never taken from a context that was freed.
OwnDigest == digest \in {0, 1}
NotFreed == Hashing => ctx[Alg] # -1

\* What is reported as Runs hashes are the hashes since the measurement began.
Reported == phase = "hash" /\ j = Runs => counted = Runs

\* The digests are right, and so is their number.
Hashed == OwnDigest /\ NotFreed /\ Reported

\* The programs end.
Ended == phase \in {"done", "failed"}
Ends == <>Ended

-----------------------------------------------------------------------------
(* The invariant behind Hashed.                                            *)

Typed ==
  /\ program \in DOMAIN Blocks /\ block \in 1..Len(List)
  /\ phase \in {"check", "start", "hash", "done", "failed"}
  /\ stage \in {"init", "update", "final"}
  /\ i \in Nat /\ j \in 0..Runs /\ counted \in Nat
  /\ total \in Nat /\ (total = 0 <=> phase = "done")
  /\ ctx \in [Algorithm -> Int]

\* No context is freed before the end.
Kept == phase # "done" => \A a \in Algorithm : ctx[a] # -1

\* A hash is begun, given its text once, and finished.
Absorbed ==
  /\ stage = "update" => ctx[Alg] = 0
  /\ stage = "final" => ctx[Alg] = 1
  /\ phase = "start" \/ (phase = "hash" /\ j = Runs) => stage = "init"

Counting == phase = "hash" => counted = j

IInv == Typed /\ Kept /\ Absorbed /\ Counting /\ OwnDigest
=============================================================================
