-------------------------------- MODULE Walk --------------------------------
(***************************************************************************)
(* fs/readdir-lo.js and readdir-linux-lo.js: a directory tree is walked    *)
(* depth first.  The one reads entry by entry from the stream of each      *)
(* directory; the other has one buffer per depth, asks getdents once per   *)
(* directory and reads records until one has no inode, which the end of    *)
(* what it was given and the zeroes written before have in common.         *)
(***************************************************************************)
EXTENDS Integers, FiniteSets, SequencesExt

CONSTANTS
  N,          \* entries of the tree below its root, which is 0
  Depths,     \* buffers: 64
  Capacity    \* entries that fill a buffer

WalkAssumption == N \in Nat /\ Depths \in Nat \ {0} /\ Capacity \in Nat \ {0}

Node == 0..N

VARIABLES
  linux,      \* which of the two programs
  parent, kind,   \* the tree: kinds are dir, file and other (links, unknown)
  next,       \* the directory to open now, or None
  buffer,     \* entries left of what was read, by depth
  filled,     \* depths whose buffer was filled to its last octet
  path,       \* directories being read, the innermost last
  found,      \* entries, in the order they were pushed
  fds,        \* directories that are open
  phase       \* running, done, failed, refused

vars == <<linux, parent, kind, next, buffer, filled, path, found, fds, phase>>
tree == <<linux, parent, kind>>

None == N + 1
Children(d) == { n \in 1..N : parent[n] = d }
Wide(d) == linux /\ Cardinality(Children(d)) > Capacity

\* Trees in which an entry's directory has a smaller number.
Init ==
  /\ linux \in BOOLEAN
  /\ parent \in { p \in [1..N -> 0..N] : \A n \in 1..N : p[n] < n }
  /\ kind \in { k \in [0..N -> {"dir", "file", "other"}] : k[0] = "dir" /\ \A n \in 1..N : k[parent[n]] = "dir" }
  /\ next = 0 /\ buffer = [i \in 1..N + 1 |-> {}] /\ filled = {} /\ path = <<>>
  /\ found = <<>> /\ fds = {} /\ phase = "running"

\* Faulty variant: there is one buffer.
OneBuffer(depth) == 1
Buffer(depth) == depth

\* Faulty variant: the last buffer is not used.
OpenShallow ==
  /\ phase = "running" /\ next # None
  /\ fds' = fds \cup {next} /\ next' = None
  /\ IF linux /\ Len(path) = Depths - 1 THEN phase' = "failed" /\ UNCHANGED <<path, buffer, filled>>
     ELSE /\ path' = Append(path, next) /\ UNCHANGED phase
          /\ \E got \in SUBSET Children(next) :
               /\ IF Wide(next) THEN Cardinality(got) = Capacity ELSE got = Children(next)
               /\ buffer' = [buffer EXCEPT ![Buffer(Len(path'))] = got]
          /\ filled' \in {filled \ {Len(path')}} \cup
               IF linux /\ Cardinality(Children(next)) >= Capacity THEN {filled \cup {Len(path')}} ELSE {}
  /\ UNCHANGED <<tree, found>>

\* What getdents returns: all entries, or as many as fit, which may fill the
\* buffer to its end or leave a rest too small for another record.
Open ==
  /\ phase = "running" /\ next # None
  /\ fds' = fds \cup {next} /\ next' = None
  /\ IF linux /\ Len(path) = Depths THEN phase' = "failed" /\ UNCHANGED <<path, buffer, filled>>
     ELSE /\ path' = Append(path, next) /\ UNCHANGED phase
          /\ \E got \in SUBSET Children(next) :
               /\ IF Wide(next) THEN Cardinality(got) = Capacity ELSE got = Children(next)
               /\ buffer' = [buffer EXCEPT ![Buffer(Len(path'))] = got]
          /\ filled' \in {filled \ {Len(path')}} \cup
               IF linux /\ Cardinality(Children(next)) >= Capacity THEN {filled \cup {Len(path')}} ELSE {}
  /\ UNCHANGED <<tree, found>>

\* A record: a directory is pushed and walked, a file is pushed, others are not.
Entry ==
  /\ phase = "running" /\ next = None /\ path # <<>>
  /\ \E n \in buffer[Buffer(Len(path))] :
       /\ buffer' = [buffer EXCEPT ![Buffer(Len(path))] = @ \ {n}]
       /\ found' = IF kind[n] = "other" THEN found ELSE Append(found, n)
       /\ next' = IF kind[n] = "dir" THEN n ELSE None
  /\ UNCHANGED <<tree, filled, path, fds, phase>>

\* The assertions on open, getdents and closedir end the program when the system
\* refuses: the directory may have been opened by then, and the others stay open.
Refuse ==
  /\ phase = "running"
  /\ \/ next # None /\ fds' \in {fds, fds \cup {next}}
     \/ /\ ~linux /\ next = None /\ path # <<>> /\ buffer[Buffer(Len(path))] = {}
        /\ UNCHANGED fds
  /\ phase' = "refused"
  /\ UNCHANGED <<tree, next, buffer, filled, path, found>>

\* Faulty variant: the descriptor is left open.
LeaveOpen ==
  /\ phase = "running" /\ next = None /\ path # <<>> /\ buffer[Buffer(Len(path))] = {}
  /\ path' = Front(path)
  /\ phase' = IF Len(path) \in filled THEN "failed" ELSE IF path' = <<>> THEN "done" ELSE phase
  /\ UNCHANGED <<tree, next, buffer, filled, found, fds>>

\* The inode after the last record is 0; after a full buffer there is none to read.
\* Of an inode the program reads 32 bits: those of the entries are taken not to
\* be all 0.
Leave ==
  /\ phase = "running" /\ next = None /\ path # <<>> /\ buffer[Buffer(Len(path))] = {}
  /\ IF Len(path) \in filled THEN phase' = "failed" /\ UNCHANGED <<path, fds>>
     ELSE /\ path' = Front(path) /\ fds' = fds \ {Last(path)}
          /\ phase' = IF path' = <<>> THEN "done" ELSE phase
  /\ UNCHANGED <<tree, next, buffer, filled, found>>

Next == Open \/ Entry \/ Leave \/ Refuse
Spec == Init /\ [][Next]_vars /\ WF_vars(Next)

-----------------------------------------------------------------------------
\* A walk that ends, with no directory wider than the buffer, has pushed every
\* file and directory of the tree once, whatever the recursion did to the
\* buffers in between.
Complete ==
  phase = "done" /\ (\A d \in 0..N : ~Wide(d)) =>
    /\ ToSet(found) = { n \in 1..N : kind[n] # "other" }
    /\ IsInjective(found)

\* One directory is open per depth, and none when the walk is over, for as long as
\* no assertion fails.
Closed == phase \in {"running", "done"} /\ next = None => fds = ToSet(path)

\* A walk finds everything once and gives back what it opened.
Walked == Complete /\ Closed

\* The walk ends: in failure only when it is too deep, a directory too large, or
\* the system refuses.
Ended ==
  \/ phase \in {"done", "refused"}
  \/ phase = "failed" /\ (Len(path) = Depths \/ \E d \in 0..N : Cardinality(Children(d)) >= Capacity)
Ends == <>Ended

-----------------------------------------------------------------------------
(* The invariant behind Walked.                                            *)

\* The directories that were opened: the root, and those that were found, but
\* for the one that is opened next.
Opened == ({0} \cup { n \in ToSet(found) : kind[n] = "dir" }) \ {next}

Tree ==
  /\ parent \in [1..N -> 0..N] /\ kind \in [0..N -> {"dir", "file", "other"}]
  /\ kind[0] = "dir"
  /\ \A n \in 1..N : parent[n] < n /\ kind[parent[n]] = "dir"

Typed ==
  /\ Tree
  /\ next \in 0..N + 1
  /\ buffer \in [1..N + 1 -> SUBSET (1..N)]
  /\ path \in Seq(0..N) /\ found \in Seq(1..N)
  /\ phase \in {"running", "done", "failed", "refused"}

\* What is open: a chain of directories from the root, with rising numbers.
Chain ==
  /\ \A i \in 1..Len(path) : path[i] \in Opened /\ i - 1 <= path[i]
  /\ \A i, j \in 1..Len(path) : i < j => path[i] < path[j]
  /\ phase \in {"running", "done"} => fds = ToSet(path)
  /\ phase = "done" => path = <<>> /\ next = None

\* The directory to open now is the entry found last in the innermost one.
Following ==
  next # None =>
    /\ kind[next] = "dir"
    /\ \/ next = 0 /\ path = <<>> /\ found = <<>>
       \/ /\ next \in ToSet(found) /\ path # <<>>
          /\ parent[next] = path[Len(path)]

\* The buffer of a depth has entries of the directory that is read there.
Buffered ==
  \A i \in 1..Len(path) : \A n \in buffer[i] :
    parent[n] = path[i] /\ n \notin ToSet(found)

FoundOnce ==
  /\ IsInjective(found)
  /\ \A n \in ToSet(found) : kind[n] # "other" /\ parent[n] \in Opened

\* An entry of an opened directory has been found, or is still in its buffer.
NoneLost ==
  phase \in {"running", "done"} /\ (\A d \in 0..N : ~Wide(d)) =>
    \A n \in 1..N : parent[n] \in Opened =>
      \/ kind[n] = "other" \/ n \in ToSet(found)
      \/ \E i \in 1..Len(path) : path[i] = parent[n] /\ n \in buffer[i]

IInv == Typed /\ Chain /\ Following /\ Buffered /\ FoundOnce /\ NoneLost
=============================================================================
