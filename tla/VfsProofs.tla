------------------------------ MODULE VfsProofs ------------------------------
(***************************************************************************)
(* Proofs about the filesystem, for any paths, texts, flags, buffer size    *)
(* and bounds.                                                              *)
(***************************************************************************)
EXTENDS Vfs, DataLemmas, FiniteSetTheorems

(* Names of entries (that a literal is a string is not known to the         *)
(* provers, so the literals of the model are listed).                       *)
Names == STRING \cup {EmptyName, "welcome", "version", "dev", "tmp", "blk", "info", "sector0"}

(* The maps of directories, and inodes. *)
Maps == UNION {[N -> Nat] : N \in {M \in SUBSET Names : IsFiniteSet(M)}}

RamNodes == [type : {"Regular"}, data : Seq(Nat)] \cup [type : {"Directory"}, map : Maps]

(* Directory i has an entry n. *)
Entry(fs, i, n) == i \in 1 .. Len(fs) /\ fs[i].type = "Directory" /\ n \in DOMAIN fs[i].map

Linked(fs, i) == \E j \in 1 .. Len(fs), n \in Names : Entry(fs, j, n) /\ fs[j].map[n] = i

(* The inodes: entries lead to inodes made later, no two of them to the     *)
(* same one, and only what is linked has entries.                           *)
Inodes(fs) == fs \in Seq(RamNodes) /\ Len(fs) > 0 /\ fs[1].type = "Directory"

Forward(fs) == \A i \in 1 .. Len(fs), n \in Names : Entry(fs, i, n) => fs[i].map[n] \in i + 1 .. Len(fs)

OneName(fs) ==
  \A i, j \in 1 .. Len(fs), n, m \in Names :
    Entry(fs, i, n) /\ Entry(fs, j, m) /\ fs[i].map[n] = fs[j].map[m] => i = j /\ n = m

NoneLost(fs) == \A i \in 2 .. Len(fs), n \in Names : Entry(fs, i, n) => Linked(fs, i)

Tree(fs) == Inodes(fs) /\ Forward(fs) /\ OneName(fs) /\ NoneLost(fs)

(* Ranks bound the depth of the inodes. *)
Ranks(fs, rank, n) ==
  /\ rank \in [1 .. Len(fs) -> 0 .. n]
  /\ \A i \in 1 .. Len(fs), m \in Names : Entry(fs, i, m) => rank[fs[i].map[m]] > rank[i]

Ranked(fs, n) == \E rank : Ranks(fs, rank, n)

OpenFile(n) == [inode : 1 .. n, offset : Nat, flags : Flags]

IInv ==
  /\ Tree(node)
  /\ seeded \in Nat /\ seeded <= Len(node) /\ Len(node) <= seeded + MaxMade
  /\ Ranked(node, 2 + Len(node) - seeded)
  /\ files \in [DOMAIN files -> OpenFile(Len(node))]

-----------------------------------------------------------------------------
(* The two kinds of inodes. *)
LEMMA NodeKinds ==
  ASSUME NEW x \in RamNodes
  PROVE  /\ x.type = "Regular" \/ x.type = "Directory"
         /\ x.type = "Regular" => x.data \in Seq(Nat) /\ x = [type |-> "Regular", data |-> x.data]
         /\ x.type = "Directory" => x.map \in Maps /\ x = [type |-> "Directory", map |-> x.map]
BY DEF RamNodes

(* Making them. *)
LEMMA MakeNodes ==
  /\ \A d \in Seq(Nat) : File(d) \in RamNodes /\ File(d).type = "Regular" /\ File(d).data = d
  /\ \A m \in Maps : Dir(m) \in RamNodes /\ Dir(m).type = "Directory" /\ Dir(m).map = m
BY DEF File, Dir, RamNodes

(* A map of names to numbers. *)
LEMMA MapFields ==
  ASSUME NEW m \in Maps
  PROVE  DOMAIN m \subseteq Names /\ m \in [DOMAIN m -> Nat] /\ IsFiniteSet(DOMAIN m)
BY DEF Maps

(* Which functions are such maps. *)
LEMMA MakeMap ==
  ASSUME NEW N \in SUBSET Names, IsFiniteSet(N), NEW m \in [N -> Nat]
  PROVE  m \in Maps
BY DEF Maps

(* A directory without entries. *)
LEMMA EmptyDir ==
  NewDir \in RamNodes /\ NewDir.type = "Directory" /\ DOMAIN NewDir.map = {}
<1>1. DOMAIN <<>> = {} /\ <<>> \in [{} -> Nat]
  OBVIOUS
<1>2. <<>> \in Maps
  BY <1>1, FS_EmptySet, MakeMap
<1> QED
  BY <1>1, <1>2, MakeNodes DEF NewDir

(* Inode i of a filesystem. *)
LEMMA InodeOf ==
  ASSUME NEW fs, Inodes(fs)
  PROVE  /\ Len(fs) \in Nat /\ DOMAIN fs = 1 .. Len(fs) /\ 1 \in 1 .. Len(fs)
         /\ \A i \in 1 .. Len(fs) : fs[i] \in RamNodes
BY LenProperties, ElementOfSeq DEF Inodes

-----------------------------------------------------------------------------
(* What resolving a path can find, and what it can answer. *)
Reached(fs) == {i \in 1 .. Len(fs) : i = 1 \/ Linked(fs, i)}

Results(fs) ==
  {[res |-> "Ok", inode |-> i] : i \in Reached(fs)} \cup {[res |-> "NotADirectory"], [res |-> "NotFound"]}

(* One component at a time. *)
StepOf(fs, at, comp) == IF comp = EmptyName \/ at.res # "Ok" THEN at ELSE Lookup(fs, at.inode, comp)

(* A step gives such an answer, *)
LEMMA StepResult ==
  ASSUME NEW fs, Inodes(fs), Forward(fs), NEW at \in Results(fs), NEW comp \in Names
  PROVE  StepOf(fs, at, comp) \in Results(fs)
<1>1. CASE comp = EmptyName \/ at.res # "Ok"
  BY <1>1 DEF StepOf
<1>2. CASE comp # EmptyName /\ at.res = "Ok"
  BY <1>2, InodeOf DEF Results, Reached, StepOf, Lookup, ftype, Err, Entry, Ok, Forward, Linked
<1> QED
  BY <1>1, <1>2

(* so resolve does. *)
LEMMA ResolveResult ==
  ASSUME NEW fs, Inodes(fs), Forward(fs), NEW path \in Seq(Names)
  PROVE  Resolve(fs, path) \in Results(fs) \cup {[res |-> "InvalidPath"]}
<1> DEFINE n == Len(path)
           R == Results(fs)
           b == Ok(RootInode)
           step == [k \in 1 .. n |-> [at \in R |-> StepOf(fs, at, path[k])]]
           W == CHOOSE w : w = [k \in 0 .. n |-> IF k = 0 THEN Ok(RootInode) ELSE
                  IF path[k] = EmptyName \/ w[k - 1].res # "Ok" THEN w[k - 1] ELSE Lookup(fs, w[k - 1].inode, path[k])]
<1>1. n \in Nat /\ \A k \in 1 .. n : path[k] \in Names
  BY LenProperties, ElementOfSeq
<1>2. b \in R
  BY InodeOf DEF Ok, RootInode, Results, Reached
<1>3. step \in [1 .. n -> [R -> R]]
  BY <1>1, StepResult
<1> HIDE DEF step, b, R
<1>4. PICK f \in [0 .. n -> R] : Iterates(f, n, b, step)
  BY <1>1, <1>2, <1>3, IterationExists
<1>5. ASSUME NEW k \in 0 .. n, k # 0 PROVE step[k][f[k - 1]] = StepOf(fs, f[k - 1], path[k])
  <2>1. k \in 1 .. n /\ k - 1 \in 0 .. n
    BY <1>1, <1>5
  <2>2. f[k - 1] \in R
    BY <2>1
  <2> QED
    BY <2>1, <2>2 DEF step
<1>6. f = [k \in 0 .. n |-> IF k = 0 THEN Ok(RootInode) ELSE
             IF path[k] = EmptyName \/ f[k - 1].res # "Ok" THEN f[k - 1] ELSE Lookup(fs, f[k - 1].inode, path[k])]
  BY <1>4, <1>5 DEF Iterates, b, StepOf
<1>7. W = [k \in 0 .. n |-> IF k = 0 THEN Ok(RootInode) ELSE
             IF path[k] = EmptyName \/ W[k - 1].res # "Ok" THEN W[k - 1] ELSE Lookup(fs, W[k - 1].inode, path[k])]
  BY <1>6
<1>8. Resolve(fs, path) = IF path = EmptyPath THEN Err("InvalidPath") ELSE W[n]
  BY DEF Resolve
<1> HIDE DEF W
<1>9. 0 \in 0 .. n /\ n \in 0 .. n /\ \A k \in 1 .. n : k \in 0 .. n /\ k # 0
  BY <1>1
<1>10. f[0] = Ok(RootInode) /\ \A k \in 1 .. n : f[k] = StepOf(fs, f[k - 1], path[k])
  BY <1>6, <1>9 DEF StepOf
<1>11. W[0] = Ok(RootInode) /\ \A k \in 1 .. n : W[k] = StepOf(fs, W[k - 1], path[k])
  BY <1>7, <1>9 DEF StepOf
<1> HIDE DEF n
<1>12. SameSteps(W, f, n)
  BY <1>10, <1>11 DEF SameSteps
<1>13. Agree(W, f, n)
  BY <1>1, <1>12, IterationUnique
<1>14. W[n] \in R
  BY <1>9, <1>13 DEF Agree
<1> QED
  BY <1>8, <1>14 DEF Err, R

(* The inode it finds. *)
LEMMA ResolveInode ==
  ASSUME NEW fs, Inodes(fs), Forward(fs), NEW path \in Seq(Names), Resolve(fs, path).res = "Ok"
  PROVE  Resolve(fs, path).inode \in Reached(fs)
<1> DEFINE r == Resolve(fs, path)
<1>1. r \in Results(fs) \cup {[res |-> "InvalidPath"]}
  BY ResolveResult
<1>2. r.res = "Ok"
  OBVIOUS
<1> HIDE DEF r
<1>3. r.inode \in Reached(fs)
  BY <1>1, <1>2 DEF Results
<1> QED
  BY <1>3 DEF r

(* The path of the parent, and the last name. *)
LEMMA SplitPath ==
  ASSUME NEW path \in Seq(Names), path # <<>>
  PROVE  ParentPath(path) \in Seq(Names) /\ LastName(path) \in Names
<1>1. Len(path) \in Nat \ {0} /\ \A k \in 1 .. Len(path) : path[k] \in Names
  BY LenProperties, ElementOfSeq, EmptySeq
<1>2. LastName(path) \in Names
  BY <1>1 DEF LastName
<1>3. Slash \in Seq(Names)
  BY DEF Names, Slash
<1>4. SubSeq(path, 1, Len(path) - 1) \in Seq(Names)
  BY <1>1, SubSeqProperties
<1> QED
  BY <1>2, <1>3, <1>4 DEF ParentPath

-----------------------------------------------------------------------------
(* The entries of gs are those of fs, *)
SameEntries(gs, fs) ==
  /\ Len(gs) = Len(fs)
  /\ \A j \in 1 .. Len(fs), n \in Names : Entry(gs, j, n) <=> Entry(fs, j, n)
  /\ \A j \in 1 .. Len(fs), n \in Names : Entry(fs, j, n) => gs[j].map[n] = fs[j].map[n]

(* with one more, for a new inode, *)
Adds(gs, fs, i, name) ==
  /\ Len(gs) = Len(fs) + 1 /\ ~ Entry(fs, i, name)
  /\ \A j \in 1 .. Len(gs), n \in Names : Entry(gs, j, n) <=> Entry(fs, j, n) \/ (j = i /\ n = name)
  /\ \A j \in 1 .. Len(fs), n \in Names : Entry(fs, j, n) => gs[j].map[n] = fs[j].map[n]
  /\ gs[i].map[name] = Len(gs)

(* or without one. *)
Removes(gs, fs, i, name) ==
  /\ Len(gs) = Len(fs)
  /\ \A j \in 1 .. Len(fs), n \in Names : Entry(gs, j, n) <=> Entry(fs, j, n) /\ ~ (j = i /\ n = name)
  /\ \A j \in 1 .. Len(fs), n \in Names : Entry(gs, j, n) => gs[j].map[n] = fs[j].map[n]

(* Same entries, same tree. *)
LEMMA SameTree ==
  ASSUME NEW fs, NEW gs, NEW k, Tree(fs), Ranked(fs, k), Inodes(gs), SameEntries(gs, fs)
  PROVE  Tree(gs) /\ Ranked(gs, k)
<1>1. /\ Len(gs) = Len(fs)
      /\ \A j \in 1 .. Len(fs), n \in Names : Entry(gs, j, n) <=> Entry(fs, j, n)
      /\ \A j \in 1 .. Len(fs), n \in Names : Entry(fs, j, n) => gs[j].map[n] = fs[j].map[n]
  BY DEF SameEntries
<1>2. Forward(gs)
  BY <1>1 DEF Tree, Forward
<1>3. OneName(gs)
  BY <1>1 DEF Tree, OneName
<1>4. NoneLost(gs)
  <2> SUFFICES ASSUME NEW i \in 2 .. Len(gs), NEW n \in Names, Entry(gs, i, n) PROVE Linked(gs, i)
    BY DEF NoneLost
  <2>1. i \in 1 .. Len(fs)
    BY <1>1 DEF Entry
  <2>2. Linked(fs, i)
    BY <1>1, <2>1 DEF Tree, NoneLost
  <2> QED
    BY <1>1, <2>2 DEF Linked
<1>5. PICK rank : Ranks(fs, rank, k)
  BY DEF Ranked
<1>6. Ranks(gs, rank, k)
  BY <1>1, <1>5 DEF Ranks
<1> QED
  BY <1>2, <1>3, <1>4, <1>6 DEF Tree, Ranked

(* new is rank with one number more. *)
Prolongs(new, rank, n, r) == new[n + 1] = r /\ \A j \in 1 .. n : new[j] = rank[j]

(* The rank of a new inode. *)
LEMMA RankGrown ==
  ASSUME NEW fs, NEW gs, NEW k \in Nat, NEW m \in Nat, k <= m, NEW rank, Tree(fs), Ranks(fs, rank, k),
         NEW i \in 1 .. Len(fs), NEW name \in Names, Adds(gs, fs, i, name), rank[i] < m
  PROVE  \E new : Ranks(gs, new, m) /\ Prolongs(new, rank, Len(fs), rank[i] + 1)
<1> DEFINE L == Len(fs)
           new == [j \in 1 .. L + 1 |-> IF j = L + 1 THEN rank[i] + 1 ELSE rank[j]]
<1>1. /\ Len(gs) = L + 1
      /\ \A j \in 1 .. Len(gs), n \in Names : Entry(gs, j, n) <=> Entry(fs, j, n) \/ (j = i /\ n = name)
      /\ \A j \in 1 .. L, n \in Names : Entry(fs, j, n) => gs[j].map[n] = fs[j].map[n]
      /\ gs[i].map[name] = Len(gs)
  BY DEF Adds
<1>2. L \in Nat
  BY InodeOf DEF Tree
<1>3. \A j \in 1 .. L, n \in Names : Entry(fs, j, n) => fs[j].map[n] \in j + 1 .. L
  BY DEF Tree, Forward
<1>4. /\ rank \in [1 .. L -> 0 .. k]
      /\ \A j \in 1 .. L, n \in Names : Entry(fs, j, n) => rank[fs[j].map[n]] > rank[j]
  BY DEF Ranks
<1>5. i \in 1 .. L /\ rank[i] \in 0 .. k
  BY <1>4
<1>6. \A j, n : Entry(fs, j, n) => j \in 1 .. L
  BY DEF Entry
<1> HIDE DEF L
<1>7. new[L + 1] = rank[i] + 1 /\ \A j \in 1 .. L : new[j] = rank[j]
  BY <1>2
<1>8. \A j \in 1 .. L + 1 : new[j] \in 0 .. m
  <2> SUFFICES ASSUME NEW j \in 1 .. L + 1 PROVE new[j] \in 0 .. m
    OBVIOUS
  <2>1. CASE j = L + 1
    BY <1>5, <1>7, <2>1
  <2>2. CASE j \in 1 .. L
    <3>1. new[j] = rank[j]
      BY <1>7, <2>2
    <3>2. rank[j] \in 0 .. k
      BY <1>4, <2>2
    <3>3. \A z \in 0 .. k : z \in 0 .. m
      OBVIOUS
    <3> QED
      BY <3>1, <3>2, <3>3, Zenon
  <2> QED
    BY <1>2, <2>1, <2>2
<1>9. new \in [1 .. Len(gs) -> 0 .. m]
  BY <1>1, <1>8
<1> HIDE DEF new
<1>10. ASSUME NEW j \in 1 .. Len(gs), NEW n \in Names, Entry(gs, j, n) PROVE new[gs[j].map[n]] > new[j]
  <2>1. CASE Entry(fs, j, n)
    <3>1. j \in 1 .. L /\ fs[j].map[n] \in j + 1 .. L /\ gs[j].map[n] = fs[j].map[n]
      BY <1>1, <1>3, <1>6, <2>1
    <3>2. fs[j].map[n] \in 1 .. L
      BY <1>2, <3>1
    <3> QED
      BY <1>4, <1>7, <2>1, <3>1, <3>2
  <2>2. CASE j = i /\ n = name
    BY <1>1, <1>5, <1>7, <2>2
  <2> QED
    BY <1>1, <1>10, <2>1, <2>2
<1>11. Ranks(gs, new, m)
  BY <1>9, <1>10 DEF Ranks
<1>12. Prolongs(new, rank, L, rank[i] + 1)
  BY <1>7 DEF Prolongs
<1> QED
  BY <1>11, <1>12 DEF L

(* A new inode under a new name, *)
LEMMA GrownTree ==
  ASSUME NEW fs, NEW gs, NEW k \in Nat, NEW i \in 1 .. Len(fs), NEW name \in Names,
         Tree(fs), Ranked(fs, k), Inodes(gs), Adds(gs, fs, i, name), i \in Reached(fs)
  PROVE  Tree(gs) /\ Ranked(gs, k + 1)
<1> DEFINE L == Len(fs)
<1>1. /\ Len(gs) = L + 1 /\ ~ Entry(fs, i, name)
      /\ \A j \in 1 .. Len(gs), n \in Names : Entry(gs, j, n) <=> Entry(fs, j, n) \/ (j = i /\ n = name)
      /\ \A j \in 1 .. L, n \in Names : Entry(fs, j, n) => gs[j].map[n] = fs[j].map[n]
      /\ gs[i].map[name] = Len(gs)
  BY DEF Adds
<1>2. L \in Nat
  BY InodeOf DEF Tree
<1>3. \A j, n : Entry(fs, j, n) => j \in 1 .. L
  BY DEF Entry
<1>4. Forward(fs) /\ OneName(fs) /\ NoneLost(fs)
  BY DEF Tree
<1> HIDE DEF L
<1>5. Forward(gs)
  <2> SUFFICES ASSUME NEW j \in 1 .. Len(gs), NEW n \in Names, Entry(gs, j, n)
               PROVE  gs[j].map[n] \in j + 1 .. Len(gs)
    BY DEF Forward
  <2>1. CASE Entry(fs, j, n)
    BY <1>1, <1>2, <1>3, <1>4, <2>1 DEF Forward, L
  <2>2. CASE j = i /\ n = name
    BY <1>1, <1>2, <2>2 DEF L
  <2> QED
    BY <1>1, <2>1, <2>2
<1>6. OneName(gs)
  <2> SUFFICES ASSUME NEW j \in 1 .. Len(gs), NEW l \in 1 .. Len(gs), NEW n \in Names, NEW m \in Names,
                      Entry(gs, j, n), Entry(gs, l, m), gs[j].map[n] = gs[l].map[m]
               PROVE  j = l /\ n = m
    BY DEF OneName
  <2>1. ASSUME NEW a \in 1 .. Len(gs), NEW b \in Names, Entry(fs, a, b)
        PROVE  gs[a].map[b] = fs[a].map[b] /\ fs[a].map[b] # Len(gs)
    BY <1>1, <1>2, <1>3, <1>4, <2>1 DEF Forward, L
  <2>2. CASE Entry(fs, j, n) /\ Entry(fs, l, m)
    BY <1>3, <1>4, <2>1, <2>2 DEF OneName, L
  <2>3. CASE ~ Entry(fs, j, n) \/ ~ Entry(fs, l, m)
    BY <1>1, <2>1, <2>3
  <2> QED
    BY <2>2, <2>3
<1>7. NoneLost(gs)
  <2>1. ASSUME NEW j, Linked(fs, j) PROVE Linked(gs, j)
    BY <1>1, <1>2, <2>1 DEF Linked, L
  <2> SUFFICES ASSUME NEW j \in 2 .. Len(gs), NEW n \in Names, Entry(gs, j, n) PROVE Linked(gs, j)
    BY DEF NoneLost
  <2>2. j \in 1 .. Len(gs) /\ j # 1
    BY <1>1, <1>2
  <2>3. CASE Entry(fs, j, n)
    BY <1>2, <1>3, <1>4, <2>1, <2>2, <2>3 DEF NoneLost, L
  <2>4. CASE j = i
    BY <2>1, <2>2, <2>4 DEF Reached
  <2> QED
    BY <1>1, <2>2, <2>3, <2>4
<1>8. Ranked(gs, k + 1)
  <2>1. PICK rank : Ranks(fs, rank, k)
    BY DEF Ranked
  <2>2. rank[i] < k + 1 /\ k <= k + 1 /\ k + 1 \in Nat
    BY <2>1 DEF Ranks
  <2>3. \E new : Ranks(gs, new, k + 1) /\ Prolongs(new, rank, Len(fs), rank[i] + 1)
    BY <2>1, <2>2, RankGrown
  <2> QED
    BY <2>3 DEF Ranked
<1> QED
  BY <1>5, <1>6, <1>7, <1>8 DEF Tree

(* and a name removed whose inode has no entries. *)
LEMMA ShrunkTree ==
  ASSUME NEW fs, NEW gs, NEW k, NEW i \in 1 .. Len(fs), NEW name \in Names,
         Tree(fs), Ranked(fs, k), Inodes(gs), Removes(gs, fs, i, name),
         Entry(fs, i, name), \A n \in Names : ~ Entry(fs, fs[i].map[name], n)
  PROVE  Tree(gs) /\ Ranked(gs, k)
<1>1. /\ Len(gs) = Len(fs)
      /\ \A j \in 1 .. Len(fs), n \in Names : Entry(gs, j, n) <=> Entry(fs, j, n) /\ ~ (j = i /\ n = name)
      /\ \A j \in 1 .. Len(fs), n \in Names : Entry(gs, j, n) => gs[j].map[n] = fs[j].map[n]
  BY DEF Removes
<1>2. Forward(gs)
  BY <1>1 DEF Tree, Forward
<1>3. OneName(gs)
  BY <1>1 DEF Tree, OneName
<1>4. NoneLost(gs)
  <2> SUFFICES ASSUME NEW j \in 2 .. Len(gs), NEW n \in Names, Entry(gs, j, n) PROVE Linked(gs, j)
    BY DEF NoneLost
  <2>1. j \in 1 .. Len(fs) /\ Entry(fs, j, n)
    BY <1>1 DEF Entry
  <2>2. PICK a \in 1 .. Len(fs), m \in Names : Entry(fs, a, m) /\ fs[a].map[m] = j
    BY <1>1, <2>1 DEF Tree, NoneLost, Linked
  <2>3. ~ (a = i /\ m = name)
    BY <2>1, <2>2
  <2>4. Entry(gs, a, m) /\ gs[a].map[m] = j
    BY <1>1, <2>2, <2>3
  <2> QED
    BY <1>1, <2>4 DEF Linked
<1>5. PICK rank : Ranks(fs, rank, k)
  BY DEF Ranked
<1>6. Ranks(gs, rank, k)
  BY <1>1, <1>5 DEF Ranks
<1> QED
  BY <1>2, <1>3, <1>4, <1>6 DEF Tree, Ranked

-----------------------------------------------------------------------------
(* gs is fs with another inode i. *)
Puts(gs, fs, i, x) ==
  /\ gs \in Seq(RamNodes) /\ Len(gs) = Len(fs) /\ gs[i] = x
  /\ \A j \in 1 .. Len(fs) : j # i => gs[j] = fs[j]

(* Replacing an inode. *)
LEMMA PutNode ==
  ASSUME NEW fs, Inodes(fs), NEW i \in 1 .. Len(fs), NEW x \in RamNodes,
         NEW gs, gs = [fs EXCEPT ![i] = x]
  PROVE  Puts(gs, fs, i, x)
<1>1. Len(fs) \in Nat /\ DOMAIN fs = 1 .. Len(fs) /\ \A j \in 1 .. Len(fs) : fs[j] \in RamNodes
  BY InodeOf
<1>2. fs \in [1 .. Len(fs) -> RamNodes]
  BY <1>1, LenProperties DEF Inodes
<1>3. gs \in Seq(RamNodes) /\ Len(gs) = Len(fs)
  BY ExceptSeq DEF Inodes
<1>4. gs[i] = x /\ \A j \in 1 .. Len(fs) : j # i => gs[j] = fs[j]
  BY <1>2
<1> QED
  BY <1>3, <1>4 DEF Puts

(* Other bytes in a file: the entries stay. *)
LEMMA DataSame ==
  ASSUME NEW fs, Inodes(fs), NEW i \in 1 .. Len(fs), fs[i].type = "Regular", NEW d \in Seq(Nat),
         NEW gs, gs = [fs EXCEPT ![i].data = d]
  PROVE  Inodes(gs) /\ SameEntries(gs, fs) /\ Puts(gs, fs, i, File(d))
<1>1. fs[i] = [type |-> "Regular", data |-> fs[i].data]
  BY InodeOf, NodeKinds
<1>2. [fs[i] EXCEPT !.data = d] = File(d)
  BY <1>1 DEF File
<1>3. gs = [fs EXCEPT ![i] = File(d)]
  BY <1>2
<1>10. File(d) \in RamNodes
  BY MakeNodes
<1>4. Puts(gs, fs, i, File(d))
  BY <1>3, <1>10, PutNode
<1>5. /\ gs \in Seq(RamNodes) /\ Len(gs) = Len(fs) /\ gs[i] = File(d)
      /\ \A j \in 1 .. Len(fs) : j # i => gs[j] = fs[j]
  BY <1>4 DEF Puts
<1>6. gs[i].type = "Regular" /\ "Regular" # "Directory"
  BY <1>5, MakeNodes
<1>7. \A j \in 1 .. Len(fs), n \in Names : Entry(gs, j, n) <=> Entry(fs, j, n)
  BY <1>5, <1>6 DEF Entry
<1>8. \A j \in 1 .. Len(fs), n \in Names : Entry(fs, j, n) => gs[j].map[n] = fs[j].map[n]
  BY <1>5, <1>6 DEF Entry
<1>9. Inodes(gs)
  BY <1>5, <1>6, InodeOf DEF Inodes
<1> QED
  BY <1>4, <1>5, <1>7, <1>8, <1>9 DEF SameEntries

(* Directories with another map. *)
LEMMA MapPut ==
  ASSUME NEW fs, Inodes(fs), NEW i \in 1 .. Len(fs), fs[i].type = "Directory", NEW m \in Maps
  PROVE  Puts([fs EXCEPT ![i].map = m], fs, i, Dir(m))
<1>1. fs[i] = [type |-> "Directory", map |-> fs[i].map]
  BY InodeOf, NodeKinds
<1>2. [fs[i] EXCEPT !.map = m] = Dir(m)
  BY <1>1 DEF Dir
<1>3. [fs EXCEPT ![i].map = m] = [fs EXCEPT ![i] = Dir(m)]
  BY <1>2
<1> QED
  BY <1>3, MakeNodes, PutNode

(* new is m with one more name. *)
OneMore(new, m, name, t) ==
  /\ new \in Maps /\ DOMAIN new = DOMAIN m \cup {name} /\ new[name] = t
  /\ \A n \in DOMAIN m : n # name => new[n] = m[n]

(* Adding a name to a map, *)
LEMMA MapAdd ==
  ASSUME NEW m \in Maps, NEW name \in Names, NEW t \in Nat
  PROVE  OneMore(With(m, name, t), m, name, t)
<1> DEFINE new == With(m, name, t)
<1>1. DOMAIN m \subseteq Names /\ m \in [DOMAIN m -> Nat] /\ IsFiniteSet(DOMAIN m)
  BY MapFields
<1>3. new = [n \in DOMAIN m \cup {name} |-> IF n = name THEN t ELSE m[n]]
  BY DEF With
<1> HIDE DEF new
<1>4. new \in [DOMAIN m \cup {name} -> Nat] /\ new[name] = t /\ \A n \in DOMAIN m : n # name => new[n] = m[n]
  BY <1>1, <1>3
<1>2. IsFiniteSet(DOMAIN m \cup {name})
  BY <1>1, FS_AddElement
<1>5. new \in Maps
  BY <1>1, <1>2, <1>4, MakeMap
<1>6. OneMore(new, m, name, t)
  BY <1>4, <1>5 DEF OneMore
<1> QED
  BY <1>6 DEF new

(* and removing one. *)
LEMMA MapDrop ==
  ASSUME NEW m \in Maps, NEW name
  PROVE  LET new == [n \in DOMAIN m \ {name} |-> m[n]]
         IN  /\ new \in Maps /\ DOMAIN new = DOMAIN m \ {name}
             /\ \A n \in DOMAIN m : n # name => new[n] = m[n]
<1> DEFINE new == [n \in DOMAIN m \ {name} |-> m[n]]
<1>1. DOMAIN m \subseteq Names /\ m \in [DOMAIN m -> Nat] /\ IsFiniteSet(DOMAIN m)
  BY MapFields
<1>2. new \in [DOMAIN m \ {name} -> Nat]
  BY <1>1
<1>3. IsFiniteSet(DOMAIN m \ {name})
  BY <1>1, FS_Subset
<1> QED
  BY <1>1, <1>2, <1>3, MakeMap

(* Insert adds an entry, *)
LEMMA InsertAdds ==
  ASSUME NEW fs, Inodes(fs), NEW i \in 1 .. Len(fs), fs[i].type = "Directory",
         NEW name \in Names, name \notin DOMAIN fs[i].map, NEW new \in RamNodes,
         new.type = "Directory" => DOMAIN new.map = {}
  PROVE  /\ Inodes(Insert(fs, i, name, new)) /\ Adds(Insert(fs, i, name, new), fs, i, name)
         /\ Insert(fs, i, name, new)[Len(fs) + 1] = new
<1> DEFINE L == Len(fs)
           m == With(fs[i].map, name, L + 1)
           hs == [fs EXCEPT ![i].map = m]
           gs == Append(hs, new)
<1>1. L \in Nat /\ fs[i].map \in Maps /\ \A j \in 1 .. L : fs[j] \in RamNodes
  BY InodeOf, NodeKinds
<1>2. /\ m \in Maps /\ DOMAIN m = DOMAIN fs[i].map \cup {name} /\ m[name] = L + 1
      /\ \A n \in DOMAIN fs[i].map : n # name => m[n] = fs[i].map[n]
  <2>1. L + 1 \in Nat
    BY <1>1
  <2> HIDE DEF L
  <2>2. OneMore(m, fs[i].map, name, L + 1)
    BY <1>1, <2>1, MapAdd
  <2> QED
    BY <2>2 DEF OneMore
<1>3. Insert(fs, i, name, new) = gs
  BY DEF Insert
<1> HIDE DEF m
<1>4. Puts(hs, fs, i, Dir(m))
  BY <1>2, MapPut
<1> HIDE DEF hs
<1>5. /\ hs \in Seq(RamNodes) /\ Len(hs) = L /\ hs[i] = Dir(m)
      /\ \A j \in 1 .. L : j # i => hs[j] = fs[j]
  BY <1>4 DEF Puts
<1>6. gs \in Seq(RamNodes) /\ Len(gs) = L + 1 /\ gs[L + 1] = new /\ \A j \in 1 .. L : gs[j] = hs[j]
  BY <1>5, AppendProperties
<1> HIDE DEF gs
<1>7. gs[i] = Dir(m) /\ \A j \in 1 .. L : j # i => gs[j] = fs[j]
  BY <1>5, <1>6
<1>8. Dir(m).type = "Directory" /\ Dir(m).map = m
  BY <1>2, MakeNodes
<1>9. Inodes(gs)
  BY <1>1, <1>6, <1>7, <1>8, InodeOf DEF Inodes
<1>10. ~ Entry(fs, i, name)
  BY DEF Entry
<1>11. \A j \in 1 .. L + 1, n \in Names : Entry(gs, j, n) <=> Entry(fs, j, n) \/ (j = i /\ n = name)
  BY <1>1, <1>2, <1>6, <1>7, <1>8 DEF Entry
<1>12. \A j \in 1 .. L, n \in Names : Entry(fs, j, n) => gs[j].map[n] = fs[j].map[n]
  BY <1>2, <1>7, <1>8 DEF Entry
<1>13. gs[i].map[name] = L + 1
  BY <1>2, <1>7, <1>8
<1>14. Adds(gs, fs, i, name)
  BY <1>6, <1>10, <1>11, <1>12, <1>13 DEF Adds
<1> QED
  BY <1>3, <1>6, <1>9, <1>14

(* and Unlink removes one. *)
LEMMA UnlinkRemoves ==
  ASSUME NEW fs, Inodes(fs), NEW i \in 1 .. Len(fs), fs[i].type = "Directory", NEW name \in Names
  PROVE  Inodes(Unlink(fs, i, name)) /\ Removes(Unlink(fs, i, name), fs, i, name)
<1> DEFINE L == Len(fs)
           m == [n \in DOMAIN fs[i].map \ {name} |-> fs[i].map[n]]
           gs == [fs EXCEPT ![i].map = m]
<1>1. L \in Nat /\ fs[i].map \in Maps /\ \A j \in 1 .. L : fs[j] \in RamNodes
  BY InodeOf, NodeKinds
<1>2. /\ m \in Maps /\ DOMAIN m = DOMAIN fs[i].map \ {name}
      /\ \A n \in DOMAIN fs[i].map : n # name => m[n] = fs[i].map[n]
  BY <1>1, MapDrop
<1>3. Unlink(fs, i, name) = gs
  BY DEF Unlink
<1> HIDE DEF m
<1>4. Puts(gs, fs, i, Dir(m))
  BY <1>2, MapPut
<1> HIDE DEF gs
<1>7. /\ gs \in Seq(RamNodes) /\ Len(gs) = L /\ gs[i] = Dir(m)
      /\ \A j \in 1 .. L : j # i => gs[j] = fs[j]
  BY <1>4 DEF Puts
<1>8. Dir(m).type = "Directory" /\ Dir(m).map = m
  BY <1>2, MakeNodes
<1>9. Inodes(gs)
  BY <1>1, <1>7, <1>8, InodeOf DEF Inodes
<1>11. \A j \in 1 .. L, n \in Names : Entry(gs, j, n) <=> Entry(fs, j, n) /\ ~ (j = i /\ n = name)
  BY <1>2, <1>7, <1>8 DEF Entry
<1>12. \A j \in 1 .. L, n \in Names : Entry(gs, j, n) => gs[j].map[n] = fs[j].map[n]
  BY <1>2, <1>7, <1>8 DEF Entry
<1>14. Removes(gs, fs, i, name)
  BY <1>7, <1>11, <1>12 DEF Removes
<1> QED
  BY <1>3, <1>9, <1>14

-----------------------------------------------------------------------------
(* What a call may make of the inodes: a tree, with one inode more if it    *)
(* is deeper.                                                               *)
Evolves(gs, fs, k) ==
  /\ Tree(gs)
  /\ \/ Len(gs) = Len(fs) /\ Ranked(gs, k)
     \/ Len(gs) = Len(fs) + 1 /\ Ranked(gs, k + 1)

Errors == {[res |-> "NotADirectory"], [res |-> "NotFound"], [res |-> "AlreadyExists"], [res |-> "InvalidPath"]}

(* create_file and create_dir. *)
LEMMA CreateResult ==
  ASSUME NEW fs, NEW k \in Nat, Tree(fs), Ranked(fs, k), NEW i \in Reached(fs), NEW name \in Names,
         NEW new \in RamNodes, new.type = "Directory" => DOMAIN new.map = {}
  PROVE  LET made == Create(fs, i, name, new)
         IN  \/ made.fs = fs /\ made.res \in Errors
             \/ /\ made.fs = Insert(fs, i, name, new) /\ made.res = Ok(Len(fs) + 1)
                /\ Inodes(made.fs) /\ Adds(made.fs, fs, i, name)
                /\ Tree(made.fs) /\ Ranked(made.fs, k + 1)
<1> DEFINE made == Create(fs, i, name, new)
<1>1. Inodes(fs) /\ i \in 1 .. Len(fs)
  BY DEF Tree, Reached
<1>2. CASE fs[i].type # "Directory"
  BY <1>2 DEF Create, ftype, Err, Errors
<1>3. CASE fs[i].type = "Directory" /\ name \in DOMAIN fs[i].map
  BY <1>3 DEF Create, ftype, Err, Errors
<1>4. CASE fs[i].type = "Directory" /\ name \notin DOMAIN fs[i].map
  BY <1>1, <1>4, InsertAdds, GrownTree DEF Create, ftype
<1> QED
  BY <1>2, <1>3, <1>4

(* The same, in short. *)
LEMMA CreateEvolves ==
  ASSUME NEW fs, NEW k \in Nat, Tree(fs), Ranked(fs, k), NEW i \in Reached(fs), NEW name \in Names,
         NEW new \in RamNodes, new.type = "Directory" => DOMAIN new.map = {}
  PROVE  LET made == Create(fs, i, name, new)
         IN  /\ Evolves(made.fs, fs, k)
             /\ made.res.res = "Ok" => made.res.inode \in 1 .. Len(made.fs)
<1> DEFINE made == Create(fs, i, name, new)
<1>1. \/ made.fs = fs /\ made.res \in Errors
      \/ /\ made.res = Ok(Len(fs) + 1) /\ Adds(made.fs, fs, i, name)
         /\ Tree(made.fs) /\ Ranked(made.fs, k + 1)
  BY CreateResult
<1> HIDE DEF made
<1>2. CASE made.fs = fs /\ made.res \in Errors
  <2>1. made.res.res # "Ok"
    BY <1>2 DEF Errors
  <2> QED
    BY <1>2, <2>1 DEF Evolves, made
<1>3. CASE /\ made.res = Ok(Len(fs) + 1) /\ Adds(made.fs, fs, i, name)
           /\ Tree(made.fs) /\ Ranked(made.fs, k + 1)
  <2>1. Len(made.fs) = Len(fs) + 1
    BY <1>3 DEF Adds
  <2>2. made.res.inode = Len(fs) + 1
    BY <1>3 DEF Ok
  <2>3. Len(made.fs) \in 1 .. Len(made.fs)
    BY <1>3, InodeOf DEF Tree
  <2> QED
    BY <1>3, <2>1, <2>2, <2>3 DEF Evolves, made
<1> QED
  BY <1>1, <1>2, <1>3

(* open. *)
LEMMA OpenEvolves ==
  ASSUME NEW fs, NEW k \in Nat, Tree(fs), Ranked(fs, k), NEW path \in Seq(Names), path # <<>>, NEW flags
  PROVE  LET opened == OpenInode(fs, path, flags)
         IN  /\ Evolves(opened.fs, fs, k)
             /\ opened.res.res = "Ok" => opened.res.inode \in 1 .. Len(opened.fs)
<1> DEFINE opened == OpenInode(fs, path, flags)
           found  == Resolve(fs, path)
           up     == ParentPath(path)
           parent == Resolve(fs, up)
           name   == LastName(path)
           empty  == File(<<>>)
           made   == Create(fs, parent.inode, name, empty)
<1>1. Inodes(fs) /\ Forward(fs) /\ Evolves(fs, fs, k)
  BY DEF Tree, Evolves
<1>2. up \in Seq(Names) /\ name \in Names
  BY SplitPath
<1>3. found.res = "Ok" => found.inode \in 1 .. Len(fs)
  BY <1>1, ResolveInode DEF Reached
<1> HIDE DEF up
<1>4. parent.res = "Ok" => parent.inode \in Reached(fs)
  BY <1>1, <1>2, ResolveInode
<1>5. empty \in RamNodes /\ empty.type # "Directory"
  <2>1. <<>> \in Seq(Nat)
    OBVIOUS
  <2> QED
    BY <2>1, MakeNodes
<1>6. opened = IF found.res # "NotFound" \/ "CREATE" \notin flags THEN [res |-> found, fs |-> fs]
               ELSE IF parent.res # "Ok" THEN [res |-> parent, fs |-> fs] ELSE made
  BY DEF OpenInode, up
<1>7. parent.res = "Ok" => /\ Evolves(made.fs, fs, k)
                           /\ made.res.res = "Ok" => made.res.inode \in 1 .. Len(made.fs)
  BY <1>2, <1>4, <1>5, CreateEvolves
<1> HIDE DEF made, parent, found, opened
<1>8. CASE opened = [res |-> found, fs |-> fs]
  BY <1>1, <1>3, <1>8 DEF opened
<1>9. CASE opened = [res |-> parent, fs |-> fs] /\ parent.res # "Ok"
  BY <1>1, <1>9 DEF opened
<1>10. CASE opened = made /\ parent.res = "Ok"
  BY <1>7, <1>10 DEF opened
<1> QED
  BY <1>6, <1>8, <1>9, <1>10

(* remove. *)
LEMMA RemoveEvolves ==
  ASSUME NEW fs, NEW k \in Nat, Tree(fs), Ranked(fs, k), NEW i \in Reached(fs), NEW name \in Names
  PROVE  LET gs == RemoveFrom(fs, i, name).fs
         IN  Tree(gs) /\ Ranked(gs, k) /\ Len(gs) = Len(fs)
<1> DEFINE hs == Unlink(fs, i, name)
           removed == RemoveFrom(fs, i, name)
<1>1. Inodes(fs) /\ i \in 1 .. Len(fs) /\ Forward(fs)
  BY DEF Tree, Reached
<1>2. CASE removed.fs = fs
  BY <1>2
<1>3. CASE removed.fs # fs
  <2> DEFINE entry == fs[fs[i].map[name]]
  <2>1. /\ removed.fs = hs /\ fs[i].type = "Directory" /\ name \in DOMAIN fs[i].map
        /\ ~ (entry.type = "Directory" /\ DOMAIN entry.map # {})
    BY <1>3 DEF RemoveFrom, ftype
  <2>2. Inodes(hs) /\ Removes(hs, fs, i, name)
    BY <1>1, <2>1, UnlinkRemoves
  <2>3. Entry(fs, i, name)
    BY <1>1, <2>1 DEF Entry
  <2>4. \A n \in Names : ~ Entry(fs, fs[i].map[name], n)
    BY <2>1 DEF Entry
  <2> HIDE DEF hs
  <2>5. Tree(hs) /\ Ranked(hs, k)
    BY <1>1, <2>2, <2>3, <2>4, ShrunkTree
  <2>6. Len(hs) = Len(fs)
    BY <2>2 DEF Removes
  <2> QED
    BY <2>1, <2>5, <2>6
<1> QED
  BY <1>2, <1>3

(* write_at. *)
LEMMA DataEvolves ==
  ASSUME NEW fs, NEW k, Tree(fs), Ranked(fs, k), NEW i \in 1 .. Len(fs), fs[i].type = "Regular",
         NEW d \in Seq(Nat), NEW gs, gs = [fs EXCEPT ![i].data = d]
  PROVE  Tree(gs) /\ Ranked(gs, k) /\ Len(gs) = Len(fs)
<1>1. Inodes(fs)
  BY DEF Tree
<1>2. Inodes(gs) /\ SameEntries(gs, fs)
  BY <1>1, DataSame
<1>3. Tree(gs) /\ Ranked(gs, k)
  BY <1>2, SameTree
<1> QED
  BY <1>2, <1>3 DEF SameEntries

-----------------------------------------------------------------------------
(* The first part of a concatenation. *)
LEMMA ConcatFirst ==
  ASSUME NEW s \in Seq(Nat), NEW t \in Seq(Nat)
  PROVE  /\ s \o t \in Seq(Nat) /\ Len(s \o t) = Len(s) + Len(t) /\ Len(s) \in Nat /\ Len(t) \in Nat
         /\ \A i \in 1 .. Len(s) : (s \o t)[i] = s[i]
<1>1. Len(s) \in Nat /\ Len(t) \in Nat
  BY LenProperties
<1>2. s \o t \in Seq(Nat) /\ Len(s \o t) = Len(s) + Len(t)
  BY ConcatProperties
<1>3. \A i \in 1 .. Len(s) + Len(t) : (s \o t)[i] = IF i <= Len(s) THEN s[i] ELSE t[i - Len(s)]
  BY ConcatProperties
<1>4. \A i \in 1 .. Len(s) : i \in 1 .. Len(s) + Len(t) /\ i <= Len(s)
  BY <1>1
<1> QED
  BY <1>1, <1>2, <1>3, <1>4

(* A piece of a file holds bytes. *)
LEMMA SliceBytes ==
  ASSUME NEW s \in Seq(Nat), NEW m \in Nat \ {0}, NEW n \in Nat, n <= Len(s)
  PROVE  SubSeq(s, m, n) \in Seq(Nat)
<1>1. Len(s) \in Nat
  BY LenProperties
<1>2. ASSUME NEW i \in m .. n PROVE s[i] \in Nat
  <2>1. i \in 1 .. Len(s)
    BY <1>1
  <2> QED
    BY <2>1, ElementOfSeq
<1> QED
  BY <1>2, SubSeqProperties

(* What write_at leaves in a file: bytes, *)
LEMMA WriteAtBytes ==
  ASSUME NEW data \in Seq(Nat), NEW offset \in Nat, NEW buf \in Seq(Nat)
  PROVE  WriteAt(data, offset, buf) \in Seq(Nat)
<1> DEFINE end == offset + Len(buf)
           gap == IF end > Len(data) THEN end - Len(data) ELSE 0
           pad == [i \in 1 .. gap |-> 0]
           v == data \o pad
<1>1. Len(data) \in Nat /\ Len(buf) \in Nat
  BY LenProperties
<1>2. gap \in Nat /\ end \in Nat
  BY <1>1
<1> HIDE DEF gap, end
<1>3. pad \in [1 .. gap -> Nat]
  OBVIOUS
<1>4. pad \in Seq(Nat) /\ Len(pad) = gap
  BY <1>2, <1>3, FunctionIsSeq
<1> HIDE DEF pad
<1>5. v \in Seq(Nat) /\ Len(v) = Len(data) + gap
  BY <1>4, ConcatProperties
<1>6. Len(v) >= end
  BY <1>1, <1>2, <1>5 DEF gap, end
<1>7. offset <= end
  BY <1>1 DEF end
<1> HIDE DEF v
<1>8. SubSeq(v, 1, offset) \in Seq(Nat)
  <2>1. offset <= Len(v)
    BY <1>1, <1>2, <1>5, <1>6, <1>7
  <2> QED
    BY <1>5, <2>1, SliceBytes
<1>9. SubSeq(v, end + 1, Len(v)) \in Seq(Nat)
  <2>1. end + 1 \in Nat \ {0} /\ Len(v) \in Nat /\ Len(v) <= Len(v)
    BY <1>1, <1>2, <1>5
  <2> QED
    BY <1>5, <2>1, SliceBytes
<1>10. WriteAt(data, offset, buf) = SubSeq(v, 1, offset) \o buf \o SubSeq(v, end + 1, Len(v))
  BY DEF WriteAt, v, pad, gap, end
<1> QED
  BY <1>8, <1>9, <1>10, ConcatProperties

(* and at the end of the file, those it had and buf. *)
LEMMA WriteAtEnd ==
  ASSUME NEW data \in Seq(Nat), NEW buf \in Seq(Nat), NEW new, new = WriteAt(data, Len(data), buf)
  PROVE  Len(new) >= Len(data) /\ SubSeq(new, 1, Len(data)) = data
<1> DEFINE n == Len(data)
           end == n + Len(buf)
           gap == IF end > Len(data) THEN end - Len(data) ELSE 0
           pad == [i \in 1 .. gap |-> 0]
           v == data \o pad
           a == SubSeq(v, 1, n)
           c == SubSeq(v, end + 1, Len(v))
<1>1. n \in Nat /\ Len(buf) \in Nat
  BY LenProperties
<1>2. gap = Len(buf) /\ end \in Nat /\ n <= end
  BY <1>1
<1>3. pad \in [1 .. gap -> Nat]
  OBVIOUS
<1> HIDE DEF gap
<1>4. pad \in Seq(Nat) /\ Len(pad) = gap
  BY <1>1, <1>2, <1>3, FunctionIsSeq
<1> HIDE DEF pad
<1>5. v \in Seq(Nat) /\ Len(v) = n + gap /\ \A i \in 1 .. n : v[i] = data[i]
  BY <1>4, ConcatFirst
<1>6. new = a \o buf \o c
  BY DEF WriteAt, pad, gap
<1> HIDE DEF v, end, n
<1>7. a \in Seq(Nat) /\ Len(a) = n /\ \A i \in 1 .. n : a[i] = v[i]
  BY <1>1, <1>2, <1>5, SubSeqProperties
<1>8. c \in Seq(Nat)
  <2>1. end + 1 \in Nat \ {0} /\ Len(v) \in Nat /\ Len(v) <= Len(v)
    BY <1>1, <1>2, <1>5
  <2> QED
    BY <1>5, <2>1, SliceBytes
<1> HIDE DEF a, c
<1>9. a \o buf \in Seq(Nat) /\ Len(a \o buf) = n + Len(buf) /\ \A i \in 1 .. n : (a \o buf)[i] = a[i]
  BY <1>7, ConcatFirst
<1> DEFINE b == a \o buf
<1>10. b \in Seq(Nat) /\ Len(b) \in Nat /\ Len(b) >= n /\ \A i \in 1 .. n : b[i] = a[i]
  BY <1>1, <1>9
<1>11. new = b \o c
  BY <1>6
<1> HIDE DEF b
<1>12. /\ new \in Seq(Nat) /\ Len(new) = Len(b) + Len(c) /\ Len(c) \in Nat
       /\ \A i \in 1 .. Len(b) : new[i] = b[i]
  BY <1>8, <1>10, <1>11, ConcatFirst
<1>13. Len(new) >= n /\ Len(new) \in Nat
  BY <1>1, <1>10, <1>12
<1>14. \A i \in 1 .. n : new[i] = data[i]
  <2> SUFFICES ASSUME NEW i \in 1 .. n PROVE new[i] = data[i]
    OBVIOUS
  <2>1. i \in 1 .. Len(b)
    BY <1>1, <1>10
  <2>2. new[i] = b[i]
    BY <1>12, <2>1
  <2>3. b[i] = a[i]
    BY <1>10
  <2>4. a[i] = v[i]
    BY <1>7
  <2>5. v[i] = data[i]
    BY <1>5
  <2> QED
    BY <2>2, <2>3, <2>4, <2>5
<1> DEFINE s == SubSeq(new, 1, n)
<1>15. s \in Seq(Nat) /\ Len(s) = n /\ \A i \in 1 .. n : s[i] = new[i]
  BY <1>1, <1>12, <1>13, SubSeqProperties
<1> HIDE DEF s
<1>16. s = data
  BY <1>14, <1>15, SeqEqual DEF n
<1> QED
  BY <1>13, <1>16 DEF s, n

(* What read_at copies. *)
LEMMA ReadAtBytes ==
  ASSUME NEW data \in Seq(Nat), NEW offset \in Nat, NEW len \in Nat
  PROVE  ReadAt(data, offset, len) \in Seq(Nat)
<1>1. Len(data) \in Nat
  BY LenProperties
<1>2. CASE offset >= Len(data)
  BY <1>2 DEF ReadAt
<1>3. CASE offset < Len(data)
  BY <1>1, <1>3, SubSeqProperties DEF LeastOf, ReadAt
<1> QED
  BY <1>1, <1>2, <1>3

(* Paths of calls. *)
LEMMA PathNames ==
  ASSUME NEW path \in Paths
  PROVE  path \in Seq(Names) /\ path # <<>>
<1>1. path \in Seq(STRING) /\ path # <<>>
  BY VfsAssumption
<1>2. STRING \subseteq Names
  BY DEF Names
<1> HIDE DEF Names
<1> QED
  BY <1>1, <1>2, SeqMonotonic

-----------------------------------------------------------------------------
(* A file or directory made at boot. *)
Made(gs, fs, i, name, new) ==
  /\ Create(fs, i, name, new) = [res |-> Ok(Len(fs) + 1), fs |-> gs]
  /\ Tree(gs) /\ gs[Len(gs)] = new /\ Adds(gs, fs, i, name)

(* Boot makes what it asks for. *)
LEMMA SeedMakes ==
  ASSUME NEW fs, NEW rank, Tree(fs), Ranks(fs, rank, 2), NEW i \in Reached(fs), fs[i].type = "Directory",
         rank[i] < 2, NEW name \in Names, ~ Entry(fs, i, name),
         NEW new \in RamNodes, new.type = "Directory" => DOMAIN new.map = {}
  PROVE  \E gs, more : /\ Made(gs, fs, i, name, new)
                       /\ Ranks(gs, more, 2) /\ Prolongs(more, rank, Len(fs), rank[i] + 1)
<1> DEFINE gs == Insert(fs, i, name, new)
<1>1. Inodes(fs) /\ i \in 1 .. Len(fs) /\ Ranked(fs, 2) /\ 2 \in Nat /\ 2 <= 2
  BY DEF Tree, Reached, Ranked
<1>2. name \notin DOMAIN fs[i].map
  BY <1>1 DEF Entry
<1>3. Inodes(gs) /\ Adds(gs, fs, i, name) /\ gs[Len(fs) + 1] = new
  BY <1>1, <1>2, InsertAdds
<1>4. Create(fs, i, name, new) = [res |-> Ok(Len(fs) + 1), fs |-> gs]
  BY <1>2 DEF Create, ftype
<1> HIDE DEF gs
<1>5. Tree(gs)
  BY <1>1, <1>3, GrownTree
<1>6. \E more : Ranks(gs, more, 2) /\ Prolongs(more, rank, Len(fs), rank[i] + 1)
  BY <1>1, <1>3, RankGrown
<1>7. Made(gs, fs, i, name, new)
  BY <1>3, <1>4, <1>5 DEF Made, Adds
<1> QED
  BY <1>6, <1>7

(* The root holds no names but N. *)
Seeded(fs, N) ==
  /\ Tree(fs) /\ \A n \in Names : Entry(fs, 1, n) => n \in N
  /\ \E rank : Ranks(fs, rank, 2) /\ rank[1] = 0

(* The root alone, *)
LEMMA RootAlone ==
  Seeded(<<NewDir>>, {})
<1> DEFINE fs == <<NewDir>>
           rank == [i \in 1 .. 1 |-> 0]
<1>1. NewDir \in RamNodes /\ NewDir.type = "Directory" /\ DOMAIN NewDir.map = {}
  BY EmptyDir
<1>2. fs \in Seq(RamNodes) /\ Len(fs) = 1 /\ fs[1] = NewDir
  BY <1>1
<1> HIDE DEF fs
<1>3. \A i, n : ~ Entry(fs, i, n)
  BY <1>1, <1>2 DEF Entry
<1>4. Inodes(fs)
  BY <1>1, <1>2 DEF Inodes
<1>5. Tree(fs)
  BY <1>3, <1>4 DEF Tree, Forward, OneName, NoneLost
<1>6. Ranks(fs, rank, 2) /\ rank[1] = 0
  BY <1>2, <1>3 DEF Ranks
<1>7. Seeded(fs, {})
  BY <1>3, <1>5, <1>6 DEF Seeded
<1> QED
  BY <1>7 DEF fs

(* The root can take one more name. *)
Grows(fs, N, name, new) ==
  \E gs, more : /\ Made(gs, fs, 1, name, new) /\ Seeded(gs, N \cup {name})
                /\ Ranks(gs, more, 2) /\ more[Len(fs) + 1] = 1

(* with one more name, *)
LEMMA RootMore ==
  ASSUME NEW fs, NEW N, Seeded(fs, N), NEW name \in Names, name \notin N,
         NEW new \in RamNodes, new.type = "Directory" => DOMAIN new.map = {}
  PROVE  Grows(fs, N, name, new)
<1>1. PICK rank : Ranks(fs, rank, 2) /\ rank[1] = 0
  BY DEF Seeded
<1>2. Tree(fs) /\ 1 \in Reached(fs) /\ fs[1].type = "Directory" /\ ~ Entry(fs, 1, name)
  BY InodeOf DEF Seeded, Tree, Inodes, Reached
<1>3. rank[1] < 2
  BY <1>1
<1>4. PICK gs, more : /\ Made(gs, fs, 1, name, new)
                      /\ Ranks(gs, more, 2) /\ Prolongs(more, rank, Len(fs), rank[1] + 1)
  BY <1>1, <1>2, <1>3, SeedMakes
<1>5. more[Len(fs) + 1] = 1 /\ more[1] = 0
  BY <1>1, <1>2, <1>4 DEF Prolongs, Reached
<1>6. Tree(gs) /\ Adds(gs, fs, 1, name)
  BY <1>4 DEF Made
<1>7. 1 \in 1 .. Len(gs)
  BY <1>6, InodeOf DEF Tree
<1>8. \A n \in Names : Entry(gs, 1, n) => n \in N \cup {name}
  BY <1>6, <1>7 DEF Adds, Seeded
<1>9. Seeded(gs, N \cup {name})
  BY <1>4, <1>5, <1>6, <1>8 DEF Seeded
<1> QED
  BY <1>4, <1>5, <1>9 DEF Grows

(* as Seed leaves it, *)
LEMMA SeedMore ==
  ASSUME NEW fs, NEW N, Seeded(fs, N), NEW name \in Names, name \notin N,
         NEW new \in RamNodes, new.type = "Directory" => DOMAIN new.map = {}
  PROVE  Seeded(Seed(fs, RootInode, name, new), N \cup {name})
<1>1. PICK gs : Made(gs, fs, 1, name, new) /\ Seeded(gs, N \cup {name})
  BY RootMore DEF Grows
<1>2. Create(fs, 1, name, new) = [res |-> Ok(Len(fs) + 1), fs |-> gs]
  BY <1>1 DEF Made
<1>3. Seed(fs, RootInode, name, new) = gs
  BY <1>2 DEF Seed, RootInode
<1> QED
  BY <1>1, <1>3

(* and with its four first names. *)
LEMMA SeedRootSeeded ==
  Seeded(SeedRoot, {"welcome", "version", "dev", "tmp"})
<1> DEFINE a == Seed(<<NewDir>>, RootInode, "welcome", File(<<1>>))
           b == Seed(a, RootInode, "version", File(<<2>>))
           c == Seed(b, RootInode, "dev", NewDir)
           d == Seed(c, RootInode, "tmp", NewDir)
<1>1. {"welcome", "version", "dev", "tmp"} \subseteq Names
  BY DEF Names
<1>2. /\ File(<<1>>) \in RamNodes /\ File(<<1>>).type # "Directory"
      /\ File(<<2>>) \in RamNodes /\ File(<<2>>).type # "Directory"
  <2>1. <<1>> \in Seq(Nat) /\ <<2>> \in Seq(Nat)
    OBVIOUS
  <2> QED
    BY <2>1, MakeNodes
<1>3. NewDir \in RamNodes /\ DOMAIN NewDir.map = {}
  BY EmptyDir
<1>4. SeedRoot = d
  BY DEF SeedRoot
<1> HIDE DEF a, b, c, d
<1>5. Seeded(a, {} \cup {"welcome"})
  BY <1>1, <1>2, RootAlone, SeedMore DEF a
<1>6. Seeded(b, ({} \cup {"welcome"}) \cup {"version"})
  BY <1>1, <1>2, <1>5, SeedMore DEF b
<1>7. Seeded(c, (({} \cup {"welcome"}) \cup {"version"}) \cup {"dev"})
  BY <1>1, <1>3, <1>6, SeedMore DEF c
<1>8. Seeded(d, ((({} \cup {"welcome"}) \cup {"version"}) \cup {"dev"}) \cup {"tmp"})
  BY <1>1, <1>3, <1>7, SeedMore DEF d
<1>9. ((({} \cup {"welcome"}) \cup {"version"}) \cup {"dev"}) \cup {"tmp"} = {"welcome", "version", "dev", "tmp"}
  OBVIOUS
<1> QED
  BY <1>4, <1>8, <1>9

(* The seeds of the block device, two levels deep. *)
LEMMA SeedBlkfsTree ==
  ASSUME NEW fs, NEW N, Seeded(fs, N), "blk" \notin N, NEW sector0 \in Seq(Nat)
  PROVE  Tree(SeedBlkfs(fs, sector0)) /\ Ranked(SeedBlkfs(fs, sector0), 2)
<1> DEFINE i == Len(fs) + 1
           f == File(<<1>>)
           g == File(sector0)
<1>1. {"blk", "info", "sector0"} \subseteq Names
  BY DEF Names
<1>2. f \in RamNodes /\ f.type # "Directory" /\ g \in RamNodes /\ g.type # "Directory"
  <2>1. <<1>> \in Seq(Nat)
    OBVIOUS
  <2> QED
    BY <2>1, MakeNodes
<1>3. NewDir \in RamNodes /\ NewDir.type = "Directory" /\ DOMAIN NewDir.map = {}
  BY EmptyDir
<1> HIDE DEF f, g
<1>4. PICK b, rank : /\ Made(b, fs, 1, "blk", NewDir)
                     /\ Ranks(b, rank, 2) /\ rank[Len(fs) + 1] = 1
  <2> DEFINE blk == "blk"
             dir == NewDir
  <2>1. /\ blk \in Names /\ blk \notin N /\ dir \in RamNodes
        /\ dir.type = "Directory" => DOMAIN dir.map = {}
    BY <1>1, <1>3
  <2> HIDE DEF blk, dir
  <2>2. Grows(fs, N, blk, dir)
    BY <2>1, RootMore
  <2> QED
    BY <2>2 DEF Grows, blk, dir
<1>5. /\ Create(fs, 1, "blk", NewDir) = [res |-> Ok(i), fs |-> b]
      /\ Tree(b) /\ b[Len(b)] = NewDir /\ Adds(b, fs, 1, "blk")
  BY <1>4 DEF Made
<1>6. Len(b) = i /\ i \in 1 .. Len(b) /\ i \in Nat /\ Len(fs) \in Nat /\ 1 \in 1 .. Len(b)
  BY <1>5, InodeOf DEF Adds, Seeded, Tree
<1> HIDE DEF i
<1>7. Entry(b, 1, "blk") /\ b[1].map["blk"] = i
  BY <1>1, <1>5, <1>6 DEF Adds
<1>8. i \in Reached(b)
  BY <1>1, <1>6, <1>7 DEF Reached, Linked
<1>9. \A n : ~ Entry(b, i, n)
  BY <1>3, <1>5, <1>6 DEF Entry
<1>10. b[i].type = "Directory" /\ rank[i] < 2
  BY <1>3, <1>4, <1>5, <1>6 DEF i
<1>11. PICK c, more : Made(c, b, i, "info", f) /\ Ranks(c, more, 2) /\ Prolongs(more, rank, Len(b), rank[i] + 1)
  BY <1>1, <1>2, <1>4, <1>5, <1>8, <1>9, <1>10, SeedMakes
<1>12. Create(b, i, "info", f) = [res |-> Ok(Len(b) + 1), fs |-> c] /\ Tree(c) /\ Adds(c, b, i, "info")
  BY <1>11 DEF Made
<1>13. Len(c) = Len(b) + 1 /\ i \in 1 .. Len(c) /\ 1 \in 1 .. Len(c)
  BY <1>6, <1>12 DEF Adds
<1>14. Entry(c, 1, "blk") /\ c[1].map["blk"] = i
  BY <1>1, <1>6, <1>7, <1>12, <1>13 DEF Adds
<1>15. i \in Reached(c)
  BY <1>1, <1>13, <1>14 DEF Reached, Linked
<1>16. Entry(c, i, "info") /\ ~ Entry(c, i, "sector0")
  BY <1>1, <1>9, <1>12, <1>13 DEF Adds
<1>17. c[i].type = "Directory" /\ more[i] < 2
  BY <1>6, <1>10, <1>11, <1>16 DEF Entry, Prolongs
<1>18. PICK d, most : Made(d, c, i, "sector0", g) /\ Ranks(d, most, 2)
  BY <1>1, <1>2, <1>11, <1>12, <1>15, <1>16, <1>17, SeedMakes
<1>19. Create(c, i, "sector0", g) = [res |-> Ok(Len(c) + 1), fs |-> d] /\ Tree(d)
  BY <1>18 DEF Made
<1>20. SeedBlkfs(fs, sector0) = d
  BY <1>5, <1>12, <1>19 DEF RootInode, Ok, SeedBlkfs, f, g, Seed
<1> QED
  BY <1>18, <1>19, <1>20 DEF Ranked

(* The invariant holds at boot. *)
LEMMA InitInv ==
  Init => IInv
<1> SUFFICES ASSUME Init PROVE IInv
  OBVIOUS
<1> DEFINE N == {"welcome", "version", "dev", "tmp"}
           a == <<1, 2, 1>>
           e == <<>>
<1>1. Seeded(SeedRoot, N) /\ "blk" \notin N
  BY SeedRootSeeded
<1>2. a \in Seq(Nat) /\ e \in Seq(Nat)
  OBVIOUS
<1>3. node = SeedRoot \/ node = SeedBlkfs(SeedRoot, a) \/ node = SeedBlkfs(SeedRoot, e)
  BY DEF Init
<1> HIDE DEF N, a, e
<1>4. Tree(node) /\ Ranked(node, 2)
  BY <1>1, <1>2, <1>3, SeedBlkfsTree DEF Seeded, Ranked
<1>5. Len(node) \in Nat /\ MaxMade \in Nat
  BY <1>4, InodeOf, VfsAssumption DEF Tree
<1>6. /\ seeded \in Nat /\ seeded <= Len(node) /\ Len(node) <= seeded + MaxMade
      /\ 2 + Len(node) - seeded = 2
  BY <1>5 DEF Init
<1>7. files \in [DOMAIN files -> OpenFile(Len(node))]
  BY DEF Init
<1> QED
  BY <1>4, <1>6, <1>7 DEF IInv

-----------------------------------------------------------------------------
(* Open files stay open files of more inodes. *)
LEMMA OpenFileMore ==
  ASSUME NEW n \in Nat, NEW m \in Nat, n <= m, NEW f \in OpenFile(n)
  PROVE  f \in OpenFile(m)
BY DEF OpenFile

(* The invariant after a call that leaves a tree. *)
LEMMA CallKeeps ==
  ASSUME IInv, Evolves(node', node, 2 + Len(node) - seeded), Len(node') <= seeded + MaxMade,
         seeded' = seeded, files' \in [DOMAIN files' -> OpenFile(Len(node'))]
  PROVE  IInv'
<1>1. Len(node) \in Nat /\ seeded \in Nat /\ seeded <= Len(node)
  BY InodeOf DEF IInv, Tree
<1>2. Tree(node') /\ Len(node') \in Nat
  BY InodeOf DEF Evolves, Tree
<1> DEFINE k == 2 + Len(node) - seeded
<1>3. \/ Len(node') = Len(node) /\ Ranked(node', k)
      \/ Len(node') = Len(node) + 1 /\ Ranked(node', k + 1)
  BY DEF Evolves
<1>4. Ranked(node', 2 + Len(node') - seeded')
  BY <1>1, <1>3
<1>5. seeded' \in Nat /\ seeded' <= Len(node') /\ Len(node') <= seeded' + MaxMade
  BY <1>1, <1>2, <1>3
<1> QED
  BY <1>2, <1>4, <1>5 DEF IInv

(* The inodes may stay as they are, *)
LEMMA Unmoved ==
  ASSUME IInv, node' = node
  PROVE  Evolves(node', node, 2 + Len(node) - seeded) /\ Len(node') <= seeded + MaxMade
BY DEF IInv, Evolves

(* or be one more, when the bound allows it. *)
LEMMA Bounded ==
  ASSUME IInv, CanCreate, NEW k, Evolves(node', node, k)
  PROVE  Len(node') <= seeded + MaxMade /\ Len(node') \in Nat /\ Len(node') >= Len(node)
<1>1. Len(node) \in Nat /\ seeded \in Nat /\ MaxMade \in Nat
  BY InodeOf, VfsAssumption DEF IInv, Tree
<1>2. Len(node') = Len(node) \/ Len(node') = Len(node) + 1
  BY DEF Evolves
<1> QED
  BY <1>1, <1>2 DEF CanCreate

(* The bound on the depth. *)
LEMMA Depth ==
  ASSUME IInv
  PROVE  /\ 2 + Len(node) - seeded \in Nat /\ Tree(node) /\ Ranked(node, 2 + Len(node) - seeded)
         /\ Inodes(node) /\ Forward(node) /\ Len(node) \in Nat
<1>1. Len(node) \in Nat
  BY InodeOf DEF IInv, Tree
<1> QED
  BY <1>1 DEF IInv, Tree

(* The files stay open. *)
LEMMA FilesKept ==
  ASSUME IInv, Len(node') \in Nat, Len(node') >= Len(node), UNCHANGED files
  PROVE  files' \in [DOMAIN files' -> OpenFile(Len(node'))]
<1>1. files \in [DOMAIN files -> OpenFile(Len(node))] /\ Len(node) \in Nat
  BY Depth DEF IInv
<1>2. \A h \in DOMAIN files : files[h] \in OpenFile(Len(node'))
  BY <1>1, OpenFileMore
<1>3. files \in [DOMAIN files -> OpenFile(Len(node'))]
  BY <1>1, <1>2
<1> QED
  BY <1>3

(* mkdir. *)
LEMMA MkdirStep ==
  ASSUME IInv, NEW path \in Paths, CmdMkdir(path), seeded' = seeded
  PROVE  IInv'
<1> DEFINE k == 2 + Len(node) - seeded
           up == ParentPath(path)
           parent == Resolve(node, up)
           name == LastName(path)
           made == Create(node, parent.inode, name, NewDir)
<1>1. k \in Nat /\ Tree(node) /\ Ranked(node, k) /\ Inodes(node) /\ Forward(node)
  BY Depth
<1>2. up \in Seq(Names) /\ name \in Names
  BY PathNames, SplitPath
<1>3. CanCreate /\ UNCHANGED files
  BY DEF CmdMkdir
<1>4. Evolves(node', node, k)
  BY <1>1, <1>2, Unmoved, ResolveInode, EmptyDir, CreateEvolves DEF CmdMkdir
<1> QED
  BY <1>3, <1>4, Bounded, FilesKept, CallKeeps

(* rm. *)
LEMMA RmStep ==
  ASSUME IInv, NEW path \in Paths, CmdRm(path), seeded' = seeded
  PROVE  IInv'
<1> DEFINE k == 2 + Len(node) - seeded
           up == ParentPath(path)
           parent == Resolve(node, up)
           name == LastName(path)
           removed == RemoveFrom(node, parent.inode, name)
<1>1. k \in Nat /\ Tree(node) /\ Ranked(node, k) /\ Inodes(node) /\ Forward(node)
  BY Depth
<1>2. up \in Seq(Names) /\ name \in Names
  BY PathNames, SplitPath
<1>3. UNCHANGED files
  BY DEF CmdRm
<1>4. Tree(node') /\ Ranked(node', k) /\ Len(node') = Len(node)
  <2>1. CASE parent.res # "Ok"
    BY <1>1, <2>1 DEF CmdRm
  <2>2. CASE parent.res = "Ok"
    <3>1. node' = removed.fs
      BY <2>2 DEF CmdRm
    <3> HIDE DEF up, name, k
    <3>2. parent.inode \in Reached(node)
      BY <1>1, <1>2, <2>2, ResolveInode
    <3> HIDE DEF parent
    <3> QED
      BY <1>1, <1>2, <3>1, <3>2, RemoveEvolves
  <2> QED
    BY <2>1, <2>2
<1>5. Evolves(node', node, k) /\ Len(node') <= seeded + MaxMade
  BY <1>4 DEF IInv, Evolves
<1>6. Len(node') \in Nat /\ Len(node') >= Len(node)
  BY <1>4, Depth
<1> QED
  BY <1>3, <1>5, <1>6, FilesKept, CallKeeps

(* write. *)
LEMMA WriteStep ==
  ASSUME IInv, NEW path \in Paths, NEW text \in Texts, CmdWrite(path, text), seeded' = seeded
  PROVE  IInv'
<1> DEFINE k == 2 + Len(node) - seeded
           flags == {"WRITE", "CREATE"}
           opened == OpenInode(node, path, flags)
           fs == opened.fs
           i == opened.res.inode
<1>1. k \in Nat /\ Tree(node) /\ Ranked(node, k)
  BY Depth
<1>2. path \in Seq(Names) /\ path # <<>> /\ text \in Seq(Nat)
  BY PathNames, VfsAssumption
<1>3. CanCreate /\ UNCHANGED files
  BY DEF CmdWrite
<1> HIDE DEF flags
<1>4. Evolves(fs, node, k) /\ (opened.res.res = "Ok" => i \in 1 .. Len(fs))
  BY <1>1, <1>2, OpenEvolves
<1>5. CASE opened.res.res # "Ok" \/ fs[i].type = "Directory"
  BY <1>3, <1>4, <1>5, Bounded, FilesKept, CallKeeps DEF CmdWrite, ftype, flags
<1>6. CASE opened.res.res = "Ok" /\ fs[i].type # "Directory"
  <2> DEFINE d == WriteAt(fs[i].data, 0, text)
             gs == [fs EXCEPT ![i].data = d]
  <2>1. node' = gs
    BY <1>6 DEF CmdWrite, ftype, flags
  <2> HIDE DEF opened, fs, i, k
  <2>2. i \in 1 .. Len(fs) /\ Tree(fs)
    BY <1>4, <1>6 DEF fs, i, Evolves
  <2>3. fs[i].type = "Regular" /\ fs[i].data \in Seq(Nat)
    BY <1>6, <2>2, InodeOf, NodeKinds DEF Tree
  <2>4. d \in Seq(Nat)
    BY <1>2, <2>3, WriteAtBytes
  <2> HIDE DEF d
  <2>5. gs = [fs EXCEPT ![i].data = d]
    OBVIOUS
  <2> HIDE DEF gs
  <2>6. Inodes(gs) /\ SameEntries(gs, fs)
    BY <2>2, <2>3, <2>4, <2>5, DataSame DEF Tree
  <2>7. ASSUME NEW n, Ranked(fs, n) PROVE Tree(gs) /\ Ranked(gs, n) /\ Len(gs) = Len(fs)
    BY <2>2, <2>6, <2>7, SameTree DEF SameEntries
  <2>8. Evolves(gs, node, k)
    BY <1>4, <2>7 DEF Evolves
  <2>9. Evolves(node', node, k)
    BY <2>1, <2>8
  <2> QED
    BY <1>3, <2>9, Bounded, FilesKept, CallKeeps DEF k
<1> QED
  BY <1>5, <1>6

(* cat. *)
LEMMA CatStep ==
  ASSUME IInv, NEW path \in Paths, CmdCat(path), seeded' = seeded
  PROVE  IInv'
<1>1. node' = node /\ UNCHANGED files
  BY DEF CmdCat
<1>2. Len(node') \in Nat /\ Len(node') >= Len(node)
  BY <1>1, Depth
<1> QED
  BY <1>1, <1>2, Unmoved, FilesKept, CallKeeps

(* One more function value. *)
LEMMA WithType ==
  ASSUME NEW f, NEW S, f \in [DOMAIN f -> S], NEW key, NEW value \in S
  PROVE  With(f, key, value) \in [DOMAIN With(f, key, value) -> S]
BY DEF With

(* open. *)
LEMMA OpenStep ==
  ASSUME IInv, NEW h, NEW path \in Paths, NEW flags \in Flags, Open(h, path, flags), seeded' = seeded
  PROVE  IInv'
<1> DEFINE k == 2 + Len(node) - seeded
           opened == OpenInode(node, path, flags)
           i == opened.res.inode
<1>1. k \in Nat /\ Tree(node) /\ Ranked(node, k) /\ Len(node) \in Nat
  BY Depth
<1>2. path \in Seq(Names) /\ path # <<>>
  BY PathNames
<1>3. CanCreate /\ node' = opened.fs
  BY DEF Open
<1>4. files' = IF opened.res.res = "Ok" THEN With(files, h, NewFile(i, flags)) ELSE files
  BY DEF Open
<1>5. Evolves(node', node, k) /\ (opened.res.res = "Ok" => i \in 1 .. Len(node'))
  BY <1>1, <1>2, <1>3, OpenEvolves
<1>6. Len(node') <= seeded + MaxMade /\ Len(node') \in Nat /\ Len(node') >= Len(node)
  BY <1>3, <1>5, Bounded
<1> HIDE DEF opened, i
<1>7. files \in [DOMAIN files -> OpenFile(Len(node'))]
  BY <1>1, <1>6, OpenFileMore DEF IInv
<1>8. files' \in [DOMAIN files' -> OpenFile(Len(node'))]
  BY <1>4, <1>5, <1>7, WithType DEF NewFile, OpenFile
<1> QED
  BY <1>5, <1>6, <1>8, CallKeeps

(* Files whose offset moves stay open files. *)
LEMMA OffsetMoves ==
  ASSUME IInv, NEW h \in DOMAIN files, NEW offset \in Nat, files' = [files EXCEPT ![h].offset = offset],
         Len(node') = Len(node)
  PROVE  files' \in [DOMAIN files' -> OpenFile(Len(node'))]
<1> DEFINE F == OpenFile(Len(node))
<1>1. files \in [DOMAIN files -> F]
  BY DEF IInv
<1>2. files[h] \in F
  BY <1>1
<1>3. [files[h] EXCEPT !.offset = offset] \in F
  BY <1>2 DEF OpenFile
<1> HIDE DEF F
<1>4. files' \in [DOMAIN files -> F] /\ DOMAIN files' = DOMAIN files
  BY <1>1, <1>3
<1> QED
  BY <1>4 DEF F

(* The invariant after a step that changes offsets only. *)
LEMMA OffsetStep ==
  ASSUME IInv, NEW h \in DOMAIN files, NEW offset \in Nat, files' = [files EXCEPT ![h].offset = offset],
         node' = node, seeded' = seeded
  PROVE  IInv'
<1>1. files' \in [DOMAIN files' -> OpenFile(Len(node'))]
  BY OffsetMoves
<1> QED
  BY <1>1, Unmoved, CallKeeps

(* The inode of an open file. *)
LEMMA OpenInodeOf ==
  ASSUME IInv, NEW h \in DOMAIN files
  PROVE  /\ files[h].inode \in 1 .. Len(node) /\ files[h].offset \in Nat
         /\ node[files[h].inode] \in RamNodes
<1>1. files[h] \in OpenFile(Len(node))
  BY DEF IInv
<1>2. files[h].inode \in 1 .. Len(node) /\ files[h].offset \in Nat
  BY <1>1 DEF OpenFile
<1> QED
  BY <1>2, Depth, InodeOf

(* File::read. *)
LEMMA ReadStep ==
  ASSUME IInv, NEW h, Read(h), seeded' = seeded
  PROVE  IInv'
<1> DEFINE f == files[h]
           data == node[f.inode].data
           offset == f.offset + Len(ReadAt(data, f.offset, Chunk))
<1>1. h \in DOMAIN files /\ node' = node
  BY DEF Read
<1>2. CASE "READ" \in f.flags /\ ftype(node, f.inode) = "Regular"
  <2>1. files' = [files EXCEPT ![h].offset = offset]
    BY <1>2 DEF Read
  <2>2. f.offset \in Nat /\ data \in Seq(Nat)
    BY <1>1, <1>2, OpenInodeOf, NodeKinds DEF ftype
  <2> HIDE DEF data, f
  <2>3. offset \in Nat
    <3> DEFINE got == ReadAt(data, f.offset, Chunk)
    <3>1. got \in Seq(Nat)
      BY <2>2, ReadAtBytes, VfsAssumption
    <3>2. Len(got) \in Nat
      BY <3>1, LenProperties
    <3> QED
      BY <2>2, <3>2
  <2> HIDE DEF offset
  <2> QED
    BY <1>1, <2>1, <2>3, OffsetStep
<1>3. CASE ~ ("READ" \in f.flags /\ ftype(node, f.inode) = "Regular")
  BY <1>1, <1>3, Depth, Unmoved, FilesKept, CallKeeps DEF Read
<1> QED
  BY <1>2, <1>3

(* File::seek. *)
LEMMA SeekStep ==
  ASSUME IInv, NEW h, NEW off \in 0 .. MaxSize, Seek(h, off), seeded' = seeded
  PROVE  IInv'
<1>1. off \in Nat
  BY VfsAssumption
<1> QED
  BY <1>1, OffsetStep DEF Seek

(* A handle is dropped. *)
LEMMA CloseStep ==
  ASSUME IInv, NEW h, Close(h), seeded' = seeded
  PROVE  IInv'
<1> DEFINE F == OpenFile(Len(node))
<1>1. files \in [DOMAIN files -> F]
  BY DEF IInv
<1>2. files' = [g \in DOMAIN files \ {h} |-> files[g]] /\ node' = node
  BY DEF Close
<1> HIDE DEF F
<1>3. files' \in [DOMAIN files' -> F]
  BY <1>1, <1>2
<1>4. files' \in [DOMAIN files' -> OpenFile(Len(node'))]
  BY <1>2, <1>3 DEF F
<1> QED
  BY <1>2, <1>4, Unmoved, CallKeeps

(* What a successful write does. *)
Written(h, buf) ==
  /\ h \in DOMAIN files /\ node[files[h].inode].type = "Regular"
  /\ node' = [node EXCEPT ![files[h].inode].data = WriteAt(@, WriteOffset(node, files[h]), buf)]
  /\ files' = [files EXCEPT ![h].offset = WriteOffset(node, files[h]) + Len(buf)]

(* File::write writes, or leaves the inodes alone and moves one offset at   *)
(* most.                                                                    *)
LEMMA WriteCases ==
  ASSUME IInv, NEW h, NEW buf, Write(h, buf)
  PROVE  \/ Written(h, buf)
         \/ node' = node /\ files' = files
         \/ /\ node' = node /\ h \in DOMAIN files
            /\ \E offset \in Nat : files' = [files EXCEPT ![h].offset = offset]
<1> DEFINE f == files[h]
           i == f.inode
<1>1. h \in DOMAIN files
  BY DEF Write
<1>2. node[i] \in RamNodes
  BY <1>1, OpenInodeOf
<1>3. CASE "WRITE" \notin f.flags
  BY <1>3 DEF Write
<1>4. CASE "WRITE" \in f.flags /\ node[i].type = "Directory"
  BY <1>1, <1>2, <1>4, NodeKinds, MapFields, FS_CardinalityType DEF Write, ftype
<1>5. CASE "WRITE" \in f.flags /\ node[i].type # "Directory"
  BY <1>1, <1>2, <1>5, NodeKinds DEF Write, ftype, Written
<1> QED
  BY <1>3, <1>4, <1>5

(* Where it writes. *)
LEMMA WriteOffsetNat ==
  ASSUME IInv, NEW h \in DOMAIN files, node[files[h].inode].type = "Regular"
  PROVE  WriteOffset(node, files[h]) \in Nat /\ node[files[h].inode].data \in Seq(Nat)
<1>1. files[h].offset \in Nat /\ node[files[h].inode].data \in Seq(Nat)
  BY OpenInodeOf, NodeKinds
<1> QED
  BY <1>1, LenProperties DEF WriteOffset

(* The invariant after a write. *)
LEMMA WrittenStep ==
  ASSUME IInv, NEW h, NEW buf \in Texts, Written(h, buf), seeded' = seeded
  PROVE  IInv'
<1> DEFINE f == files[h]
           i == f.inode
           off == WriteOffset(node, f)
           d == WriteAt(node[i].data, off, buf)
           gs == [node EXCEPT ![i].data = d]
           k == 2 + Len(node) - seeded
           offset == off + Len(buf)
<1>1. h \in DOMAIN files /\ node[i].type = "Regular" /\ node' = gs /\ files' = [files EXCEPT ![h].offset = offset]
  BY DEF Written
<1>2. off \in Nat /\ node[i].data \in Seq(Nat) /\ i \in 1 .. Len(node)
  BY <1>1, WriteOffsetNat, OpenInodeOf
<1>3. buf \in Seq(Nat)
  BY VfsAssumption
<1>4. Tree(node) /\ Ranked(node, k)
  BY Depth
<1> HIDE DEF off, i, k
<1>5. d \in Seq(Nat)
  BY <1>2, <1>3, WriteAtBytes
<1>6. offset \in Nat
  BY <1>2, <1>3, LenProperties
<1> HIDE DEF d, offset
<1>7. Tree(gs) /\ Ranked(gs, k) /\ Len(gs) = Len(node)
  <2>1. node[i].type = "Regular" /\ i \in 1 .. Len(node)
    BY <1>1, <1>2
  <2> QED
    BY <1>4, <1>5, <2>1, DataEvolves
<1> HIDE DEF gs
<1>8. Evolves(node', node, k) /\ Len(node') = Len(node)
  BY <1>1, <1>7 DEF Evolves
<1>9. Len(node') <= seeded + MaxMade
  BY <1>8 DEF IInv
<1>10. files' \in [DOMAIN files' -> OpenFile(Len(node'))]
  BY <1>1, <1>6, <1>8, OffsetMoves
<1> QED
  BY <1>8, <1>9, <1>10, CallKeeps DEF k

(* File::write. *)
LEMMA HandleWriteStep ==
  ASSUME IInv, NEW h, NEW buf \in Texts, Write(h, buf), seeded' = seeded
  PROVE  IInv'
<1>1. CASE Written(h, buf)
  BY <1>1, WrittenStep
<1>2. CASE node' = node /\ files' = files
  BY <1>2, Depth, Unmoved, FilesKept, CallKeeps
<1>3. CASE /\ node' = node /\ h \in DOMAIN files
           /\ \E offset \in Nat : files' = [files EXCEPT ![h].offset = offset]
  BY <1>3, OffsetStep
<1> QED
  BY <1>1, <1>2, <1>3, WriteCases

(* Every step preserves the invariant. *)
LEMMA NextInv ==
  IInv /\ [Next]_vars => IInv'
<1> SUFFICES ASSUME IInv, [Next]_vars PROVE IInv'
  OBVIOUS
<1>1. CASE Next
  <2>1. seeded' = seeded /\ Call
    BY <1>1 DEF Next
  <2>2. CASE \E path \in Paths : CmdMkdir(path)
    BY <2>1, <2>2, MkdirStep
  <2>3. CASE \E path \in Paths : CmdRm(path)
    BY <2>1, <2>3, RmStep
  <2>4. CASE \E path \in Paths : CmdCat(path)
    BY <2>1, <2>4, CatStep
  <2>5. CASE \E path \in Paths, text \in Texts : CmdWrite(path, text)
    BY <2>1, <2>5, WriteStep
  <2>6. CASE \E path \in Paths, h \in Handles, flags \in Flags : Open(h, path, flags)
    BY <2>1, <2>6, OpenStep
  <2>7. CASE \E h \in Handles : Read(h)
    BY <2>1, <2>7, ReadStep
  <2>8. CASE \E h \in Handles : Close(h)
    BY <2>1, <2>8, CloseStep
  <2>9. CASE \E h \in Handles, buf \in Texts : Write(h, buf)
    BY <2>1, <2>9, HandleWriteStep
  <2>10. CASE \E h \in Handles, off \in 0 .. MaxSize : Seek(h, off)
    BY <2>1, <2>10, SeekStep
  <2> QED
    BY <2>1, <2>2, <2>3, <2>4, <2>5, <2>6, <2>7, <2>8, <2>9, <2>10 DEF Call
<1>2. CASE UNCHANGED vars
  BY <1>2 DEF vars, IInv
<1> QED
  BY <1>1, <1>2

(* The inodes always form a tree under the root, and open files refer to    *)
(* inodes.                                                                  *)
THEOREM InductiveInvariant == Spec => []IInv
<1>1. Init => IInv
  BY InitInv
<1>2. IInv /\ [Next]_vars => IInv'
  BY NextInv
<1> QED
  BY <1>1, <1>2, PTL DEF Spec

-----------------------------------------------------------------------------
(* Reading on from o. *)
Rest(data, o) == SubSeq(data, o + 1, Len(data))

(* What one read_at leaves to read. *)
LEMMA ReadSome ==
  ASSUME NEW data \in Seq(Nat), NEW o \in Nat, o < Len(data), NEW len \in Nat \ {0}
  PROVE  LET got == ReadAt(data, o, len)
         IN  /\ got # <<>> /\ Len(got) \in 1 .. Len(data) - o
             /\ got \o Rest(data, o + Len(got)) = Rest(data, o)
<1> DEFINE n == Len(data)
           k == LeastOf(n - o, len)
           got == ReadAt(data, o, len)
           m == o + k
           rest == Rest(data, m)
           all == Rest(data, o)
<1>1. n \in Nat /\ \A i \in 1 .. n : data[i] \in Nat
  BY LenProperties, ElementOfSeq
<1>2. k \in 1 .. n - o
  BY <1>1 DEF LeastOf
<1>3. got = SubSeq(data, o + 1, m)
  <2>1. ~ (o >= n)
    BY <1>1
  <2> QED
    BY <2>1 DEF ReadAt
<1> HIDE DEF k, n
<1>4. m \in Nat /\ o < m /\ m <= n
  BY <1>1, <1>2
<1> HIDE DEF m, got
<1>5. got \in Seq(Nat) /\ Len(got) = m - o /\ \A i \in 1 .. m - o : got[i] = data[o + i]
  BY <1>1, <1>3, <1>4, SubSeqProperties
<1>6. ASSUME NEW j \in Nat, j <= n
      PROVE  LET s == Rest(data, j) IN s \in Seq(Nat) /\ Len(s) = n - j /\ \A i \in 1 .. n - j : s[i] = data[j + i]
  BY <1>1, <1>6, SubSeqProperties DEF Rest, n
<1>7. rest \in Seq(Nat) /\ Len(rest) = n - m /\ \A i \in 1 .. n - m : rest[i] = data[m + i]
  BY <1>4, <1>6
<1>8. all \in Seq(Nat) /\ Len(all) = n - o /\ \A i \in 1 .. n - o : all[i] = data[o + i]
  <2>1. o \in Nat /\ o <= n
    BY <1>1 DEF n
  <2> QED
    BY <1>6, <2>1
<1> HIDE DEF rest, all
<1> DEFINE c == got \o rest
<1>9. /\ c \in Seq(Nat) /\ Len(c) = Len(got) + Len(rest)
      /\ \A i \in 1 .. Len(got) + Len(rest) : c[i] = IF i <= Len(got) THEN got[i] ELSE rest[i - Len(got)]
  BY <1>5, <1>7, ConcatProperties
<1>10. Len(c) = n - o
  BY <1>1, <1>4, <1>5, <1>7, <1>9
<1> HIDE DEF c
<1>11. ASSUME NEW i \in 1 .. n - o PROVE c[i] = all[i]
  <2>1. all[i] = data[o + i] /\ c[i] = IF i <= m - o THEN got[i] ELSE rest[i - (m - o)]
    BY <1>5, <1>8, <1>9, <1>10
  <2>2. CASE i <= m - o
    BY <1>1, <1>4, <1>5, <2>1, <2>2
  <2>3. CASE i > m - o
    BY <1>1, <1>4, <1>7, <2>1, <2>3
  <2> QED
    BY <1>4, <2>2, <2>3
<1>12. c = all
  BY <1>8, <1>9, <1>10, <1>11, SeqEqual
<1>13. got # <<>> /\ Len(got) \in 1 .. n - o /\ o + Len(got) = m
  BY <1>1, <1>4, <1>5
<1> QED
  BY <1>12, <1>13 DEF c, got, n, rest, all

(* read_to_string returns the whole file. *)
LEMMA ReadWhole ==
  ASSUME NEW data \in Seq(Nat)
  PROVE  ReadToEnd(data) = data
<1> DEFINE n == Len(data)
           Got(o) == ReadAt(data, o, Chunk)
           g == [o \in 0 .. n |-> Rest(data, o)]
           E == CHOOSE e : e = [o \in 0 .. n |-> IF ReadAt(data, o, Chunk) = <<>> THEN <<>>
                                    ELSE ReadAt(data, o, Chunk) \o e[o + Len(ReadAt(data, o, Chunk))]]
<1>1. n \in Nat /\ Chunk \in Nat \ {0} /\ \A i \in 1 .. n : data[i] \in Nat
  BY LenProperties, ElementOfSeq, VfsAssumption
<1>2. ReadToEnd(data) = E[0]
  BY DEF ReadToEnd
<1>3. Got(n) = <<>> /\ Rest(data, n) = <<>>
  BY <1>1, SubSeqEmpty DEF ReadAt, Rest
<1>4. ASSUME NEW o \in 0 .. n, o # n
      PROVE  /\ Got(o) # <<>> /\ o + Len(Got(o)) \in o + 1 .. n
             /\ Got(o) \o Rest(data, o + Len(Got(o))) = Rest(data, o)
  <2>1. o \in Nat /\ o < Len(data)
    BY <1>1, <1>4
  <2>2. /\ Got(o) # <<>> /\ Len(Got(o)) \in 1 .. n - o
        /\ Got(o) \o Rest(data, o + Len(Got(o))) = Rest(data, o)
    BY <1>1, <2>1, ReadSome
  <2>3. o + Len(Got(o)) \in o + 1 .. n
    BY <1>1, <2>2
  <2> QED
    BY <2>2, <2>3
<1> HIDE DEF Got
<1>5. g = [o \in 0 .. n |-> IF Got(o) = <<>> THEN <<>> ELSE Got(o) \o g[o + Len(Got(o))]]
  <2> SUFFICES ASSUME NEW o \in 0 .. n
               PROVE  Rest(data, o) = IF Got(o) = <<>> THEN <<>> ELSE Got(o) \o g[o + Len(Got(o))]
    OBVIOUS
  <2>1. CASE o = n
    BY <1>3, <2>1
  <2>2. CASE o # n
    <3> DEFINE x == o + Len(Got(o))
    <3>1. x \in 0 .. n
      BY <1>1, <1>4, <2>2
    <3>2. g[x] = Rest(data, x)
      BY <3>1
    <3> QED
      BY <1>4, <2>2, <3>2
  <2> QED
    BY <2>1, <2>2
<1>6. E = [o \in 0 .. n |-> IF Got(o) = <<>> THEN <<>> ELSE Got(o) \o E[o + Len(Got(o))]]
  BY <1>5 DEF Got
<1> HIDE DEF E
<1>7. \A o \in 0 .. n : E[o] = IF Got(o) = <<>> THEN <<>> ELSE Got(o) \o E[o + Len(Got(o))]
  BY <1>6
<1> HIDE DEF g, n
<1> DEFINE T == {d \in 0 .. n : E[n - d] # Rest(data, n - d)}
<1>8. T = {}
  <2> SUFFICES ASSUME T # {} PROVE FALSE
    OBVIOUS
  <2>1. T \subseteq Nat
    OBVIOUS
  <2>2. PICK d \in T : \A y \in T : d <= y
    BY <2>1, LeastNatural
  <2> DEFINE o == n - d
             x == o + Len(Got(o))
  <2>3. o \in 0 .. n /\ d \in 0 .. n /\ E[o] # Rest(data, o)
    BY <1>1, <2>2
  <2>4. o # n
    BY <1>1, <1>3, <1>7, <2>3
  <2>5. x \in o + 1 .. n /\ Got(o) # <<>> /\ Got(o) \o Rest(data, x) = Rest(data, o)
    BY <1>4, <2>3, <2>4
  <2>6. E[o] = Got(o) \o E[x]
    BY <1>7, <2>3, <2>5
  <2>7. E[x] # Rest(data, x)
    BY <2>3, <2>5, <2>6
  <2> HIDE DEF x
  <2>8. n - x \in 0 .. n /\ n - (n - x) = x /\ n - x < d
    BY <1>1, <2>3, <2>5
  <2>9. n - x \in T
    BY <2>7, <2>8
  <2> QED
    BY <2>2, <2>3, <2>8, <2>9
<1>9. E[0] = Rest(data, 0)
  <2>1. n \in 0 .. n /\ n - n = 0
    BY <1>1
  <2> QED
    BY <1>8, <2>1
<1>10. Rest(data, 0) = data
  BY <1>1, SubSeqProperties, SeqEqual DEF n, Rest
<1> QED
  BY <1>2, <1>9, <1>10

(* cat shows every file whole, however its chunks fall (read_to_string). *)
THEOREM CatWhole == Spec => []CatShowsWholeFile
<1>1. IInv => CatShowsWholeFile
  BY Depth, InodeOf, NodeKinds, ReadWhole DEF CatShowsWholeFile
<1> QED
  BY InductiveInvariant, <1>1, PTL

-----------------------------------------------------------------------------
(* Only a write through the handle changes both the inodes and the offset   *)
(* of a handle.                                                             *)
LEMMA OnlyWrites ==
  ASSUME IInv, Next, NEW h \in DOMAIN files, h \in DOMAIN files', node' # node, files'[h].offset # files[h].offset
  PROVE  \E buf \in Texts : Written(h, buf)
<1>1. node' # node /\ files' # files /\ Call
  BY DEF Next
<1>2. ASSUME NEW path \in Paths, CmdMkdir(path) \/ CmdRm(path) \/ CmdCat(path) PROVE FALSE
  BY <1>1, <1>2 DEF CmdMkdir, CmdRm, CmdCat
<1>3. ASSUME NEW path \in Paths, NEW text \in Texts, CmdWrite(path, text) PROVE FALSE
  BY <1>1, <1>3 DEF CmdWrite
<1>4. ASSUME NEW path \in Paths, NEW g \in Handles, NEW flags \in Flags, Open(g, path, flags) PROVE FALSE
  BY <1>4 DEF Open, With
<1>5. ASSUME NEW g \in Handles, Read(g) \/ Close(g) PROVE FALSE
  BY <1>1, <1>5 DEF Read, Close
<1>6. ASSUME NEW g \in Handles, NEW off \in 0 .. MaxSize, Seek(g, off) PROVE FALSE
  BY <1>1, <1>6 DEF Seek
<1>7. ASSUME NEW g \in Handles, NEW buf \in Texts, Write(g, buf) PROVE Written(h, buf)
  BY <1>1, <1>7, WriteCases DEF Written
<1> QED
  BY <1>1, <1>2, <1>3, <1>4, <1>5, <1>6, <1>7 DEF Call

(* A write through a handle opened with APPEND goes to the end of the file  *)
(* as it is then (File::write).                                             *)
THEOREM AppendKeeps == Spec => AppendNeverOverwrites
<1> DEFINE Kept(h) ==
      LET i == files[h].inode
      IN  "APPEND" \in files[h].flags /\ node' # node /\ files'[h].offset # files[h].offset
            => /\ Len(node'[i].data) >= Len(node[i].data)
               /\ SubSeq(node'[i].data, 1, Len(node[i].data)) = node[i].data
<1>1. IInv /\ [Next]_vars => [\A h \in DOMAIN files \cap DOMAIN files' : Kept(h)]_vars
  <2> SUFFICES ASSUME IInv, Next, NEW h \in DOMAIN files, h \in DOMAIN files', "APPEND" \in files[h].flags,
                      node' # node, files'[h].offset # files[h].offset
               PROVE  LET i == files[h].inode
                      IN  /\ Len(node'[i].data) >= Len(node[i].data)
                          /\ SubSeq(node'[i].data, 1, Len(node[i].data)) = node[i].data
    OBVIOUS
  <2>1. PICK buf \in Texts : Written(h, buf)
    BY OnlyWrites
  <2> DEFINE i == files[h].inode
             old == node[i].data
             off == WriteOffset(node, files[h])
             new == WriteAt(old, off, buf)
  <2>2. node[i].type = "Regular" /\ node' = [node EXCEPT ![i].data = new]
    BY <2>1 DEF Written
  <2>3. off = Len(old)
    BY DEF WriteOffset
  <2>4. i \in 1 .. Len(node) /\ off \in Nat /\ old \in Seq(Nat) /\ buf \in Seq(Nat) /\ Inodes(node)
    BY <2>2, OpenInodeOf, WriteOffsetNat, VfsAssumption, Depth
  <2> HIDE DEF i, old, off
  <2>5. new \in Seq(Nat)
    BY <2>4, WriteAtBytes
  <2>6. Len(new) >= Len(old) /\ SubSeq(new, 1, Len(old)) = old
    BY <2>3, <2>4, WriteAtEnd
  <2> HIDE DEF new
  <2>7. node'[i].data = new
    <3>1. Puts(node', node, i, File(new))
      BY <2>2, <2>4, <2>5, DataSame
    <3>2. File(new).data = new
      BY <2>5, MakeNodes
    <3> QED
      BY <3>1, <3>2 DEF Puts
  <2> QED
    BY <2>6, <2>7 DEF i, old
<1> QED
  BY InductiveInvariant, <1>1, PTL DEF Spec, AppendNeverOverwrites

-----------------------------------------------------------------------------
(* The inodes met along an entry path, and the inode it leads to. *)
Trail(t, p) ==
  /\ t \in [0 .. Len(p) -> 1 .. Len(node)] /\ t[0] = RootInode
  /\ \A k \in 1 .. Len(p) : Entry(node, t[k - 1], p[k]) /\ node[t[k - 1]].map[p[k]] = t[k]

Leads(p, i) == p \in Seq(Names) /\ \E t : Trail(t, p) /\ t[Len(p)] = i

(* InodeAt follows the trail. *)
LEMMA LeadsTo ==
  ASSUME NEW p, NEW i, Leads(p, i)
  PROVE  InodeAt(p) = i /\ i \in 1 .. Len(node)
<1> DEFINE n == Len(p)
           W == CHOOSE w : w = [k \in 0 .. n |-> IF k = 0 THEN RootInode ELSE node[w[k - 1]].map[p[k]]]
<1>1. PICK t : Trail(t, p) /\ t[n] = i
  BY DEF Leads
<1>2. n \in Nat
  BY LenProperties DEF Leads
<1>3. t = [k \in 0 .. n |-> IF k = 0 THEN RootInode ELSE node[t[k - 1]].map[p[k]]]
  BY <1>1, <1>2 DEF Trail
<1>4. W = [k \in 0 .. n |-> IF k = 0 THEN RootInode ELSE node[W[k - 1]].map[p[k]]]
  BY <1>3
<1>5. InodeAt(p) = W[n]
  BY DEF InodeAt
<1> HIDE DEF W
<1>6. 0 \in 0 .. n /\ n \in 0 .. n /\ \A k \in 1 .. n : k \in 0 .. n /\ k # 0
  BY <1>2
<1>7. t[0] = RootInode /\ \A k \in 1 .. n : t[k] = node[t[k - 1]].map[p[k]]
  BY <1>3, <1>6
<1>8. W[0] = RootInode /\ \A k \in 1 .. n : W[k] = node[W[k - 1]].map[p[k]]
  BY <1>4, <1>6
<1>9. t[n] \in 1 .. Len(node)
  BY <1>1, <1>6 DEF Trail
<1> HIDE DEF n
<1>10. SameSteps(W, t, n)
  BY <1>7, <1>8 DEF SameSteps
<1>11. Agree(W, t, n)
  BY <1>2, <1>10, IterationUnique
<1> QED
  BY <1>1, <1>5, <1>6, <1>9, <1>11 DEF Agree

(* The empty path leads to the root, and to nothing else. *)
LEMMA LeadsRoot ==
  ASSUME Inodes(node)
  PROVE  Leads(<<>>, 1) /\ \A i : Leads(<<>>, i) => i = 1
<1>1. Len(<<>>) = 0 /\ <<>> \in Seq(Names)
  OBVIOUS
<1>2. 1 \in 1 .. Len(node)
  BY InodeOf
<1> DEFINE t == [k \in 0 .. 0 |-> 1]
<1>3. t[0] = 1 /\ Trail(t, <<>>)
  BY <1>1, <1>2 DEF Trail, RootInode
<1>4. Leads(<<>>, 1)
  BY <1>1, <1>3 DEF Leads
<1>5. ASSUME NEW i, Leads(<<>>, i) PROVE i = 1
  BY <1>1, <1>5 DEF Leads, Trail, RootInode
<1> QED
  BY <1>4, <1>5

(* Every entry leads one step further, *)
LEMMA LeadsOn ==
  ASSUME Inodes(node), Forward(node), NEW p, NEW i, Leads(p, i), NEW n \in Names, Entry(node, i, n)
  PROVE  /\ Append(p, n) \in Seq(Names) /\ Len(Append(p, n)) = Len(p) + 1 /\ Len(p) \in Nat
         /\ Leads(Append(p, n), node[i].map[n])
<1> DEFINE q == Append(p, n)
           l == Len(p)
           j == node[i].map[n]
<1>1. p \in Seq(Names) /\ l \in Nat
  BY LenProperties DEF Leads
<1>2. q \in Seq(Names) /\ Len(q) = l + 1 /\ q[l + 1] = n /\ \A k \in 1 .. l : q[k] = p[k]
  BY <1>1, AppendProperties
<1>3. PICK t : Trail(t, p) /\ t[l] = i
  BY DEF Leads
<1>4. i \in 1 .. Len(node) /\ j \in i + 1 .. Len(node) /\ Len(node) \in Nat
  BY LeadsTo, InodeOf DEF Forward
<1> HIDE DEF q, j
<1> DEFINE u == [k \in 0 .. l + 1 |-> IF k = l + 1 THEN j ELSE t[k]]
<1>5. t \in [0 .. l -> 1 .. Len(node)] /\ t[0] = RootInode
  BY <1>3 DEF Trail
<1>6. \A k \in 1 .. l : Entry(node, t[k - 1], p[k]) /\ node[t[k - 1]].map[p[k]] = t[k]
  BY <1>3 DEF Trail
<1> HIDE DEF l
<1>7. /\ u \in [0 .. l + 1 -> 1 .. Len(node)] /\ u[0] = RootInode
      /\ u[l + 1] = j /\ u[l] = i /\ \A k \in 0 .. l : u[k] = t[k]
  BY <1>1, <1>3, <1>4, <1>5
<1> HIDE DEF u
<1>8. ASSUME NEW k \in 1 .. l + 1
      PROVE  Entry(node, u[k - 1], q[k]) /\ node[u[k - 1]].map[q[k]] = u[k]
  <2>1. CASE k = l + 1
    BY <1>1, <1>2, <1>7, <2>1 DEF j
  <2>2. CASE k # l + 1
    <3>1. k \in 1 .. l /\ k \in 0 .. l /\ k - 1 \in 0 .. l
      BY <1>1, <2>2
    <3>2. u[k - 1] = t[k - 1] /\ q[k] = p[k] /\ u[k] = t[k]
      BY <1>2, <1>7, <3>1
    <3> QED
      BY <1>6, <3>1, <3>2
  <2> QED
    BY <2>1, <2>2
<1>9. Trail(u, q)
  BY <1>2, <1>7, <1>8 DEF Trail
<1>10. Leads(q, j)
  BY <1>2, <1>7, <1>9 DEF Leads
<1> QED
  BY <1>1, <1>2, <1>10 DEF q, j, l

(* and a path that is not empty ends in one. *)
LEMMA LeadsBack ==
  ASSUME NEW q, NEW j, Leads(q, j), q # <<>>
  PROVE  \E p, i : \E n \in Names :
           /\ Leads(p, i) /\ q = Append(p, n) /\ Len(q) = Len(p) + 1 /\ Len(p) \in Nat
           /\ Entry(node, i, n) /\ node[i].map[n] = j
<1> DEFINE l == Len(q) - 1
           p == SubSeq(q, 1, l)
           n == q[Len(q)]
<1>1. q \in Seq(Names) /\ Len(q) \in Nat \ {0} /\ \A k \in 1 .. Len(q) : q[k] \in Names
  BY LenProperties, ElementOfSeq, EmptySeq DEF Leads
<1>2. l \in Nat /\ Len(q) = l + 1 /\ n \in Names
  BY <1>1
<1>3. p \in Seq(Names) /\ Len(p) = l /\ \A k \in 1 .. l : p[k] = q[k]
  BY <1>1, <1>2, SubSeqProperties
<1>4. PICK t : Trail(t, q) /\ t[Len(q)] = j
  BY DEF Leads
<1> HIDE DEF p, l
<1>5. q = Append(p, n)
  BY <1>1, <1>2, <1>3, AppendProperties, SeqEqual
<1> HIDE DEF n
<1> DEFINE u == [k \in 0 .. l |-> t[k]]
           i == t[l]
<1>6. t \in [0 .. l + 1 -> 1 .. Len(node)] /\ t[0] = RootInode
      /\ \A k \in 1 .. l + 1 : Entry(node, t[k - 1], q[k]) /\ node[t[k - 1]].map[q[k]] = t[k]
  BY <1>2, <1>4 DEF Trail
<1>7. Entry(node, i, n) /\ node[i].map[n] = j
  BY <1>2, <1>4, <1>6 DEF n
<1>8. u \in [0 .. l -> 1 .. Len(node)] /\ u[0] = RootInode /\ u[l] = i /\ \A k \in 0 .. l : u[k] = t[k]
  BY <1>2, <1>6
<1> HIDE DEF u, i
<1>9. ASSUME NEW k \in 1 .. l
      PROVE  Entry(node, u[k - 1], p[k]) /\ node[u[k - 1]].map[p[k]] = u[k]
  <2>1. k \in 1 .. l + 1 /\ k \in 0 .. l /\ k - 1 \in 0 .. l
    BY <1>2
  <2>2. u[k - 1] = t[k - 1] /\ p[k] = q[k] /\ u[k] = t[k]
    BY <1>3, <1>8, <2>1
  <2> QED
    BY <1>6, <2>1, <2>2
<1>10. Trail(u, p)
  BY <1>3, <1>8, <1>9 DEF Trail
<1>11. Leads(p, i)
  BY <1>3, <1>8, <1>10 DEF Leads
<1> QED
  BY <1>2, <1>3, <1>5, <1>7, <1>11

(* The entry paths of at most d names. *)
PathsUpTo(d) == {p \in Seq(Names) : Len(p) <= d /\ \E i : Leads(p, i)}

(* One more name. *)
Longer(S) == UNION {{p} \cup {Append(p, n) : n \in Entries(InodeAt(p))} : p \in S}

(* The paths of no names: the root's. *)
LEMMA NoNames ==
  ASSUME Inodes(node)
  PROVE  PathsUpTo(0) = {<<>>}
<1>1. Len(<<>>) = 0 /\ <<>> \in Seq(Names)
  OBVIOUS
<1>2. <<>> \in PathsUpTo(0)
  BY <1>1, LeadsRoot DEF PathsUpTo
<1>3. ASSUME NEW p \in PathsUpTo(0) PROVE p = <<>>
  BY LenProperties, EmptySeq DEF PathsUpTo
<1> QED
  BY <1>2, <1>3

(* Those of one name more than d. *)
LEMMA OneNameMore ==
  ASSUME Inodes(node), Forward(node), NEW d \in Nat
  PROVE  PathsUpTo(d + 1) = Longer(PathsUpTo(d))
<1>1. ASSUME NEW q \in PathsUpTo(d + 1) PROVE q \in Longer(PathsUpTo(d))
  <2>1. PICK j : Leads(q, j)
    BY DEF PathsUpTo
  <2>2. q \in Seq(Names) /\ Len(q) <= d + 1 /\ Len(q) \in Nat
    BY LenProperties DEF PathsUpTo
  <2>3. CASE q = <<>>
    <3>1. Len(q) <= d
      BY <2>3
    <3>2. q \in PathsUpTo(d)
      BY <2>1, <2>2, <3>1 DEF PathsUpTo
    <3> QED
      BY <3>2 DEF Longer
  <2>4. CASE q # <<>>
    <3>1. PICK p, i, n :
            /\ n \in Names
            /\ Leads(p, i) /\ q = Append(p, n) /\ Len(q) = Len(p) + 1 /\ Len(p) \in Nat
            /\ Entry(node, i, n) /\ node[i].map[n] = j
      BY <2>1, <2>4, LeadsBack
    <3>2. Len(p) <= d
      BY <2>2, <3>1
    <3>3. p \in PathsUpTo(d)
      BY <3>1, <3>2 DEF PathsUpTo, Leads
    <3>4. n \in Entries(InodeAt(p))
      BY <3>1, LeadsTo DEF Entries, Entry
    <3> QED
      BY <3>1, <3>3, <3>4 DEF Longer
  <2> QED
    BY <2>3, <2>4
<1>2. ASSUME NEW q \in Longer(PathsUpTo(d)) PROVE q \in PathsUpTo(d + 1)
  <2>1. PICK p \in PathsUpTo(d) : q = p \/ \E n \in Entries(InodeAt(p)) : q = Append(p, n)
    BY DEF Longer
  <2>2. PICK i : Leads(p, i)
    BY DEF PathsUpTo
  <2>3. p \in Seq(Names) /\ Len(p) <= d /\ Len(p) \in Nat
    BY LenProperties DEF PathsUpTo
  <2>4. InodeAt(p) = i /\ i \in 1 .. Len(node)
    BY <2>2, LeadsTo
  <2>5. CASE q = p
    BY <2>2, <2>3, <2>5 DEF PathsUpTo
  <2>6. ASSUME NEW n \in Entries(InodeAt(p)), q = Append(p, n) PROVE q \in PathsUpTo(d + 1)
    <3>1. Entry(node, i, n)
      BY <2>4, <2>6 DEF Entry, Entries
    <3>2. n \in Names
      BY <2>4, <3>1, InodeOf, NodeKinds, MapFields DEF Entry
    <3>3. q \in Seq(Names) /\ Len(q) = Len(p) + 1 /\ Leads(q, node[i].map[n])
      BY <2>2, <2>6, <3>1, <3>2, LeadsOn
    <3>4. Len(q) <= d + 1
      BY <2>3, <3>3
    <3> QED
      BY <3>3, <3>4 DEF PathsUpTo
  <2> QED
    BY <2>1, <2>5, <2>6
<1> QED
  BY <1>1, <1>2

(* EntryPaths has the paths as deep as the filesystem can be. *)
LEMMA AllPaths ==
  ASSUME Inodes(node), Forward(node)
  PROVE  EntryPaths = PathsUpTo(MaxMade + 2)
<1> DEFINE m == MaxMade + 2
           g == [d \in 0 .. m |-> PathsUpTo(d)]
           E == CHOOSE e : e = [d \in 0 .. m |-> IF d = 0 THEN {<<>>}
                  ELSE UNION {{p} \cup {Append(p, n) : n \in Entries(InodeAt(p))} : p \in e[d - 1]}]
<1>1. m \in Nat
  BY VfsAssumption
<1>2. EntryPaths = E[m]
  BY DEF EntryPaths
<1>3. ASSUME NEW d \in 0 .. m, d # 0 PROVE PathsUpTo(d) = Longer(g[d - 1])
  <2>1. d - 1 \in Nat /\ (d - 1) + 1 = d /\ d - 1 \in 0 .. m
    BY <1>1, <1>3
  <2>2. g[d - 1] = PathsUpTo(d - 1)
    BY <2>1
  <2>3. PathsUpTo((d - 1) + 1) = Longer(PathsUpTo(d - 1))
    BY <2>1, OneNameMore
  <2> QED
    BY <2>1, <2>2, <2>3
<1>4. g = [d \in 0 .. m |-> IF d = 0 THEN {<<>>} ELSE Longer(g[d - 1])]
  BY <1>3, NoNames
<1>5. E = [d \in 0 .. m |-> IF d = 0 THEN {<<>>} ELSE Longer(E[d - 1])]
  BY <1>4 DEF Longer
<1> HIDE DEF E, g
<1>6. 0 \in 0 .. m /\ m \in 0 .. m /\ \A d \in 1 .. m : d \in 0 .. m /\ d # 0
  BY <1>1
<1>7. g[0] = {<<>>} /\ \A d \in 1 .. m : g[d] = Longer(g[d - 1])
  BY <1>4, <1>6
<1>8. E[0] = {<<>>} /\ \A d \in 1 .. m : E[d] = Longer(E[d - 1])
  BY <1>5, <1>6
<1> HIDE DEF m
<1>9. SameSteps(E, g, m)
  BY <1>7, <1>8 DEF SameSteps
<1>10. Agree(E, g, m)
  BY <1>1, <1>9, IterationUnique
<1>11. g[m] = PathsUpTo(m)
  BY <1>6 DEF g
<1> QED
  BY <1>2, <1>6, <1>10, <1>11 DEF Agree, m

-----------------------------------------------------------------------------
(* No inode has two names: two paths to it end in the same entry, and so on *)
(* down to the root, which nothing leads back to.                           *)
LEMMA OnePath ==
  ASSUME Tree(node), NEW p, NEW q, NEW i, Leads(p, i), Leads(q, i)
  PROVE  p = q
<1> DEFINE Two(a, b) == a # b /\ \E k : Leads(a, k) /\ Leads(b, k)
           T == {n \in Nat : \E a, b : Two(a, b) /\ Len(a) = n}
<1>1. Inodes(node) /\ Forward(node) /\ OneName(node) /\ Len(node) \in Nat
  BY InodeOf DEF Tree
<1>2. ASSUME NEW a, NEW k, Leads(a, k), a # <<>> PROVE k # 1
  BY <1>1, <1>2, LeadsBack DEF Forward, Entry
<1>3. T = {}
  <2> SUFFICES ASSUME T # {} PROVE FALSE
    OBVIOUS
  <2>1. T \subseteq Nat
    OBVIOUS
  <2>2. PICK n \in T : \A m \in T : n <= m
    BY <2>1, LeastNatural
  <2>3. PICK a, b : Two(a, b) /\ Len(a) = n
    OBVIOUS
  <2>4. PICK k : Leads(a, k) /\ Leads(b, k)
    BY <2>3
  <2>5. a # b /\ a # <<>> /\ b # <<>>
    BY <1>1, <1>2, <2>3, <2>4, LeadsRoot
  <2>6. PICK c, j, x : /\ x \in Names /\ Leads(c, j) /\ a = Append(c, x) /\ Len(a) = Len(c) + 1
                       /\ Len(c) \in Nat /\ Entry(node, j, x) /\ node[j].map[x] = k
    BY <2>4, <2>5, LeadsBack
  <2>7. PICK d, l, y : /\ y \in Names /\ Leads(d, l) /\ b = Append(d, y)
                       /\ Entry(node, l, y) /\ node[l].map[y] = k
    BY <2>4, <2>5, LeadsBack
  <2>8. j = l /\ x = y
    BY <1>1, <2>6, <2>7 DEF OneName, Entry
  <2>9. Two(c, d)
    BY <2>5, <2>6, <2>7, <2>8
  <2> HIDE DEF Two
  <2>10. Len(c) \in T
    BY <2>6, <2>9
  <2> QED
    BY <2>2, <2>3, <2>6, <2>10
<1>4. p \in Seq(Names) /\ Len(p) \in Nat
  BY LenProperties DEF Leads
<1> QED
  BY <1>3, <1>4

(* Everything linked is found, no deeper than its rank. *)
LEMMA Found ==
  ASSUME Tree(node), NEW N \in Nat, NEW rank, Ranks(node, rank, N), NEW i \in Reached(node)
  PROVE  \E p : Leads(p, i) /\ Len(p) \in Nat /\ Len(p) <= rank[i]
<1> DEFINE Has(k) == \E p : Leads(p, k) /\ Len(p) \in Nat /\ Len(p) <= rank[k]
           T == {k \in Reached(node) : ~ Has(k)}
<1>1. Inodes(node) /\ Forward(node) /\ NoneLost(node) /\ Len(node) \in Nat
  BY InodeOf DEF Tree
<1>2. rank \in [1 .. Len(node) -> 0 .. N]
  BY DEF Ranks
<1>3. T = {}
  <2> SUFFICES ASSUME T # {} PROVE FALSE
    OBVIOUS
  <2>1. T \subseteq Nat
    BY <1>1 DEF Reached
  <2>2. PICK k \in T : \A m \in T : k <= m
    BY <2>1, LeastNatural
  <2>3. k \in 1 .. Len(node) /\ (k = 1 \/ Linked(node, k)) /\ ~ Has(k)
    BY DEF Reached
  <2>4. k # 1
    BY <1>1, <1>2, <2>3, LeadsRoot
  <2>5. PICK j, n : j \in 1 .. Len(node) /\ n \in Names /\ Entry(node, j, n) /\ node[j].map[n] = k
    BY <2>3, <2>4 DEF Linked
  <2>6. k \in j + 1 .. Len(node)
    BY <1>1, <2>5 DEF Forward
  <2>7. j \in Reached(node)
    BY <1>1, <2>5 DEF Reached, NoneLost
  <2>8. j < k /\ j \in Nat /\ k \in Nat
    BY <1>1, <2>5, <2>6
  <2> HIDE DEF Has
  <2>9. Has(j)
    BY <2>2, <2>7, <2>8
  <2>10. PICK p : Leads(p, j) /\ Len(p) \in Nat /\ Len(p) <= rank[j]
    BY <2>9 DEF Has
  <2> DEFINE q == Append(p, n)
  <2>11. Leads(q, k) /\ Len(q) = Len(p) + 1
    BY <1>1, <2>5, <2>10, LeadsOn
  <2> HIDE DEF q
  <2>12. rank[k] > rank[j] /\ rank[j] \in Nat /\ rank[k] \in Nat
    BY <1>2, <2>3, <2>5 DEF Ranks
  <2>13. Len(q) \in Nat /\ Len(q) <= rank[k]
    BY <2>10, <2>11, <2>12
  <2> QED
    BY <2>3, <2>11, <2>13 DEF Has
<1> QED
  BY <1>3

(* The inodes form one tree: every inode has at most one path, and          *)
(* everything that has entries is found under "/" (Inode::create, remove).  *)
THEOREM OneTree == Spec => []NamespaceIsTree
<1>1. IInv => NamespaceIsTree
  <2> SUFFICES ASSUME IInv PROVE NamespaceIsTree
    OBVIOUS
  <2> DEFINE N == 2 + Len(node) - seeded
  <2>1. N \in Nat /\ Tree(node) /\ Ranked(node, N) /\ Inodes(node) /\ Forward(node) /\ Len(node) \in Nat
    BY Depth
  <2>2. N <= MaxMade + 2
    BY <2>1, VfsAssumption DEF IInv
  <2> HIDE DEF N
  <2>3. EntryPaths = PathsUpTo(MaxMade + 2)
    BY <2>1, AllPaths
  <2>4. ASSUME NEW p \in EntryPaths, NEW q \in EntryPaths, InodeAt(p) = InodeAt(q) PROVE p = q
    BY <2>1, <2>3, <2>4, LeadsTo, OnePath DEF PathsUpTo
  <2>5. ASSUME NEW i \in DOMAIN node, Entries(i) # {} PROVE \E p \in EntryPaths : InodeAt(p) = i
    <3>1. i \in 1 .. Len(node)
      BY <2>1, InodeOf
    <3>2. PICK n : Entry(node, i, n)
      BY <2>5, <3>1 DEF Entries, Entry
    <3>3. i \in Reached(node)
      BY <2>1, <3>1, <3>2, InodeOf, NodeKinds, MapFields DEF Entry, Reached, Tree, NoneLost
    <3>4. PICK rank : Ranks(node, rank, N)
      BY <2>1 DEF Ranked
    <3>5. PICK p : Leads(p, i) /\ Len(p) \in Nat /\ Len(p) <= rank[i]
      BY <2>1, <3>3, <3>4, Found
    <3>6. rank[i] \in 0 .. N
      BY <3>1, <3>4 DEF Ranks
    <3>7. Len(p) <= MaxMade + 2
      BY <2>1, <2>2, <3>5, <3>6, VfsAssumption
    <3>8. p \in EntryPaths
      BY <2>3, <3>5, <3>7 DEF PathsUpTo, Leads
    <3> QED
      BY <3>5, <3>8, LeadsTo
  <2> QED
    BY <2>4, <2>5 DEF NamespaceIsTree
<1> QED
  BY InductiveInvariant, <1>1, PTL

=============================================================================
