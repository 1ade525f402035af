--------------------------------- MODULE Vfs ---------------------------------
(***************************************************************************)
(* The filesystem: ramfs inodes (fs/ramfs.rs), path resolution and open     *)
(* files (fs/vfs.rs), the boot-time seeds (fs/mod.rs, drivers/block) and    *)
(* the shell commands that use them. Inodes are numbered in the order they  *)
(* are made; an Arc that nobody holds any more is simply not referred to.   *)
(* Nothing in these calls yields, so each of them is one step.              *)
(***************************************************************************)
EXTENDS Integers, Sequences, FiniteSets

CONSTANTS Paths,      \* path strings, split at their slashes (see Namespace)
          Texts,      \* byte strings written to files
          Flags,      \* the sets of OpenFlags that handles are opened with
          Handles,    \* open files a client may hold at once
          Chunk,      \* buffer size of read_to_string and of readers
          MaxSize,    \* bound on file sizes and offsets
          MaxMade     \* bound on inodes made after boot

ASSUME VfsAssumption ==
  /\ \A path \in Paths : path \in Seq(STRING) /\ path # <<>>
  /\ \A text \in Texts : text \in Seq(Nat)
  /\ Chunk \in Nat \ {0} /\ MaxSize \in Nat /\ MaxMade \in Nat

VARIABLES node,       \* inode number -> RamNode
          files,      \* handle -> File, for the handles that are open
          last,       \* the last call, its path and its result
          seeded      \* how many inodes boot made: what MaxMade counts from

vars == <<node, files, last, seeded>>

-----------------------------------------------------------------------------
(* RamNode.                                                                 *)

File(data) == [type |-> "Regular", data |-> data]
Dir(map)   == [type |-> "Directory", map |-> map]
NewDir     == Dir(<<>>)

RootInode == 1

Answer(call, path, res) == [call |-> call, path |-> path, res |-> res]

ftype(fs, i) == fs[i].type

Ok(i)  == [res |-> "Ok", inode |-> i]
Err(e) == [res |-> e]

\* Mutant: the type of the inode walked through is not looked at.
LookupThroughFile(fs, i, name) ==
  IF ftype(fs, i) = "Directory" /\ name \in DOMAIN fs[i].map THEN Ok(fs[i].map[name])
  ELSE Err("NotFound")

(* One component of the walk in resolve: ftype, then lookup. *)
Lookup(fs, i, name) ==
  IF ftype(fs, i) # "Directory" THEN Err("NotADirectory")
  ELSE IF name \notin DOMAIN fs[i].map THEN Err("NotFound")
  ELSE Ok(fs[i].map[name])

With(f, key, value) == [k \in DOMAIN f \cup {key} |-> IF k = key THEN value ELSE f[k]]

Insert(fs, i, name, new) ==
  Append([fs EXCEPT ![i].map = With(@, name, Len(fs) + 1)], new)

(* create_file and create_dir on inode i. *)
Create(fs, i, name, new) ==
  IF ftype(fs, i) # "Directory" THEN [res |-> Err("NotADirectory"), fs |-> fs]
  ELSE IF name \in DOMAIN fs[i].map THEN [res |-> Err("AlreadyExists"), fs |-> fs]
  ELSE [res |-> Ok(Len(fs) + 1), fs |-> Insert(fs, i, name, new)]

Unlink(fs, i, name) ==
  [fs EXCEPT ![i].map = [n \in DOMAIN @ \ {name} |-> @[n]]]

\* Mutant: a directory is removed with what it holds.
RemoveRecursive(fs, i, name) ==
  IF ftype(fs, i) # "Directory" THEN [res |-> "NotADirectory", fs |-> fs]
  ELSE IF name \notin DOMAIN fs[i].map THEN [res |-> "NotFound", fs |-> fs]
  ELSE [res |-> "Ok", fs |-> Unlink(fs, i, name)]

RemoveFrom(fs, i, name) ==
  IF ftype(fs, i) # "Directory" THEN [res |-> "NotADirectory", fs |-> fs]
  ELSE IF name \notin DOMAIN fs[i].map THEN [res |-> "NotFound", fs |-> fs]
  ELSE LET entry == fs[fs[i].map[name]]
       IN  IF entry.type = "Directory" /\ DOMAIN entry.map # {}
             THEN [res |-> "NotEmpty", fs |-> fs]
             ELSE [res |-> "Ok", fs |-> Unlink(fs, i, name)]

LeastOf(a, b) == IF a < b THEN a ELSE b

\* Mutant: the last byte of the file is left out.
ReadAtShort(data, offset, len) ==
  IF offset >= Len(data) THEN <<>>
  ELSE SubSeq(data, offset + 1, offset + LeastOf(Len(data) - offset - 1, len))

(* read_at on a file: the bytes copied into a buffer of length len. *)
ReadAt(data, offset, len) ==
  IF offset >= Len(data) THEN <<>>
  ELSE SubSeq(data, offset + 1, offset + LeastOf(Len(data) - offset, len))

(* write_at on a file: resize with zeros, then copy. *)
WriteAt(data, offset, buf) ==
  LET end == offset + Len(buf)
      v   == data \o [i \in 1 .. IF end > Len(data) THEN end - Len(data) ELSE 0 |-> 0]
  IN  SubSeq(v, 1, offset) \o buf \o SubSeq(v, end + 1, Len(v))

-----------------------------------------------------------------------------
(* Root.                                                                    *)

(* What lies between two slashes, and the paths "" and "/". *)
EmptyName == ""
EmptyPath == <<EmptyName>>
Slash     == <<EmptyName, EmptyName>>

Resolve(fs, path) ==
  LET Step(at, comp) ==
        IF comp = EmptyName \/ at.res # "Ok" THEN at ELSE Lookup(fs, at.inode, comp)
      walk[n \in 0 .. Len(path)] == IF n = 0 THEN Ok(RootInode) ELSE Step(walk[n - 1], path[n])
  IN  IF path = EmptyPath THEN Err("InvalidPath") ELSE walk[Len(path)]


(* rsplit_once('/'), as in split_parent and in cmd_mkdir. *)
ParentPath(path) ==
  LET before == SubSeq(path, 1, Len(path) - 1)
  IN  IF Len(path) = 1 \/ before = EmptyPath THEN Slash ELSE before
LastName(path) == path[Len(path)]

(* open: the inode, made in the parent when CREATE asks for it. *)
OpenInode(fs, path, flags) ==
  LET found  == Resolve(fs, path)
      parent == Resolve(fs, ParentPath(path))
  IN  IF found.res # "NotFound" \/ "CREATE" \notin flags THEN [res |-> found, fs |-> fs]
      ELSE IF parent.res # "Ok" THEN [res |-> parent, fs |-> fs]
      ELSE Create(fs, parent.inode, LastName(path), File(<<>>))

NewFile(inode, flags) == [inode |-> inode, offset |-> 0, flags |-> flags]

\* Mutant: APPEND is honoured when the file is opened only.
WriteOffsetStale(fs, f) == f.offset

(* Where a write through f goes. *)
WriteOffset(fs, f) ==
  IF "APPEND" \in f.flags THEN Len(fs[f.inode].data) ELSE f.offset

(* read_to_string's loop over read, from offset on. *)
ReadToEnd(data) ==
  LET from[offset \in 0 .. Len(data)] ==
        LET got == ReadAt(data, offset, Chunk)
        IN  IF got = <<>> THEN <<>> ELSE got \o from[offset + Len(got)]
  IN  from[0]

-----------------------------------------------------------------------------
(* Boot: fs::init, then seed_blkfs when the first block device registers.   *)

Seed(fs, i, name, new) == Create(fs, i, name, new).fs

SeedRoot ==
  LET welcome == Seed(<<NewDir>>, RootInode, "welcome", File(<<1>>))
      version == Seed(welcome, RootInode, "version", File(<<2>>))
      dev     == Seed(version, RootInode, "dev", NewDir)
  IN  Seed(dev, RootInode, "tmp", NewDir)

(* sector0 is empty when the device cannot be read. *)
SeedBlkfs(fs, sector0) ==
  LET blk  == Create(fs, RootInode, "blk", NewDir)
      info == Seed(blk.fs, blk.res.inode, "info", File(<<1>>))
  IN  Seed(info, blk.res.inode, "sector0", File(sector0))

Init ==
  /\ node \in {SeedRoot, SeedBlkfs(SeedRoot, <<1, 2, 1>>), SeedBlkfs(SeedRoot, <<>>)}
  /\ files = <<>>
  /\ last = Answer("boot", <<>>, "Ok")
  /\ seeded = Len(node)

-----------------------------------------------------------------------------
(* Shell commands. Their arguments come from split_whitespace: never empty. *)

CanCreate == Len(node) < seeded + MaxMade

CmdMkdir(path) ==
  LET parent == Resolve(node, ParentPath(path))
      made   == Create(node, parent.inode, LastName(path), NewDir)
  IN  /\ CanCreate
      /\ path # EmptyPath
      /\ IF parent.res # "Ok"
           THEN last' = Answer("mkdir", path, parent.res) /\ UNCHANGED node
           ELSE last' = Answer("mkdir", path, made.res.res) /\ node' = made.fs
      /\ UNCHANGED files

CmdRm(path) ==
  LET parent  == Resolve(node, ParentPath(path))
      removed == RemoveFrom(node, parent.inode, LastName(path))
  IN  /\ path # EmptyPath
      /\ IF parent.res # "Ok"
           THEN last' = Answer("rm", path, parent.res) /\ UNCHANGED node
           ELSE last' = Answer("rm", path, removed.res) /\ node' = removed.fs
      /\ UNCHANGED files

(* open(WRITE | CREATE) and one write at offset 0; the handle is dropped. *)
CmdWrite(path, text) ==
  LET opened == OpenInode(node, path, {"WRITE", "CREATE"})
      i      == opened.res.inode
  IN  /\ CanCreate
      /\ path # EmptyPath
      /\ IF opened.res.res # "Ok"
           THEN last' = Answer("write", path, opened.res.res) /\ node' = opened.fs
           ELSE IF ftype(opened.fs, i) = "Directory"
                  THEN last' = Answer("write", path, "Io") /\ node' = opened.fs
                  ELSE /\ last' = Answer("write", path, "Ok")
                       /\ node' = [opened.fs EXCEPT ![i].data = WriteAt(@, 0, text)]
      /\ UNCHANGED files

(* read_to_string: open(READ), then reads until one returns nothing. *)
CmdCat(path) ==
  LET opened == Resolve(node, path)
  IN  /\ path # EmptyPath
      /\ last' = Answer("cat", path,
                        IF opened.res = "Ok" /\ ftype(node, opened.inode) = "Directory"
                          THEN "Io" ELSE opened.res)
      /\ UNCHANGED <<node, files>>

-----------------------------------------------------------------------------
(* Open files: the kernel API behind the commands.                          *)

Open(h, path, flags) ==
  LET opened == OpenInode(node, path, flags)
  IN  /\ h \notin DOMAIN files
      /\ CanCreate
      /\ node' = opened.fs
      /\ last' = Answer(IF "CREATE" \in flags THEN "create" ELSE "open", path, opened.res.res)
      /\ files' = IF opened.res.res = "Ok" THEN With(files, h, NewFile(opened.res.inode, flags))
                  ELSE files

Read(h) ==
  LET f == files[h]
  IN  /\ h \in DOMAIN files
      /\ IF "READ" \in f.flags /\ ftype(node, f.inode) = "Regular"
           THEN /\ last' = Answer("File::read", <<>>, "Ok")
                /\ files' = [files EXCEPT ![h].offset =
                               @ + Len(ReadAt(node[f.inode].data, @, Chunk))]
           ELSE last' = Answer("File::read", <<>>, "Io") /\ UNCHANGED files
      /\ UNCHANGED node

(* On a directory with APPEND the offset is set before write_at refuses. *)
Write(h, buf) ==
  LET f   == files[h]
      off == WriteOffset(node, f)
  IN  /\ h \in DOMAIN files
      /\ IF "WRITE" \notin f.flags
           THEN last' = Answer("File::write", <<>>, "Io") /\ UNCHANGED <<node, files>>
         ELSE IF ftype(node, f.inode) = "Directory"
           THEN /\ last' = Answer("File::write", <<>>, "Io")
                /\ files' = IF "APPEND" \in f.flags
                              THEN [files EXCEPT ![h].offset = Cardinality(DOMAIN node[f.inode].map)]
                              ELSE files
                /\ UNCHANGED node
           ELSE /\ off + Len(buf) <= MaxSize
                /\ last' = Answer("File::write", <<>>, "Ok")
                /\ node' = [node EXCEPT ![f.inode].data = WriteAt(@, off, buf)]
                /\ files' = [files EXCEPT ![h].offset = off + Len(buf)]

Seek(h, off) ==
  /\ h \in DOMAIN files
  /\ files' = [files EXCEPT ![h].offset = off]
  /\ UNCHANGED <<node, last>>

(* The handle is dropped. *)
Close(h) ==
  /\ h \in DOMAIN files
  /\ files' = [g \in DOMAIN files \ {h} |-> files[g]]
  /\ UNCHANGED <<node, last>>

Call ==
  \/ \E path \in Paths :
       \/ CmdMkdir(path) \/ CmdRm(path) \/ CmdCat(path)
       \/ \E text \in Texts : CmdWrite(path, text)
       \/ \E h \in Handles, flags \in Flags : Open(h, path, flags)
  \/ \E h \in Handles :
       \/ Read(h) \/ Close(h)
       \/ \E buf \in Texts : Write(h, buf)
       \/ \E off \in 0 .. MaxSize : Seek(h, off)

Next == Call /\ UNCHANGED seeded

Spec == Init /\ [][Next]_vars

-----------------------------------------------------------------------------
Entries(i) == IF node[i].type = "Directory" THEN DOMAIN node[i].map ELSE {}

(* The inode an entry path leads to, and the entry paths there are,         *)
(* gathered level by level from the root.                                   *)
InodeAt(p) ==
  LET walk[n \in 0 .. Len(p)] == IF n = 0 THEN RootInode ELSE node[walk[n - 1]].map[p[n]]
  IN  walk[Len(p)]

EntryPaths ==
  LET upto[d \in 0 .. MaxMade + 2] ==
        IF d = 0 THEN {<<>>}
        ELSE UNION {{p} \cup {Append(p, n) : n \in Entries(InodeAt(p))} : p \in upto[d - 1]}
  IN  upto[MaxMade + 2]

(* The inodes form one tree under "/": no inode has two names, and removed  *)
(* directories are empty, so that no file is lost by removing a directory   *)
(* above it (Inode::remove refuses with NotEmpty).                          *)
NamespaceIsTree ==
  /\ \A p, q \in EntryPaths : InodeAt(p) = InodeAt(q) => p = q
  /\ \A i \in DOMAIN node : Entries(i) # {} => \E p \in EntryPaths : InodeAt(p) = i

(* read_to_string, which reads in chunks, returns every file whole. *)
CatShowsWholeFile ==
  \A i \in DOMAIN node : node[i].type = "Regular" => ReadToEnd(node[i].data) = node[i].data

(* A write through an APPEND handle never overwrites, whatever other        *)
(* handles and the shell have written to the file since.                    *)
AppendNeverOverwrites ==
  [][\A h \in DOMAIN files \cap DOMAIN files' :
       LET i == files[h].inode
       IN  "APPEND" \in files[h].flags /\ node' # node /\ files'[h].offset # files[h].offset
             => /\ Len(node'[i].data) >= Len(node[i].data)
                /\ SubSeq(node'[i].data, 1, Len(node[i].data)) = node[i].data]_vars

(* What the inodes look like through paths. *)
NamespaceMap ==
  LET Seen(n) == IF n.type = "Directory" THEN [type |-> "Directory"] ELSE n
  IN  [p \in EntryPaths |-> Seen(node[InodeAt(p)])]
=============================================================================
