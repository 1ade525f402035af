------------------------------ MODULE Namespace ------------------------------
(***************************************************************************)
(* What fs/vfs.rs and the shell's file commands promise: one flat map from  *)
(* canonical paths (sequences of names from the root) to directories and    *)
(* file contents, changed by whole calls. Inodes, the walk from the root    *)
(* and the handles are the business of module Vfs, which implements this    *)
(* one. A path string is the non-empty sequence of what lies between its    *)
(* slashes: "/a" is <<"", "a">>, "a/" is <<"a", "">>, "" is <<"">>.         *)
(***************************************************************************)
EXTENDS Integers, Sequences, SequencesExt, TLC

CONSTANTS Paths,     \* the path strings callers pass
          Texts,     \* the byte strings they write
          Offsets    \* the offsets their handles can have

VARIABLES ns,        \* canonical path -> Directory or RegularFile(bytes)
          last       \* the last call, its path, and "Ok" or its FsError

nsvars == <<ns, last>>

Answer(call, path, res) == [call |-> call, path |-> path, res |-> res]

(* The step is this call, and it is answered so. *)
Answered(call, path, res) == last'.call = call /\ last'.path = path /\ last'.res = res

Directory         == [type |-> "Directory"]
RegularFile(data) == [type |-> "Regular", data |-> data]

Canon(path) == SelectSeq(path, LAMBDA comp : comp # "")

(* mkdir and rm speak of the entry after the last slash, "" included. *)
ParentOf(path) == Canon(Front(path))
EntryOf(path)  == Append(ParentOf(path), Last(path))

IsDirectory(p) == ns[p].type = "Directory"

(* What looking for a canonical path answers: a regular file on the way is  *)
(* NotADirectory, anything else that is missing NotFound.                   *)
Find(p) ==
  IF p \in DOMAIN ns THEN "Ok"
  ELSE IF \E q \in Prefixes(p) \cap DOMAIN ns : ~IsDirectory(q) THEN "NotADirectory"
  ELSE "NotFound"

Resolve(path) == IF path = <<"">> THEN "InvalidPath" ELSE Find(Canon(path))

(* What the parent of path's entry answers before the entry is looked at. *)
InParent(path, answer) ==
  IF Find(ParentOf(path)) # "Ok" THEN Find(ParentOf(path))
  ELSE IF ~IsDirectory(ParentOf(path)) THEN "NotADirectory"
  ELSE answer

CreateReply(path) == InParent(path, IF EntryOf(path) \in DOMAIN ns THEN "AlreadyExists" ELSE "Ok")

HasChildren(p) == \E q \in DOMAIN ns : q # <<>> /\ Front(q) = p

RemoveReply(path) ==
  InParent(path, IF EntryOf(path) \notin DOMAIN ns THEN "NotFound"
                 ELSE IF HasChildren(EntryOf(path)) THEN "NotEmpty"
                 ELSE "Ok")

(* text written at off: bytes nobody wrote are zero. *)
Written(data, off, text) ==
  LET end == off + Len(text)
  IN  [i \in 1 .. IF end > Len(data) THEN end ELSE Len(data) |->
         IF off < i /\ i <= end THEN text[i - off]
         ELSE IF i <= Len(data) THEN data[i] ELSE 0]

(* Every entry lies in a directory. *)
WellFormed ==
  /\ <<>> \in DOMAIN ns /\ IsDirectory(<<>>)
  /\ \A p \in DOMAIN ns \ {<<>>} : Front(p) \in DOMAIN ns /\ IsDirectory(Front(p))

Init == WellFormed /\ last = Answer("boot", <<>>, "Ok")

Mkdir(path) ==
  /\ Answered("mkdir", path, CreateReply(path))
  /\ ns' = IF last'.res = "Ok" THEN (EntryOf(path) :> Directory) @@ ns ELSE ns

Rm(path) ==
  /\ Answered("rm", path, RemoveReply(path))
  /\ ns' = IF last'.res = "Ok" THEN [p \in DOMAIN ns \ {EntryOf(path)} |-> ns[p]] ELSE ns

(* Opening with CREATE makes an empty file where there was nothing. *)
Creates(path) == Resolve(path) = "NotFound" /\ CreateReply(path) = "Ok"

Open(path) ==
  /\ Answered("open", path, Resolve(path))
  /\ UNCHANGED ns

OpenCreate(path) ==
  /\ Answered("create", path, IF Creates(path) THEN "Ok" ELSE Resolve(path))
  /\ ns' = IF Creates(path) THEN (EntryOf(path) :> RegularFile(<<>>)) @@ ns ELSE ns

(* The shell's write: opens with CREATE and overwrites from the start. *)
Write(path, text) ==
  /\ Answered("write", path,
               IF Creates(path) THEN "Ok"
               ELSE IF Resolve(path) = "Ok" /\ IsDirectory(Canon(path)) THEN "Io"
               ELSE Resolve(path))
  /\ ns' = IF Creates(path) THEN (EntryOf(path) :> RegularFile(text)) @@ ns
           ELSE IF last'.res = "Ok" THEN [ns EXCEPT ![Canon(path)].data = Written(@, 0, text)]
           ELSE ns

Cat(path) ==
  /\ Answered("cat", path, IF Resolve(path) = "Ok" /\ IsDirectory(Canon(path)) THEN "Io"
                                 ELSE Resolve(path))
  /\ UNCHANGED ns

(* A write through a handle reaches the namespace while its file is there. *)
HandleWrite(p, off, text) ==
  /\ Answered("File::write", <<>>, "Ok")
  /\ ns' = [ns EXCEPT ![p].data = Written(@, off, text)]

HandleCall ==
  /\ last' \in {Answer(call, <<>>, res) : call \in {"File::read", "File::write"}, res \in {"Ok", "Io"}}
  /\ UNCHANGED ns

Next ==
  \/ \E path \in Paths :
       \/ Mkdir(path) \/ Rm(path) \/ Open(path) \/ OpenCreate(path) \/ Cat(path)
       \/ \E text \in Texts : Write(path, text)
  \/ \E p \in DOMAIN ns, off \in Offsets, text \in Texts :
       ~IsDirectory(p) /\ HandleWrite(p, off, text)
  \/ HandleCall

Spec == Init /\ [][Next]_nsvars
=============================================================================
