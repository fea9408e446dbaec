----------------------------- MODULE StateFile -----------------------------
(***************************************************************************)
(* broker.go's saveState and loadState, one system call a step.  A save    *)
(* marshals the map under the read lock and, after releasing it, truncates *)
(* instances.json.tmp, writes it block by block and renames it over        *)
(* instances.json.  The temporary name is one for all callers.  Names      *)
(* refer to inodes: a descriptor keeps its inode when the name moves on.   *)
(***************************************************************************)
EXTENDS Integers, Sequences, FiniteSets

CONSTANTS
  Writers,   \* handlers that may be inside saveState at once
  Maps,      \* values of the instance map
  EmptyMap,
  Length,    \* the number of blocks a map's JSON takes
  Inodes,    \* bound: files the directory ever holds at once
  DiskFails  \* whether a full disk may fail a call

Hole == "hole"
NoInode == "no-inode"

ASSUME FileAssumption ==
  /\ EmptyMap \in Maps /\ Hole \notin Maps
  /\ Length \in [Maps -> Nat \ {0}]
  /\ NoInode \notin Inodes
  /\ DiskFails \in BOOLEAN

VARIABLES
  mem,  \* b.instances
  path, \* the inode instances.json names
  tmp,  \* the inode instances.json.tmp names
  data, \* the blocks of each inode
  w     \* the saveState calls: snap is the marshalled map, fd the open file,
        \* off how many blocks of it are written

fvars == <<mem, path, tmp, data, w>>

Blocks == Maps \cup {Hole}
Save == [pc: {"idle", "marshal", "open", "write", "rename"}, snap: Maps,
         fd: Inodes \cup {NoInode}, off: Nat]
NoSave == [pc |-> "idle", snap |-> EmptyMap, fd |-> NoInode, off |-> 0]

FileTypeOK == /\ mem \in Maps
              /\ path \in Inodes \cup {NoInode}
              /\ tmp \in Inodes \cup {NoInode}
              /\ data \in [Inodes -> Seq(Blocks)]
              /\ w \in [Writers -> Save]
              /\ \A x \in Writers : w[x].off <= Length[w[x].snap]

FileInit == /\ mem = EmptyMap
            /\ path = NoInode
            /\ tmp = NoInode
            /\ data = [i \in Inodes |-> <<>>]
            /\ w = [x \in Writers |-> NoSave]
-----------------------------------------------------------------------------
\* json.MarshalIndent and json.Unmarshal: only the whole text of one map parses.
Encode(m) == [k \in 1..Length[m] |-> m]
Intact(s) == \E m \in Maps : s = Encode(m)
\* What loadState makes of a file: the map, or an empty one if it cannot parse.
Decode(s) == IF Intact(s) THEN CHOOSE m \in Maps : s = Encode(m) ELSE EmptyMap

\* write(2) at block k; a gap before it reads as zeros.
WriteAt(s, k, b) ==
  [j \in 1..(IF k > Len(s) THEN k ELSE Len(s)) |->
     IF j = k THEN b ELSE IF j <= Len(s) THEN s[j] ELSE Hole]

Unused(i) == i \notin {path, tmp} /\ \A x \in Writers : w[x].fd # i
-----------------------------------------------------------------------------
\* A handler changes the map under the lock, unlocks and calls saveState.
Change(x) ==
  /\ w[x].pc = "idle"
  /\ mem' \in Maps
  /\ w' = [w EXCEPT ![x].pc = "marshal"]
  /\ UNCHANGED <<path, tmp, data>>

Marshal(x) ==
  /\ w[x].pc = "marshal"
  /\ w' = [w EXCEPT ![x].pc = "open", ![x].snap = mem]
  /\ UNCHANGED <<mem, path, tmp, data>>

SaveReturns(x) == w' = [w EXCEPT ![x] = NoSave]
\* The error is logged and saveState returns.
SysCallFails(x) == DiskFails /\ SaveReturns(x) /\ UNCHANGED <<path, tmp, data>>

\* Mutant: the file itself is opened, not the temporary one.
OpenInPlace(x) ==
  /\ w[x].pc = "open"
  /\ \E i \in Inodes :
       /\ i = path \/ (path = NoInode /\ Unused(i))
       /\ path' = i /\ tmp' = i
       /\ data' = [data EXCEPT ![i] = <<>>]
       /\ w' = [w EXCEPT ![x].pc = "write", ![x].fd = i]
  /\ UNCHANGED mem
\* os.WriteFile opens with O_CREATE and O_TRUNC: a temporary file that is
\* already there is emptied, whoever is writing it.
OpenTmp(x) ==
  /\ w[x].pc = "open"
  /\ \/ SysCallFails(x)
     \/ \E i \in Inodes :
          /\ i = tmp \/ (tmp = NoInode /\ Unused(i))
          /\ tmp' = i
          /\ data' = [data EXCEPT ![i] = <<>>]
          /\ w' = [w EXCEPT ![x].pc = "write", ![x].fd = i]
          /\ UNCHANGED path
  /\ UNCHANGED mem

\* Mutants: one block too many is written; a failed write goes on to rename.
WriteBeyond(x) ==
  /\ w[x].pc = "write"
  /\ \/ SysCallFails(x)
     \/ /\ data' = [data EXCEPT ![w[x].fd] = WriteAt(@, w[x].off + 1, w[x].snap)]
        /\ w' = [w EXCEPT ![x].off = @ + 1,
                          ![x].pc = IF w[x].off = Length[w[x].snap]
                                    THEN "rename" ELSE "write"]
        /\ UNCHANGED <<path, tmp>>
  /\ UNCHANGED mem
WriteUnchecked(x) ==
  /\ w[x].pc = "write"
  /\ \/ /\ DiskFails
        /\ w' = [w EXCEPT ![x].pc = "rename"]
        /\ UNCHANGED <<path, tmp, data>>
     \/ /\ data' = [data EXCEPT ![w[x].fd] = WriteAt(@, w[x].off + 1, w[x].snap)]
        /\ w' = [w EXCEPT ![x].off = @ + 1,
                          ![x].pc = IF w[x].off + 1 = Length[w[x].snap]
                                    THEN "rename" ELSE "write"]
        /\ UNCHANGED <<path, tmp>>
  /\ UNCHANGED mem
WriteBlock(x) ==
  /\ w[x].pc = "write"
  /\ \/ SysCallFails(x)
     \/ /\ data' = [data EXCEPT ![w[x].fd] = WriteAt(@, w[x].off + 1, w[x].snap)]
        /\ w' = [w EXCEPT ![x].off = @ + 1,
                          ![x].pc = IF w[x].off + 1 = Length[w[x].snap]
                                    THEN "rename" ELSE "write"]
        /\ UNCHANGED <<path, tmp>>
  /\ UNCHANGED mem

\* os.Rename goes by name: the temporary file may be another call's by now, or
\* gone, which is only logged.
RenameTmp(x) ==
  /\ w[x].pc = "rename"
  /\ \/ SysCallFails(x)
     \/ /\ path' = IF tmp = NoInode THEN path ELSE tmp
        /\ tmp' = NoInode
        /\ SaveReturns(x)
        /\ UNCHANGED data
  /\ UNCHANGED mem

Stored == IF path = NoInode THEN EmptyMap ELSE Decode(data[path])

\* The process dies at any point; New calls loadState.
Restart ==
  /\ mem' = Stored
  /\ w' = [x \in Writers |-> NoSave]
  /\ UNCHANGED <<path, tmp, data>>

Saving ==
  \E x \in Writers :
    Change(x) \/ Marshal(x) \/ OpenTmp(x) \/ WriteBlock(x) \/ RenameTmp(x)

FileNext == Saving \/ Restart

FileSpec == FileInit /\ [][FileNext]_fvars

\* A broker that is never killed: every save that begins also returns.
SteadySpec == FileInit /\ [][Saving]_fvars
-----------------------------------------------------------------------------
(* Properties.                                                             *)

\* instances.json is never there in part: at every point where the broker may
\* die, what loadState would read parses, as one map that was saved ("saveState
\* writes the instance map to disk for persistence across broker restarts").
NeverTorn == path # NoInode => Intact(data[path])

\* When no save is under way, instances.json holds a map.  In SteadySpec, where
\* no save is cut short, this says what is left once every save has returned.
WholeAtRest == (\A x \in Writers : w[x].pc = "idle") => NeverTorn

Copies == [x \in Writers |-> IF w[x].pc \in {"open", "write", "rename"}
                             THEN {w[x].snap} ELSE {}]
Atomic == INSTANCE AtomicState WITH stored <- Stored, pending <- Copies

\* Six system calls, any of which may fail or be the last before a crash, act
\* as the one step that AtomicState allows: the file a restart finds is the old
\* map or the whole new one, and a failed save leaves the old one.
SaveIsAtomic == Atomic!Spec
=============================================================================
