------------------------------- MODULE InodeLife -------------------------------
(***************************************************************************)
(* The list of LKM/communicate.c remembers a file by the address of its    *)
(* inode, taken while create_list has the file open and kept after it is   *)
(* closed, without a reference.  The kernel may drop an inode nobody has   *)
(* open and use its memory for another file's, and files come and go under *)
(* their names.  The checks compare with what the address means by then.   *)
(* The rules are of one type here, and a check is one step (ProtectList).  *)
(***************************************************************************)
EXTENDS Naturals, FiniteSets

CONSTANTS
  File,   \* every file there will be, one after the other under the names
  Ino,    \* their numbers: two file systems number alike, and numbers come back
  Paths, Addr, Tasks,
  NULL

ASSUME InodeLifeAssumption ==
  /\ DOMAIN Ino = File
  /\ NULL \notin File \cup Addr

VARIABLES
  made,    \* the files that were made so far
  link,    \* the file under each name, NULL when there is none
  fd,      \* the file a task has open, NULL when it has none
  home,    \* where the inode of a file is, NULL when not in memory
  i_ino,   \* the number to be read at an address, also after it was freed
  rules    \* the list; with each node, as history: the file its line named
           \* and whether that file's inode has left the address since

names == <<made, link>>
memory == <<home, i_ino>>
inodeVars == <<names, fd, memory, rules>>

InMemory == {home[f] : f \in File} \ {NULL}

\* The inode of a file is found in memory, or read into any free address.
Load(f) ==
  IF home[f] # NULL THEN UNCHANGED memory
  ELSE \E a \in Addr \ InMemory :
         /\ home' = [home EXCEPT ![f] = a]
         /\ i_ino' = [i_ino EXCEPT ![a] = Ino[f]]

-----------------------------------------------------------------------------
(* Files and programs.                                                     *)

\* A new file takes a name, over the one that had it: what an editor's save is.
Make(p, f) ==
  /\ f \notin made
  /\ made' = made \cup {f}
  /\ link' = [link EXCEPT ![p] = f]
  /\ UNCHANGED <<fd, memory, rules>>

Unlink(p) ==
  /\ link[p] # NULL
  /\ link' = [link EXCEPT ![p] = NULL]
  /\ UNCHANGED <<made, fd, memory, rules>>

Open(t, p) ==
  /\ fd[t] = NULL /\ link[p] # NULL
  /\ Load(link[p])
  /\ fd' = [fd EXCEPT ![t] = link[p]]
  /\ UNCHANGED <<names, rules>>

Close(t) ==
  /\ fd[t] # NULL
  /\ fd' = [fd EXCEPT ![t] = NULL]
  /\ UNCHANGED <<names, memory, rules>>

\* An inode nobody has open leaves memory, removed or not.
Evict(f) ==
  /\ home[f] # NULL
  /\ \A t \in Tasks : fd[t] # f
  /\ home' = [home EXCEPT ![f] = NULL]
  /\ rules' = {[r EXCEPT !.lost = @ \/ r.inode = home[f]] : r \in rules}
  /\ UNCHANGED <<names, fd, i_ino>>

\* The page goes to somebody else.
Reclaim(a) ==
  /\ a \notin InMemory
  /\ i_ino' = [i_ino EXCEPT ![a] = NULL]
  /\ UNCHANGED <<names, fd, home, rules>>

-----------------------------------------------------------------------------
(* The list.                                                               *)

\* "Slip" marks a mistake that could be made in the definition below it; only
\* the experiments with the properties use it.

\* Slip: the address is taken before the file is opened.
Beforehand(f) == home[f]
Opened(f) == home'[f]

\* create_list, a line: filp_open, the address, filp_close.
AddRule(p) ==
  /\ link[p] # NULL
  /\ Load(link[p])
  /\ rules' = rules \cup {[inode |-> Opened(link[p]), file |-> link[p], lost |-> FALSE]}
  /\ UNCHANGED <<names, fd>>

\* destroy_list.
DestroyList ==
  /\ rules' = {}
  /\ UNCHANGED <<names, fd, memory>>

\* Slip: inodes are compared by number.
SameNumber(r, f) == i_ino[r.inode] = Ino[f]
SameInode(r, f) == r.inode = home[f]

\* is_fd_protected, for what the task has open.
IsFdProtected(f) == \E r \in rules : SameInode(r, f)

\* Slip: any rule hides.
AnyRule(r, f) == TRUE
HasNumber(r, f) == i_ino[r.inode] = Ino[f]

\* is_ino_protected, for the number of a record in a listing.
IsInoProtected(f) == \E r \in rules : HasNumber(r, f)

InodeInit ==
  /\ made = {} /\ link = [p \in Paths |-> NULL]
  /\ fd = [t \in Tasks |-> NULL]
  /\ home = [f \in File |-> NULL] /\ i_ino = [a \in Addr |-> NULL]
  /\ rules = {}

InodeNext ==
  \/ \E p \in Paths : \/ Unlink(p) \/ AddRule(p)
                      \/ \E f \in File : Make(p, f)
                      \/ \E t \in Tasks : Open(t, p)
  \/ \E t \in Tasks : Close(t)
  \/ \E f \in File : Evict(f)
  \/ \E a \in Addr : Reclaim(a)
  \/ DestroyList

InodeSpec == InodeInit /\ [][InodeNext]_inodeVars

-----------------------------------------------------------------------------
(* Properties.                                                             *)

\* Every variable has a value of its kind.
InodeTypeOK ==
  /\ made \subseteq File
  /\ link \in [Paths -> made \cup {NULL}] /\ fd \in [Tasks -> made \cup {NULL}]
  /\ home \in [File -> Addr \cup {NULL}]
  /\ i_ino \in [Addr -> {Ino[f] : f \in File} \cup {NULL}]
  /\ rules \subseteq [inode : Addr, file : File, lost : BOOLEAN]

Named(f) == \E r \in rules : r.file = f

\* is_fd_protected (LKM/communicate.c:112) answers for the files the lines of
\* the list named and for no other, as long as their inodes have stayed in
\* memory: an open file is refused wrongly only at an address some named file
\* has left, and let through wrongly only when its own inode was away in
\* between, whatever was saved over, removed and opened meanwhile.
FdVerdictRight ==
  \A t \in Tasks :
    fd[t] # NULL =>
      /\ IsFdProtected(fd[t]) /\ ~Named(fd[t]) => \E r \in rules : r.lost /\ r.inode = home[fd[t]]
      /\ Named(fd[t]) /\ ~IsFdProtected(fd[t]) => \E r \in rules : r.lost /\ r.file = fd[t]

\* is_ino_protected (LKM/communicate.c:131) knows a number, not a file: besides
\* an inode that was away, only another named file of the same number hides a
\* file that no line named.
InoVerdictRight ==
  \A f \in made :
    /\ IsInoProtected(f) /\ ~Named(f) =>
         \E r \in rules : HasNumber(r, f) /\ (r.lost \/ Ino[r.file] = Ino[f])
    /\ Named(f) /\ ~IsInoProtected(f) => \E r \in rules : r.lost /\ r.file = f
=============================================================================
